------------------------------ MODULE Utf8Reader ------------------------------
(***************************************************************************)
(* utf8AwareReader.Read over the pipe that an execution writes to: what    *)
(* the pipe delivers is cut where the program's writes end, what the front *)
(* end gets shall be cut between characters only.                          *)
(*                                                                         *)
(* A byte is <<w, i>>: the i-th of the w bytes of a character, or a byte   *)
(* that belongs to none (w = 0).  Of w = 5 are the three bytes of U+FFFD,  *)
(* the character that utf8.DecodeLastRune returns for an error as well.    *)
(***************************************************************************)
EXTENDS Integers, Sequences

CONSTANTS Texts,     \* what programs write: sequences of bytes
          BufLen,    \* len(p)
          MinRead    \* a read completes this many bytes, or takes all there is

VARIABLES text,      \* what was written
          unread,    \* what is left of it in the pipe
          residual,  \* r.residual
          pending,   \* r.pendingErr is io.EOF
          delivered, \* the bytes that the calls of Read returned, in a row
          breaks,    \* the numbers of them after each call
          ended      \* Read has returned io.EOF

readerVars == <<text, unread, residual, pending, delivered, breaks, ended>>

UTFMax == 4
Bytes == Nat \X Nat
BytesOfRune(w) == [i \in 1 .. (CASE w = 5 -> 3 [] w = 0 -> 1 [] OTHER -> w) |-> <<w, i>>]

(* The j-th byte is the last of a character that DecodeLastRune takes for  *)
(* one.                                                                    *)
RuneEndsAt(bytes, j) ==
  \E w \in 1 .. UTFMax : w <= j /\ \A i \in 1 .. w : bytes[j - w + i] = <<w, i>>

(* Texts that the reader can cut between characters: such a character ends *)
(* with one of any four bytes in a row, and with one of the last two.  So  *)
(* do the texts of characters of up to four bytes, also when U+FFFD occurs *)
(* alone among them or a byte of an unfinished one ends the text.          *)
Cuttable(bytes) ==
  \A i \in 0 .. (Len(bytes) - 2) :
    \E j \in (i + 1) .. (i + UTFMax) : j <= Len(bytes) /\ RuneEndsAt(bytes, j)

ASSUME TextsAssumption == \A t \in Texts : t \in Seq(Bytes) /\ Cuttable(t)
\* Read accepts no smaller buffer.
ASSUME BufLenAssumption == BufLen \in Nat /\ BufLen >= 2 * UTFMax
ASSUME MinReadAssumption == MinRead \in Nat

ReaderInit == /\ text \in Texts
              /\ unread = text
              /\ residual = <<>> /\ pending = FALSE
              /\ delivered = <<>> /\ breaks = {} /\ ended = FALSE

Deliver(bytes) == /\ delivered' = delivered \o bytes
                  /\ breaks' = breaks \cup {Len(delivered) + Len(bytes)}

(* The error that was kept back.                                           *)
ReadPending == /\ ~ended /\ pending
               /\ pending' = FALSE /\ ended' = TRUE
               /\ UNCHANGED <<text, unread, residual, delivered, breaks>>

(* Mutant: the residual is not cleared once it was returned.               *)
ReadAtEndKeeping == /\ ~ended /\ ~pending /\ unread = <<>>
                    /\ pending' = TRUE /\ UNCHANGED <<ended, residual>>
                    /\ Deliver(residual)
                    /\ UNCHANGED <<text, unread>>

(* The pipe is at its end: the residual first, then the error.             *)
ReadAtEnd == /\ ~ended /\ ~pending /\ unread = <<>>
             /\ IF residual # <<>>
                THEN /\ Deliver(residual)
                     /\ residual' = <<>> /\ pending' = TRUE /\ UNCHANGED ended
                ELSE ended' = TRUE /\ UNCHANGED <<delivered, breaks, residual, pending>>
             /\ UNCHANGED <<text, unread>>

(* k bytes come from the pipe.  The trailing bytes that do not end a       *)
(* character stay behind, unless all of the last four are of that kind.    *)
ReadBytes(k) ==
  LET p == residual \o SubSeq(unread, 1, k)
      n == Len(p)
      cuts == {i \in 0 .. (UTFMax - 1) : i < n /\ RuneEndsAt(p, n - i)}
      i == CHOOSE c \in cuts : \A d \in cuts : c <= d
  IN /\ ~ended /\ ~pending
     /\ unread' = SubSeq(unread, k + 1, Len(unread))
     /\ IF cuts # {} THEN Deliver(SubSeq(p, 1, n - i)) /\ residual' = SubSeq(p, n - i + 1, n)
        ELSE Deliver(p) /\ UNCHANGED residual
     /\ UNCHANGED <<text, pending, ended>>

ReaderNext ==
  \/ ReadPending
  \/ ReadAtEnd
  \/ \E k \in 1 .. Len(unread) :
       /\ Len(residual) + k <= BufLen
       /\ Len(residual) + k >= MinRead \/ k = Len(unread)
       /\ ReadBytes(k)

ReaderSpec == ReaderInit /\ [][ReaderNext]_readerVars

(***************************************************************************)
(* Nothing is lost and nothing is delivered twice: the front end gets what *)
(* the program wrote, whatever the sizes of its writes.                    *)
(***************************************************************************)
BytesKept == /\ delivered \o residual \o unread = text
             /\ ended => delivered = text

(* No character is cut in two: what a call returns ends where one ends, or *)
(* where the text does.                                                    *)
WholeRunes == \A c \in breaks : c = Len(text) \/ RuneEndsAt(text, c)

(* The front end gets the bytes the program wrote, in order, once, and no  *)
(* character in two pieces.                                                *)
TextDelivered == BytesKept /\ WholeRunes

(* The bytes that wait for the rest of their character are fewer than a    *)
(* character has: room is left in the buffer, and Read does not panic.     *)
ReaderInv ==
  /\ text \in Seq(Bytes) /\ Cuttable(text)
  /\ residual \in Seq(Bytes) /\ unread \in Seq(Bytes) /\ delivered \in Seq(Bytes)
  /\ Len(residual) < UTFMax
  /\ ended \in BOOLEAN /\ pending \in BOOLEAN
  /\ ended \/ pending => residual = <<>> /\ unread = <<>>
  /\ unread # <<>> => Len(delivered) = 0 \/ RuneEndsAt(text, Len(delivered))
  /\ TextDelivered
===============================================================================

------------------------- MODULE KernelServerService -------------------------
(***************************************************************************)
(* Proof that the kernel server keeps what ExecuteService promises the     *)
(* clients of execute requests, for every finite set of requests and every *)
(* capacity of the queue.                                                  *)
(***************************************************************************)
EXTENDS KernelServerProofs, Induction

-----------------------------------------------------------------------------
(* The replies to execute requests among all that goes over a socket       *)

\* c is the function of the definition of ExecuteReplies.
Chosen(c, seq) ==
  c = [i \in 0 .. Len(seq) |->
         IF i = 0 THEN <<>>
         ELSE IF IsExecute(seq[i]) THEN Append(c[i - 1], seq[i]) ELSE c[i - 1]]

LEMMA ChosenExists ==
  ASSUME NEW T, NEW seq \in Seq(T)
  PROVE  \E c : Chosen(c, seq)
<1> DEFINE Upto(m) == \E c : c = [i \in 0 .. m |->
                         IF i = 0 THEN <<>>
                         ELSE IF IsExecute(seq[i]) THEN Append(c[i - 1], seq[i]) ELSE c[i - 1]]
           G == {m \in Nat : Upto(m)}
<1>1. 0 \in G
  <2> DEFINE c == [i \in 0 .. 0 |-> <<>>]
  <2>1. c = [i \in 0 .. 0 |->
               IF i = 0 THEN <<>>
               ELSE IF IsExecute(seq[i]) THEN Append(c[i - 1], seq[i]) ELSE c[i - 1]]
    OBVIOUS
  <2>2. QED BY <2>1
<1>2. ASSUME NEW m \in Nat, m \in G PROVE m + 1 \in G
  <2>1. PICK c : c = [i \in 0 .. m |->
               IF i = 0 THEN <<>>
               ELSE IF IsExecute(seq[i]) THEN Append(c[i - 1], seq[i]) ELSE c[i - 1]]
    BY <1>2
  <2> DEFINE d == [i \in 0 .. m + 1 |->
               IF i = m + 1 THEN IF IsExecute(seq[i]) THEN Append(c[i - 1], seq[i]) ELSE c[i - 1]
               ELSE c[i]]
  <2>2. ASSUME NEW i \in 0 .. m + 1
        PROVE  d[i] = IF i = 0 THEN <<>>
                      ELSE IF IsExecute(seq[i]) THEN Append(d[i - 1], seq[i]) ELSE d[i - 1]
    <3>1. CASE i = 0 BY <2>1, <3>1
    <3>2. CASE i # 0
      <4>1. i - 1 \in 0 .. m /\ i - 1 # m + 1 /\ i - 1 \in 0 .. m + 1 BY <3>2
      <4>2. d[i - 1] = c[i - 1] BY <4>1
      <4>3. CASE i = m + 1 BY <4>2, <4>3
      <4>4. CASE i # m + 1
        <5>1. i \in 0 .. m /\ d[i] = c[i] BY <4>4
        <5>2. QED BY <2>1, <3>2, <4>2, <5>1
      <4>5. QED BY <4>3, <4>4
    <3>3. QED BY <3>1, <3>2
  <2>3. d = [i \in 0 .. m + 1 |->
               IF i = 0 THEN <<>>
               ELSE IF IsExecute(seq[i]) THEN Append(d[i - 1], seq[i]) ELSE d[i - 1]]
    <3> DEFINE e == [i \in 0 .. m + 1 |->
               IF i = 0 THEN <<>>
               ELSE IF IsExecute(seq[i]) THEN Append(d[i - 1], seq[i]) ELSE d[i - 1]]
    <3>1. \A i \in 0 .. m + 1 : e[i] = d[i] BY <2>2
    <3>2. DOMAIN e = 0 .. m + 1 /\ DOMAIN d = 0 .. m + 1 OBVIOUS
    <3> HIDE DEF d
    <3>3. d = [i \in 0 .. m + 1 |-> d[i]] BY <3>2 DEF d
    <3>4. e = [i \in 0 .. m + 1 |-> d[i]] BY <2>2
    <3>5. QED BY <3>3, <3>4
  <2> HIDE DEF d
  <2>4. QED BY <2>3
<1>3. Nat \subseteq G 
  <2> HIDE DEF G
  <2>1. QED BY <1>1, <1>2, SetInduction
<1>4. Len(seq) \in G
  <2>1. Len(seq) \in Nat OBVIOUS
  <2> HIDE DEF G
  <2>2. QED BY <1>3, <2>1
<1>5. QED BY <1>4 DEF Chosen

LEMMA ChosenIs ==
  ASSUME NEW T, NEW seq \in Seq(T)
  PROVE  \E c : Chosen(c, seq) /\ ExecuteReplies(seq) = c[Len(seq)]
<1> DEFINE c == CHOOSE f : Chosen(f, seq)
<1>1. Chosen(c, seq) BY ChosenExists
<1>2. ExecuteReplies(seq) = c[Len(seq)] BY DEF ExecuteReplies, Chosen
<1> HIDE DEF c
<1>3. QED BY <1>1, <1>2

LEMMA ChosenAgree ==
  ASSUME NEW T, NEW p \in Seq(T), NEW q \in Seq(T), NEW c, NEW d, Chosen(c, p), Chosen(d, q),
         NEW n \in Nat, n <= Len(p), n <= Len(q), \A i \in 1 .. n : p[i] = q[i]
  PROVE  c[n] = d[n]
<1> DEFINE G == {m \in Nat : m <= n => c[m] = d[m]}
<1>0. Len(p) \in Nat /\ Len(q) \in Nat OBVIOUS
<1>1. 0 \in G BY <1>0 DEF Chosen
<1>2. ASSUME NEW m \in Nat, m \in G PROVE m + 1 \in G
  <2>1. SUFFICES ASSUME m + 1 <= n PROVE c[m + 1] = d[m + 1] OBVIOUS
  <2>2. m + 1 \in 0 .. Len(p) /\ m + 1 \in 0 .. Len(q) /\ m + 1 # 0 /\ (m + 1) - 1 = m
     BY <1>0, <2>1
  <2>3. c[m] = d[m] /\ p[m + 1] = q[m + 1] BY <1>2, <2>1
  <2>4. c[m + 1] = IF IsExecute(p[m + 1]) THEN Append(c[m], p[m + 1]) ELSE c[m]
    BY <2>2 DEF Chosen
  <2>5. d[m + 1] = IF IsExecute(q[m + 1]) THEN Append(d[m], q[m + 1]) ELSE d[m]
    BY <2>2 DEF Chosen
  <2>6. QED BY <2>3, <2>4, <2>5
<1> HIDE DEF G
<1>3. Nat \subseteq G BY <1>1, <1>2, SetInduction
<1>4. QED BY <1>3 DEF G

LEMMA RepliesOfNone == ExecuteReplies(<<>>) = <<>>
<1>1. <<>> \in Seq({}) /\ Len(<<>>) = 0 OBVIOUS
<1>2. PICK c : Chosen(c, <<>>) /\ ExecuteReplies(<<>>) = c[0] BY <1>1, ChosenIs
<1>3. c[0] = <<>> BY <1>1, <1>2 DEF Chosen
<1>4. QED BY <1>2, <1>3

LEMMA RepliesOfAppend ==
  ASSUME NEW T, NEW q \in Seq(T), NEW m \in T
  PROVE  ExecuteReplies(Append(q, m)) =
           IF IsExecute(m) THEN Append(ExecuteReplies(q), m) ELSE ExecuteReplies(q)
<1> DEFINE p == Append(q, m)
           n == Len(q)
<1>1. /\ p \in Seq(T) /\ n \in Nat /\ Len(p) = n + 1 /\ p[n + 1] = m
      /\ \A i \in 1 .. n : p[i] = q[i]
  OBVIOUS
<1> HIDE DEF p
<1>2. PICK c : Chosen(c, p) /\ ExecuteReplies(p) = c[n + 1] BY <1>1, ChosenIs
<1>3. PICK d : Chosen(d, q) /\ ExecuteReplies(q) = d[n] BY ChosenIs
<1>4. c[n] = d[n] BY <1>1, <1>2, <1>3, ChosenAgree
<1>5. n + 1 \in 0 .. Len(p) /\ n + 1 # 0 /\ (n + 1) - 1 = n BY <1>1
<1>6. c[n + 1] = IF IsExecute(m) THEN Append(c[n], m) ELSE c[n]
  BY <1>1, <1>2, <1>5 DEF Chosen
<1>7. QED BY <1>2, <1>3, <1>4, <1>6 DEF p

LEMMA RepliesTyped ==
  ASSUME NEW T, NEW q \in Seq(T)
  PROVE  ExecuteReplies(q) \in Seq(T)
<1> DEFINE G == {n \in Nat : \A p \in Seq(T) : Len(p) = n => ExecuteReplies(p) \in Seq(T)}
<1>1. 0 \in G
  <2>1. \A p \in Seq(T) : Len(p) = 0 => p = <<>> OBVIOUS
  <2>2. QED BY <2>1, RepliesOfNone
<1>2. ASSUME NEW n \in Nat, n \in G PROVE n + 1 \in G
  <2>1. SUFFICES ASSUME NEW p \in Seq(T), Len(p) = n + 1 PROVE ExecuteReplies(p) \in Seq(T)
    OBVIOUS
  <2>2. PICK b \in Seq(T), m \in T : p = Append(b, m) /\ Len(b) = n BY <2>1, LastOff
  <2>3. ExecuteReplies(b) \in Seq(T) BY <1>2, <2>2
  <2>4. ExecuteReplies(p) = IF IsExecute(m) THEN Append(ExecuteReplies(b), m) ELSE ExecuteReplies(b)
    BY <2>2, RepliesOfAppend
  <2>5. Append(ExecuteReplies(b), m) \in Seq(T) BY <2>3
  <2>6. QED BY <2>3, <2>4, <2>5
<1> HIDE DEF G
<1>3. Nat \subseteq G BY <1>1, <1>2, SetInduction
<1>4. Len(q) \in G BY <1>3
<1>5. QED BY <1>4 DEF G

LEMMA RepliesOfConcat ==
  ASSUME NEW T, NEW a \in Seq(T), NEW b \in Seq(T)
  PROVE  ExecuteReplies(a \o b) = ExecuteReplies(a) \o ExecuteReplies(b)
<1> DEFINE G == {n \in Nat : \A p \in Seq(T) :
                   Len(p) = n => ExecuteReplies(a \o p) = ExecuteReplies(a) \o ExecuteReplies(p)}
<1>0. ExecuteReplies(a) \in Seq(T) BY RepliesTyped
<1>1. 0 \in G
  <2>1. \A p \in Seq(T) : Len(p) = 0 => p = <<>> /\ a \o p = a OBVIOUS
  <2>2. ExecuteReplies(a) \o <<>> = ExecuteReplies(a) BY <1>0
  <2>3. QED BY <2>1, <2>2, RepliesOfNone
<1>2. ASSUME NEW n \in Nat, n \in G PROVE n + 1 \in G
  <2>1. SUFFICES ASSUME NEW p \in Seq(T), Len(p) = n + 1
                 PROVE  ExecuteReplies(a \o p) = ExecuteReplies(a) \o ExecuteReplies(p)
    OBVIOUS
  <2>2. PICK q \in Seq(T), m \in T : p = Append(q, m) /\ Len(q) = n BY <2>1, LastOff
  <2>3. a \o q \in Seq(T) /\ a \o p = Append(a \o q, m) BY <2>2, AppendConcat
  <2>4. ExecuteReplies(a \o q) = ExecuteReplies(a) \o ExecuteReplies(q) BY <1>2, <2>2
  <2>5. ExecuteReplies(q) \in Seq(T) BY RepliesTyped
  <2> DEFINE ra == ExecuteReplies(a)
             rq == ExecuteReplies(q)
  <2>6. ra \in Seq(T) /\ rq \in Seq(T) BY <1>0, <2>5
  <2>7. ExecuteReplies(p) = IF IsExecute(m) THEN Append(rq, m) ELSE rq
    BY <2>2, RepliesOfAppend
  <2>8. ExecuteReplies(a \o p) = IF IsExecute(m) THEN Append(ra \o rq, m) ELSE ra \o rq
    <3> DEFINE aq == a \o q
    <3>1. aq \in Seq(T) /\ a \o p = Append(aq, m) /\ ExecuteReplies(aq) = ra \o rq BY <2>3, <2>4
    <3> HIDE DEF aq, ra, rq
    <3>2. ExecuteReplies(Append(aq, m))
            = IF IsExecute(m) THEN Append(ExecuteReplies(aq), m) ELSE ExecuteReplies(aq)
      BY <3>1, RepliesOfAppend
    <3>3. QED BY <3>1, <3>2
  <2> HIDE DEF ra, rq
  <2>9. ra \o Append(rq, m) = Append(ra \o rq, m) BY <2>6, AppendConcat
  <2>10. ExecuteReplies(a \o p) = ra \o ExecuteReplies(p) BY <2>7, <2>8, <2>9
  <2>11. QED BY <2>10 DEF ra
<1> HIDE DEF G
<1>3. Nat \subseteq G BY <1>1, <1>2, SetInduction
<1>4. Len(b) \in G BY <1>3
<1>5. QED BY <1>4 DEF G

-----------------------------------------------------------------------------
(* Requests keep the order of their socket                                 *)

LEMMA FollowsAppended ==
  ASSUME NEW S, NEW q \in Seq(S), NEW x \in S, NEW a
  PROVE  /\ \A b : Follows(q, a, b) => Follows(Append(q, x), a, b)
         /\ a \in Contents(q) => Follows(Append(q, x), a, x)
<1> DEFINE p == Append(q, x)
<1>1. /\ Len(q) \in Nat /\ DOMAIN q = 1 .. Len(q) /\ DOMAIN p = 1 .. Len(q) + 1
      /\ \A i \in 1 .. Len(q) : p[i] = q[i]
      /\ p[Len(q) + 1] = x
  OBVIOUS
<1> HIDE DEF p
<1>2. /\ \A i \in DOMAIN q : i \in DOMAIN p /\ i < Len(q) + 1
      /\ Len(q) + 1 \in DOMAIN p
  BY <1>1
<1>3. \A b : Follows(q, a, b) => Follows(p, a, b) BY <1>1, <1>2 DEF Follows
<1>4. a \in Contents(q) => Follows(p, a, x) BY <1>1, <1>2 DEF Follows, Contents
<1>5. QED BY <1>3, <1>4 DEF p

LEMMA FollowsDequeued ==
  ASSUME NEW S, NEW q \in Seq(S), q # <<>>, NEW a, NEW b, Follows(q, a, b)
  PROVE  /\ b \in Contents(Tail(q))
         /\ a # Head(q) => Follows(Tail(q), a, b)
<1> DEFINE p == Tail(q)
<1>1. /\ Len(q) \in Nat \ {0} /\ DOMAIN q = 1 .. Len(q) /\ DOMAIN p = 1 .. Len(q) - 1
      /\ Head(q) = q[1]
      /\ \A i \in 1 .. Len(q) - 1 : p[i] = q[i + 1]
  OBVIOUS
<1> HIDE DEF p
<1>2. PICK i \in DOMAIN q, j \in DOMAIN q : i < j /\ q[i] = a /\ q[j] = b BY DEF Follows
<1>3. j - 1 \in DOMAIN p /\ p[j - 1] = b BY <1>1, <1>2
<1>4. ASSUME a # Head(q) PROVE Follows(p, a, b)
  <2>1. i # 1 BY <1>1, <1>2, <1>4
  <2>2. i - 1 \in DOMAIN p /\ p[i - 1] = a /\ i - 1 < j - 1 BY <1>1, <1>2, <2>1
  <2>3. QED BY <1>3, <2>2 DEF Follows
<1>5. QED BY <1>3, <1>4 DEF p, Contents

LEMMA AskedNext == SInv /\ AskedOnce /\ Next => AskedOnce'
<1> SUFFICES ASSUME SInv, AskedOnce, Next PROVE AskedOnce'
  OBVIOUS
<1>0. /\ \A s \in Socks : asked[s] \in Seq(Execs) /\ asked = [t \in Socks |-> asked[t]]
      /\ origin = [r \in Requests |-> origin[r]] /\ Execs \subseteq Requests /\ "none" \notin Socks
  BY Names DEF SInv, TypeOK, TypeClients
<1>1. CASE UNCHANGED <<origin, asked>> BY <1>1 DEF AskedOnce, Distinct, Contents
<1>2. ASSUME NEW s \in Socks, NEW q \in Requests, Send(s, q), NEW t \in Socks
      PROVE  Distinct(asked'[t]) /\ Contents(asked'[t]) = {r \in Execs : origin'[r] = t}
  <2>1. /\ origin[q] = "none" /\ origin'[q] = s
        /\ \A r \in Requests : r # q => origin'[r] = origin[r]
    BY <1>0, <1>2 DEF Send
  <2>2. Distinct(asked[t]) /\ Contents(asked[t]) = {r \in Execs : origin[r] = t} BY DEF AskedOnce
  <2>3. CASE q \in Execs /\ s = t
    <3>1. asked'[t] = Append(asked[t], q) BY <1>0, <1>2, <2>3 DEF Send
    <3>2. q \notin Contents(asked[t]) BY <1>0, <2>1, <2>2
    <3>3. Contents(Append(asked[t], q)) = Contents(asked[t]) \cup {q} /\ Distinct(Append(asked[t], q))
      <4>1. asked[t] \in Seq(Execs) /\ q \in Execs /\ Distinct(asked[t]) BY <1>0, <2>2, <2>3
      <4>2. QED BY <3>2, <4>1, Appended
    <3>4. QED BY <1>0, <2>1, <2>2, <2>3, <3>1, <3>3
  <2>4. CASE ~(q \in Execs /\ s = t)
    <3>1. asked'[t] = asked[t] BY <1>0, <1>2, <2>4 DEF Send
    <3>2. QED BY <1>0, <2>1, <2>2, <2>4, <3>1
  <2>5. QED BY <2>3, <2>4
<1>3. CASE \E s \in Socks, q \in Requests : Send(s, q) BY <1>2, <1>3 DEF AskedOnce
<1>4. QED BY <1>1, <1>3, ClientShape DEF clientVars

LEMMA BehindKept ==
  ASSUME SInv, Placed, Next, NEW s \in Socks, NEW a \in Execs, NEW b \in Execs,
         a \in Waiting', origin[b] = s, Behind(s, a, b)
  PROVE  Behind(s, a, b)'
<1>0. /\ \A t \in Socks : inbox[t] \in Seq(Requests)
      /\ inbox = [t \in Socks |-> inbox[t]] /\ held = [t \in Socks |-> held[t]]
      /\ queue \in Seq(Execs) /\ a # NoReq /\ b # NoReq /\ Execs \subseteq Requests
  BY Names DEF SInv, TypeOK, TypeClients, TypeLoops, TypeExec
<1>1. CASE Stays BY <1>1 DEF Stays, Behind, Follows, Contents
<1>2. ASSUME NEW t \in Socks, NEW q \in Requests, Send(t, q) PROVE Behind(s, a, b)'
  <2>1. /\ inbox' = [inbox EXCEPT ![t] = Append(inbox[t], q)] /\ held' = held /\ queue' = queue
    BY <1>2 DEF Send, loopVars, execVars
  <2>2. inbox'[s] = inbox[s] \/ inbox'[s] = Append(inbox[s], q) BY <1>0, <2>1
  <2>3. Contents(Append(inbox[s], q)) = Contents(inbox[s]) \cup {q} BY <1>0, Appended
  <2>4. Follows(inbox[s], a, b) => Follows(Append(inbox[s], q), a, b)
    BY <1>0, FollowsAppended
  <2>5. b \in Contents(inbox[s]) => b \in Contents(inbox'[s]) BY <2>2, <2>3
  <2>6. Follows(inbox[s], a, b) => Follows(inbox'[s], a, b) BY <2>2, <2>4
  <2>7. QED BY <2>1, <2>5, <2>6 DEF Behind
<1>3. ASSUME NEW t \in Socks, NEW q \in Requests, Receive(t, q)
      PROVE  /\ b # q => (b \in Contents(inbox[s]) => b \in Contents(inbox'[s]))
             /\ a # q => (Follows(inbox[s], a, b) => Follows(inbox'[s], a, b))
             /\ (a = q /\ Follows(inbox[s], a, b)) => b \in Contents(inbox'[s]) \/ t # s
             /\ t # s => inbox'[s] = inbox[s]
  <2>1. CASE t # s BY <1>0, <1>3, <2>1 DEF Receive
  <2>2. CASE t = s
    <3>1. inbox[s] # <<>> /\ inbox'[s] = Tail(inbox[s]) /\ q = Head(inbox[s])
      BY <1>0, <1>3, <2>2 DEF Receive, SInv, StillReady
    <3>2. Contents(inbox[s]) = Contents(Tail(inbox[s])) \cup {Head(inbox[s])}
      BY <1>0, <3>1, Dequeued
    <3>3. Follows(inbox[s], a, b) =>
            /\ b \in Contents(Tail(inbox[s]))
            /\ a # Head(inbox[s]) => Follows(Tail(inbox[s]), a, b)
      BY <1>0, <3>1, FollowsDequeued
    <3>4. QED BY <2>2, <3>1, <3>2, <3>3
  <2>3. QED BY <2>1, <2>2
<1>4. CASE UNCHANGED <<held, queue, item, origin>> /\ \E t \in Socks : \E q \in Requests \ Execs : Receive(t, q)
  <2>1. PICK t \in Socks, q \in Requests \ Execs : Receive(t, q) BY <1>4
  <2>2. a # q /\ b # q BY <2>1
  <2>3. QED BY <1>3, <1>4, <2>1, <2>2 DEF Behind
<1>5. ASSUME NEW t \in Socks, ReceiveExecute(t) PROVE Behind(s, a, b)'
  <2>1. PICK q \in Execs : /\ Receive(t, q) /\ held' = [held EXCEPT ![t] = q] /\ queue' = queue
                           /\ lpc[t] = "loop"
    BY <1>5 DEF ReceiveExecute, Receive, execVars
  <2>2. held[t] = NoReq BY <2>1 DEF Placed
  <2>3. CASE t # s
    <3>1. inbox'[s] = inbox[s] /\ held'[s] = held[s]
      BY <1>0, <1>3, <2>1, <2>3
    <3>2. QED BY <2>1, <3>1 DEF Behind
  <2>4. CASE t = s
    <3>1. held'[s] = q BY <1>0, <2>1, <2>4
    <3>2. /\ b # q => (b \in Contents(inbox[s]) => b \in Contents(inbox'[s]))
          /\ a # q => (Follows(inbox[s], a, b) => Follows(inbox'[s], a, b))
          /\ (a = q /\ Follows(inbox[s], a, b)) => b \in Contents(inbox'[s])
      BY <1>0, <1>3, <2>1, <2>4
    <3>3. a # held[s] /\ b # held[s] BY <1>0, <2>2, <2>4
    <3>4. QED BY <2>1, <3>1, <3>2, <3>3 DEF Behind
  <2>5. QED BY <2>3, <2>4
<1>6. ASSUME NEW t \in Socks, Push(t) PROVE Behind(s, a, b)'
  <2>1. /\ queue' = Append(queue, held[t]) /\ held' = [held EXCEPT ![t] = NoReq] /\ inbox' = inbox
        /\ held[t] \in Execs /\ held[t] # NoReq
    BY <1>6 DEF Push, clientVars, SInv, TypeOK, AtWork, TypeLoops
  <2>2. /\ Contents(queue') = Contents(queue) \cup {held[t]}
        /\ Follows(queue, a, b) => Follows(queue', a, b)
        /\ a \in Contents(queue) => Follows(queue', a, held[t])
    <3>1. Contents(queue') = Contents(queue) \cup {held[t]} BY <1>0, <2>1, Appended
    <3>2. /\ Follows(queue, a, b) => Follows(Append(queue, held[t]), a, b)
          /\ a \in Contents(queue) => Follows(Append(queue, held[t]), a, held[t])
      BY <1>0, <2>1, FollowsAppended
    <3>3. QED BY <2>1, <3>1, <3>2
  <2>3. s = t \/ held'[s] = held[s] BY <1>0, <2>1
  <2>4. QED BY <2>1, <2>2, <2>3 DEF Behind
<1>7. CASE TakeItem \/ AbortTake
  <2>1. queue # <<>> /\ queue' = Tail(queue) /\ UNCHANGED <<inbox, held>> /\ item' = Head(queue)
    BY <1>7 DEF TakeItem, AbortTake, clientVars, loopVars
  <2>2. a # Head(queue) BY <1>7, <2>1, Taken
  <2>3. /\ Contents(queue) = Contents(queue') \cup {Head(queue)}
        /\ Follows(queue, a, b) => Follows(queue', a, b)
    BY <1>0, <2>1, <2>2, Dequeued, FollowsDequeued
  <2>4. QED BY <2>1, <2>2, <2>3 DEF Behind
<1>8. QED BY <1>1, <1>2, <1>4, <1>5, <1>6, <1>7, Ways

LEMMA InOrderNext == SInv /\ Placed /\ AskedOnce /\ InOrder /\ Next => InOrder'
<1> SUFFICES ASSUME SInv, Placed, AskedOnce, InOrder, Next, NEW s \in Socks,
                    NEW i \in DOMAIN asked'[s], NEW j \in DOMAIN asked'[s],
                    i < j, asked'[s][i] \in Waiting'
             PROVE  Behind(s, asked[s][i], asked[s][j])'
  BY DEF InOrder
<1>0. asked[s] \in Seq(Execs) /\ asked = [t \in Socks |-> asked[t]] /\ Execs \subseteq Requests
  BY Names DEF SInv, TypeOK, TypeClients
<1>1. ASSUME i \in DOMAIN asked[s], j \in DOMAIN asked[s],
             asked'[s][i] = asked[s][i], asked'[s][j] = asked[s][j]
      PROVE  Behind(s, asked[s][i], asked[s][j])'
  <2>0. PICK a \in Execs, b \in Execs : a = asked[s][i] /\ b = asked[s][j] BY <1>0, <1>1
  <2>1. a \in Contents(asked[s]) /\ b \in Contents(asked[s]) BY <1>1, <2>0 DEF Contents
  <2>2. origin[a] = s /\ origin[b] = s BY <2>1 DEF AskedOnce
  <2>3. a \in Waiting' BY <1>1, <2>0
  <2>4. a \in Waiting BY <1>0, <2>2, <2>3, WaitingNext, Names
  <2>5. Behind(s, a, b) BY <1>1, <2>0, <2>4 DEF InOrder
  <2>6. Behind(s, a, b)' BY <2>2, <2>3, <2>5, BehindKept
  <2>7. QED BY <1>1, <2>0, <2>6
<1>2. CASE asked' = asked BY <1>1, <1>2
<1>3. CASE asked' # asked
  <2>1. PICK t \in Socks, q \in Requests : Send(t, q)
    BY <1>3, ClientShape DEF clientVars
  <2>2. q \in Execs /\ asked' = [asked EXCEPT ![t] = Append(asked[t], q)] BY <1>3, <2>1 DEF Send
  <2>3. CASE t # s
    <3>1. asked'[s] = asked[s] BY <1>0, <2>2, <2>3
    <3>2. QED BY <1>1, <3>1
  <2>4. CASE t = s
    <3>1. asked'[s] = Append(asked[s], q) BY <1>0, <2>2, <2>4
    <3>2. /\ Len(asked[s]) \in Nat /\ DOMAIN asked[s] = 1 .. Len(asked[s])
          /\ DOMAIN asked'[s] = 1 .. Len(asked[s]) + 1
          /\ \A k \in DOMAIN asked[s] : asked'[s][k] = asked[s][k]
          /\ asked'[s][Len(asked[s]) + 1] = q
      BY <1>0, <2>2, <3>1
    <3>3. i \in DOMAIN asked[s] BY <3>2
    <3>4. CASE j \in DOMAIN asked[s] BY <1>1, <3>2, <3>3, <3>4
    <3>5. CASE j \notin DOMAIN asked[s]
      <4>0. PICK a \in Execs : a = asked[s][i] BY <1>0, <3>3
      <4>1. asked'[s][j] = q /\ asked'[s][i] = a BY <3>2, <3>3, <3>5, <4>0
      <4>2. a \in Contents(asked[s]) BY <3>3, <4>0 DEF Contents
      <4>3. origin[a] = s BY <4>2 DEF AskedOnce
      <4>4. a \in Waiting BY <1>0, <4>1, <4>2, <4>3, WaitingNext, Names
      <4>5. /\ inbox'[s] = Append(inbox[s], q) /\ inbox[s] \in Seq(Requests)
            /\ held' = held /\ queue' = queue
        BY <2>1, <2>4 DEF Send, loopVars, execVars, SInv, TypeOK, TypeClients
      <4>6. /\ q \in Contents(inbox'[s])
            /\ a \in Contents(inbox[s]) => Follows(inbox'[s], a, q)
        BY <4>5, Appended, FollowsAppended
      <4>7. a \in Contents(queue) \/ a = held[s] \/ a \in Contents(inbox[s])
        <5>1. ASSUME NEW u \in Socks, a = held[u] PROVE u = s
          BY <4>2, <4>3, <5>1, Names DEF Placed
        <5>2. ASSUME NEW u \in Socks, a \in Contents(inbox[u]) PROVE u = s
          BY <4>3, <5>2 DEF Placed
        <5>3. QED BY <4>4, <5>1, <5>2 DEF Waiting
      <4>8. Behind(s, a, q)' BY <4>5, <4>6, <4>7 DEF Behind
      <4>9. QED BY <4>1, <4>8
    <3>6. QED BY <3>4, <3>5
  <2>5. QED BY <2>3, <2>4
<1>4. QED BY <1>2, <1>3

-----------------------------------------------------------------------------
(* A reply comes after the request was taken up, and at its end            *)

SomeReply(se, re, r) == \E s \in Socks :
  \/ \E i \in DOMAIN se[s] : se[s][i].req = r
  \/ \E i \in DOMAIN re[s] : re[s][i].req = r
SomeStatus(se, re, r) == \E v \in {"ok", "error", "abort"} : \E s \in Socks :
  [req |-> r, status |-> v] \in Contents(se[s]) \cup Contents(re[s])

LEMMA SeenAnswered ==
  ASSUME NEW se \in [Socks -> Seq(Replies)], NEW re \in [Socks -> Seq(Replies \cup {END_OF_LOOP})],
         NEW r \in Requests
  PROVE  SomeReply(se, re, r) <=> SomeStatus(se, re, r)
<1>1. ASSUME NEW m \in Replies \cup {END_OF_LOOP}, m.req = r
      PROVE  \E v \in {"ok", "error", "abort"} : m = [req |-> r, status |-> v]
  <2>1. m \in Replies BY <1>1, Names, ExecutePcs
  <2>2. m = [req |-> m.req, status |-> m.status] /\ m.status \in {"ok", "error", "abort"}
    BY <2>1 DEF Replies
  <2>3. QED BY <1>1, <2>2
<1>2. ASSUME NEW s \in Socks
      PROVE  /\ \A i \in DOMAIN se[s] : se[s][i] \in Replies
             /\ \A i \in DOMAIN re[s] : re[s][i] \in Replies \cup {END_OF_LOOP}
  OBVIOUS
<1>3. ASSUME NEW s \in Socks, NEW m \in Contents(se[s]) \cup Contents(re[s]), m.req = r
      PROVE  \E v \in {"ok", "error", "abort"} :
               [req |-> r, status |-> v] \in Contents(se[s]) \cup Contents(re[s])
  <2>1. m \in Replies \cup {END_OF_LOOP} BY <1>2, <1>3 DEF Contents
  <2>2. PICK v \in {"ok", "error", "abort"} : m = [req |-> r, status |-> v] BY <1>1, <1>3, <2>1
  <2>3. QED BY <1>3, <2>2
<1>4. ASSUME NEW v, NEW s \in Socks,
             [req |-> r, status |-> v] \in Contents(se[s]) \cup Contents(re[s])
      PROVE  \E m \in Contents(se[s]) \cup Contents(re[s]) : m.req = r
  <2>1. [req |-> r, status |-> v].req = r OBVIOUS
  <2>2. QED BY <1>4, <2>1
<1>5. \A s \in Socks :
        (\E m \in Contents(se[s]) \cup Contents(re[s]) : m.req = r)
          <=> \/ \E i \in DOMAIN se[s] : se[s][i].req = r
              \/ \E i \in DOMAIN re[s] : re[s][i].req = r
  BY DEF Contents
<1>6. QED BY <1>3, <1>4, <1>5 DEF SomeReply, SomeStatus

LEMMA SeenNew ==
  ASSUME SInv, SInv', Next, NEW r \in Execs, Seen(r)', ~Seen(r)
  PROVE  r = item /\ (PushReply \/ AbortReply)
<1>1. r \in Requests /\ TypeWire /\ TypeWire' BY Names DEF SInv, TypeOK
<1>2. \A v \in {"ok", "error", "abort"} : ~AnsweredBy(r, v)
  <2>1. sent \in [Socks -> Seq(Replies)] /\ resq \in [Socks -> Seq(Replies \cup {END_OF_LOOP})]
    BY <1>1 DEF TypeWire
  <2>2. SomeReply(sent, resq, r) <=> SomeStatus(sent, resq, r) BY <1>1, <2>1, SeenAnswered
  <2>3. Seen(r) <=> SomeReply(sent, resq, r)
    BY DEF Seen, Delivered, Underway, SomeReply
  <2>4. QED BY <2>2, <2>3 DEF AnsweredBy, SomeStatus
<1>3. \E v \in {"ok", "error", "abort"} : AnsweredBy(r, v)'
  <2>1. sent' \in [Socks -> Seq(Replies)] /\ resq' \in [Socks -> Seq(Replies \cup {END_OF_LOOP})]
    BY <1>1 DEF TypeWire
  <2>2. SomeReply(sent', resq', r) <=> SomeStatus(sent', resq', r) BY <1>1, <2>1, SeenAnswered
  <2>3. Seen(r)' <=> SomeReply(sent', resq', r)
    BY DEF Seen, Delivered, Underway, SomeReply
  <2>4. QED BY <2>2, <2>3 DEF AnsweredBy, SomeStatus
<1>4. PICK v \in {"ok", "error", "abort"} : AnsweredBy(r, v)' BY <1>3
<1>5. ~AnsweredBy(r, v) BY <1>2
<1>6. QED BY <1>4, <1>5, AnsweredNew

LEMMA AnsweredLateNext ==
  SInv /\ SInv' /\ AbortInv /\ AnsweredLate /\ Next => AnsweredLate'
<1> SUFFICES ASSUME SInv, SInv', AbortInv, AnsweredLate, Next PROVE AnsweredLate'
  OBVIOUS
<1>0. /\ Execs \subseteq Requests /\ NoReq \notin Execs /\ item \in Execs \cup {NoReq} /\ Placed
      /\ "none" \notin Socks
  BY Names DEF SInv, TypeOK, TypeExec, AbortInv
<1>1. ASSUME NEW r \in Execs, Seen(r)'
      PROVE  /\ origin'[r] \in Socks /\ r \notin Waiting'
             /\ r = item' => epc' \in {"cleanup", "idle", "abortIdle"}
  <2>1. CASE Seen(r)
    <3>1. origin[r] \in Socks /\ r \notin Waiting BY <2>1 DEF AnsweredLate
    <3>2. origin'[r] \in Socks /\ r \notin Waiting' BY <1>0, <3>1, GoneForGood
    <3>3. ASSUME r = item' PROVE epc' \in {"cleanup", "idle", "abortIdle"}
      <4>1. ~(TakeItem \/ AbortTake) BY <1>0, <3>1, <3>3, Taken
      <4>2. CASE ExecStep \/ Handler
        BY <1>0, <2>1, <3>3, <4>1, <4>2 DEF ExecStep, Handler, HandlerReturns, LoopEnds,
           PublishBusy, StartHandler, PushReply, ClearCurrent, PublishIdle, EndOngoing,
           AbortEnds, AbortBusy, AbortReply, AbortIdle, After, AnsweredLate
      <4>3. CASE ~(ExecStep \/ Handler)
        BY <2>1, <3>3, <4>3, WorkShape DEF WorkVars, AnsweredLate
      <4>4. QED BY <4>2, <4>3
    <3>4. QED BY <3>2, <3>3
  <2>2. CASE ~Seen(r)
    <3>1. r = item /\ (PushReply \/ AbortReply) BY <1>1, <2>2, SeenNew
    <3>2. r \notin Waiting /\ origin[r] \in Socks
      BY <1>0, <3>1 DEF Placed, SInv, Sourced
    <3>3. origin'[r] \in Socks /\ r \notin Waiting' BY <1>0, <3>2, GoneForGood
    <3>4. QED BY <3>1, <3>3 DEF PushReply, AbortReply
  <2>3. QED BY <2>1, <2>2
<1>2. ASSUME epc' \in {"run", "reply", "cleanup", "idle"} PROVE item' \in ran'
  <2>1. CASE StartHandler BY <2>1 DEF StartHandler
  <2>2. CASE (ExecStep \/ Handler) /\ ~StartHandler
    BY <1>2, <2>2, RanShape DEF ExecStep, Handler, HandlerReturns, TakeItem, LoopEnds, PublishBusy,
       PushReply, ClearCurrent, PublishIdle, EndOngoing, AbortTake, AbortEnds, AbortBusy,
       AbortReply, AbortIdle, After, AnsweredLate
  <2>3. CASE ~(ExecStep \/ Handler)
    BY <1>2, <2>3, WorkShape DEF WorkVars, AnsweredLate
  <2>4. QED BY <2>1, <2>2, <2>3
<1>3. QED BY <1>1, <1>2 DEF AnsweredLate

-----------------------------------------------------------------------------
(* The whole invariant                                                     *)

LEMMA OrderInit == Init => OrderInv
<1> SUFFICES ASSUME Init PROVE OrderInv
  OBVIOUS
<1> USE DEF Init
<1>1. AskedOnce BY Names DEF AskedOnce, Distinct, Contents
<1>2. InOrder BY DEF InOrder
<1>3. AnsweredLate BY DEF AnsweredLate, Seen, Delivered, Underway
<1>4. QED BY <1>1, <1>2, <1>3 DEF OrderInv

LEMMA OrderStutter == OrderInv /\ UNCHANGED vars => OrderInv'
<1> SUFFICES ASSUME OrderInv, UNCHANGED vars PROVE OrderInv'
  OBVIOUS
<1> USE DEF vars, clientVars, loopVars, wireVars, execVars
<1>1. Waiting' = Waiting BY DEF Waiting, Contents
<1>2. AskedOnce' BY DEF OrderInv, AskedOnce, Distinct, Contents
<1>3. \A s, a, b : Behind(s, a, b)' = Behind(s, a, b) BY DEF Behind, Follows, Contents
<1>4. InOrder' BY <1>1, <1>3 DEF OrderInv, InOrder
<1>5. AnsweredLate' BY <1>1 DEF OrderInv, AnsweredLate, Seen, Delivered, Underway
<1>6. QED BY <1>2, <1>4, <1>5 DEF OrderInv

\* The whole invariant of the kernel server: its types and replies, where every request
\* is, what is published of it, what stopped the queue, and that requests keep their order.
THEOREM ServerInvariance == Spec => []ServerInv
<1>1. Init => OrderInv BY OrderInit
<1>2. SInv /\ SInv' /\ AbortInv /\ OrderInv /\ [Next]_vars => OrderInv'
  BY AskedNext, InOrderNext, AnsweredLateNext, OrderStutter DEF OrderInv, AbortInv
<1>3. QED BY <1>1, <1>2, Invariance, AbortInvariance, PTL DEF Spec, ServerInv

-----------------------------------------------------------------------------
(* What is sent back on a socket                                           *)

Answers(s) == ExecuteReplies(sent[s] \o resq[s])

Messages == Replies \cup {END_OF_LOOP}

LEMMA WireSeqs ==
  ASSUME TypeWire, NEW s \in Socks
  PROVE  sent[s] \in Seq(Messages) /\ resq[s] \in Seq(Messages)
<1>1. sent[s] \in Seq(Replies) /\ Replies \subseteq Messages BY DEF TypeWire, Messages
<1>2. resq[s] \in Seq(Messages) BY DEF TypeWire, Messages
<1>3. QED BY <1>1, <1>2

LEMMA ReplyOfOne ==
  ASSUME NEW m \in Messages
  PROVE  ExecuteReplies(<<m>>) = IF IsExecute(m) THEN <<m>> ELSE <<>>
<1>1. <<>> \in Seq(Messages) /\ Append(<<>>, m) = <<m>> OBVIOUS
<1>2. ExecuteReplies(Append(<<>>, m))
        = IF IsExecute(m) THEN Append(ExecuteReplies(<<>>), m) ELSE ExecuteReplies(<<>>)
  BY <1>1, RepliesOfAppend
<1>3. QED BY <1>1, <1>2, RepliesOfNone

\* A message added to an inner socket is an answer, if it is about an execute request.
LEMMA AnswersEnqueued ==
  ASSUME TypeWire, NEW s \in Socks, NEW m \in Messages, Enqueue(s, m), NEW t \in Socks
  PROVE  Answers(t)' = IF t = s /\ IsExecute(m) THEN Append(Answers(t), m) ELSE Answers(t)
<1>1. CASE t # s BY <1>1 DEF Enqueue, TypeWire, Answers
<1>2. CASE t = s
  <2> DEFINE p == sent[s]
             q == resq[s]
  <2>1. p \in Seq(Messages) /\ q \in Seq(Messages) BY WireSeqs
  <2>2. sent'[s] = p /\ resq'[s] = Append(q, m) BY DEF Enqueue, TypeWire
  <2> HIDE DEF p, q
  <2>3. p \o q \in Seq(Messages) /\ p \o Append(q, m) = Append(p \o q, m) BY <2>1, AppendConcat
  <2>4. ExecuteReplies(Append(p \o q, m))
          = IF IsExecute(m) THEN Append(ExecuteReplies(p \o q), m) ELSE ExecuteReplies(p \o q)
    <3> DEFINE pq == p \o q
    <3>1. pq \in Seq(Messages) BY <2>3
    <3> HIDE DEF pq
    <3>2. ExecuteReplies(Append(pq, m))
            = IF IsExecute(m) THEN Append(ExecuteReplies(pq), m) ELSE ExecuteReplies(pq)
      BY <3>1, RepliesOfAppend
    <3>3. QED BY <3>2 DEF pq
  <2>5. Answers(s)' = ExecuteReplies(Append(p \o q, m)) BY <2>2, <2>3 DEF Answers
  <2>6. Answers(s) = ExecuteReplies(p \o q) BY DEF Answers, p, q
  <2>7. QED BY <1>2, <2>4, <2>5, <2>6
<1>3. QED BY <1>1, <1>2

\* Forwarding takes nothing away from the answers.
LEMMA AnswersForwarded ==
  ASSUME TypeWire, StillReady, NEW s \in Socks, Forward(s), NEW t \in Socks
  PROVE  Answers(t)' = Answers(t)
<1>1. CASE t # s BY <1>1 DEF Forward, TypeWire, Answers
<1>2. CASE t = s
  <2> DEFINE p == sent[s]
             q == resq[s]
             m == Head(q)
             b == Tail(q)
  <2>1. p \in Seq(Messages) /\ q \in Seq(Messages) BY WireSeqs
  <2>2. /\ resq'[s] = b /\ q # <<>>
        /\ sent'[s] = IF m = END_OF_LOOP THEN p ELSE Append(p, m)
    BY DEF Forward, StillReady, TypeWire
  <2> HIDE DEF p, q
  <2>3. m \in Messages /\ b \in Seq(Messages) /\ q = <<m>> \o b BY <2>1, <2>2
  <2> HIDE DEF m, b
  <2>4. /\ ExecuteReplies(p \o q) = ExecuteReplies(p) \o ExecuteReplies(q)
        /\ ExecuteReplies(p \o b) = ExecuteReplies(p) \o ExecuteReplies(b)
    BY <2>1, <2>3, RepliesOfConcat
  <2>5. Answers(s) = ExecuteReplies(p \o q) BY DEF Answers, p, q
  <2>6. CASE m = END_OF_LOOP
    <3>1. ~IsExecute(m) BY <2>6, ExecutePcs, Names DEF IsExecute
    <3>2. <<m>> \in Seq(Messages) BY <2>3
    <3>3. ExecuteReplies(<<m>> \o b) = ExecuteReplies(<<m>>) \o ExecuteReplies(b)
      <4> DEFINE a == <<m>>
      <4>1. a \in Seq(Messages) BY <3>2
      <4> HIDE DEF a
      <4>2. ExecuteReplies(a \o b) = ExecuteReplies(a) \o ExecuteReplies(b)
        BY <2>3, <4>1, RepliesOfConcat
      <4>3. QED BY <4>2 DEF a
    <3>4. ExecuteReplies(<<m>>) = <<>> BY <2>3, <3>1, ReplyOfOne
    <3>5. ExecuteReplies(b) \in Seq(Messages) BY <2>3, RepliesTyped
    <3>6. <<>> \o ExecuteReplies(b) = ExecuteReplies(b) BY <3>5
    <3>7. ExecuteReplies(q) = ExecuteReplies(b) BY <2>3, <3>3, <3>4, <3>6
    <3>8. Answers(s)' = ExecuteReplies(p \o b) BY <2>2, <2>6 DEF Answers
    <3>9. QED BY <1>2, <2>4, <2>5, <3>7, <3>8
  <2>7. CASE m # END_OF_LOOP
    <3>1. Append(p, m) \o b = p \o q BY <2>1, <2>3
    <3>2. Answers(s)' = ExecuteReplies(Append(p, m) \o b) BY <2>2, <2>7 DEF Answers
    <3>3. QED BY <1>2, <2>5, <3>1, <3>2
  <2>8. QED BY <2>6, <2>7
<1>3. QED BY <1>1, <1>2

\* The reply of kernel_info is sent past the inner socket, and is no answer.
LEMMA AnswersInfo ==
  ASSUME TypeWire, NEW s \in Socks, ReceiveInfo(s), NEW t \in Socks
  PROVE  Answers(t)' = Answers(t)
<1>1. PICK r \in Infos : /\ UNCHANGED resq
                         /\ \/ sent' = [sent EXCEPT ![s] = Append(@, [req |-> r, status |-> "ok"])]
                            \/ UNCHANGED sent
  BY DEF ReceiveInfo
<1> DEFINE m == [req |-> r, status |-> "ok"]
           p == sent[t]
           q == resq[t]
<1>2. m \in Messages /\ ~IsExecute(m)
  BY RequestsAssumption, Names DEF Replies, Messages, IsExecute
<1>3. p \in Seq(Messages) /\ q \in Seq(Messages) BY WireSeqs
<1>4. resq'[t] = q /\ (sent'[t] = p \/ sent'[t] = Append(p, m)) BY <1>1 DEF TypeWire
<1>5. Answers(t) = ExecuteReplies(p \o q) BY DEF Answers
<1> HIDE DEF m, p, q
<1>6. Append(p, m) \in Seq(Messages) BY <1>2, <1>3
<1>7. ExecuteReplies(Append(p, m)) = ExecuteReplies(p)
  <2>1. ExecuteReplies(Append(p, m)) = IF IsExecute(m) THEN Append(ExecuteReplies(p), m) ELSE ExecuteReplies(p)
    BY <1>2, <1>3, RepliesOfAppend
  <2>2. QED BY <1>2, <2>1
<1>8. ExecuteReplies(Append(p, m) \o q) = ExecuteReplies(Append(p, m)) \o ExecuteReplies(q)
  <2> DEFINE a == Append(p, m)
  <2>1. a \in Seq(Messages) BY <1>6
  <2> HIDE DEF a
  <2>2. ExecuteReplies(a \o q) = ExecuteReplies(a) \o ExecuteReplies(q)
    BY <1>3, <2>1, RepliesOfConcat
  <2>3. QED BY <2>2 DEF a
<1>9. ExecuteReplies(p \o q) = ExecuteReplies(p) \o ExecuteReplies(q) BY <1>3, RepliesOfConcat
<1>10. Answers(t)' = ExecuteReplies(p \o q) \/ Answers(t)' = ExecuteReplies(Append(p, m) \o q)
  BY <1>4 DEF Answers
<1>11. QED BY <1>5, <1>7, <1>8, <1>9, <1>10

\* Nothing but the replies of executeQueue.loop changes what was answered.
LEMMA AnswersKept ==
  ASSUME SInv, Next, ~PushReply, ~AbortReply, NEW t \in Socks
  PROVE  Answers(t)' = Answers(t)
<1> USE DEF SInv, TypeOK
<1>1. CASE UNCHANGED wireVars BY <1>1 DEF wireVars, Answers
<1>2. CASE \E s \in Socks : Forward(s) \/ ReceiveInfo(s)
  BY <1>2, AnswersForwarded, AnswersInfo
<1>3. CASE NotifyShell \/ NotifyControl
  <2>1. PICK s \in Socks : Enqueue(s, END_OF_LOOP)
    BY <1>3, Names DEF NotifyShell, NotifyControl, Notify, Enqueue
  <2>2. END_OF_LOOP \in Messages /\ ~IsExecute(END_OF_LOOP)
    BY ExecutePcs, Names DEF Messages, IsExecute
  <2>3. QED BY <2>1, <2>2, AnswersEnqueued
<1>4. CASE \E r \in Queries : AnswerQuery(r)
  <2>1. PICK r \in Queries : AnswerQuery(r) BY <1>4
  <2>2. CASE resq' = resq BY <2>1, <2>2 DEF AnswerQuery, Answers
  <2>3. CASE resq' # resq
    <3> DEFINE m == [req |-> r, status |-> "ok"]
    <3>1. r \in Requests /\ origin[r] \in Socks /\ r \notin Execs
      BY <2>1, Names DEF AnswerQuery, Sourced
    <3>2. m \in Messages /\ ~IsExecute(m) BY <3>1 DEF Messages, Replies, IsExecute
    <3>3. Enqueue(origin[r], m) BY <2>1, <2>3 DEF AnswerQuery, Enqueue
    <3> HIDE DEF m
    <3>4. QED BY <3>1, <3>2, <3>3, AnswersEnqueued
  <2>4. QED BY <2>2, <2>3
<1>5. QED BY <1>1, <1>2, <1>3, <1>4, WireShape

LEMMA AnswersPushed ==
  ASSUME TypeOK, NEW r \in Execs, NEW v \in {"ok", "error", "abort"}, origin[r] \in Socks,
         PushResult(r, v), UNCHANGED sent, NEW t \in Socks
  PROVE  Answers(t)' = IF t = origin[r] THEN Append(Answers(t), [req |-> r, status |-> v])
                       ELSE Answers(t)
<1> DEFINE m == [req |-> r, status |-> v]
<1>0. PICK s \in Socks : s = origin[r] OBVIOUS
<1>1. Enqueue(s, m) /\ m \in Messages /\ IsExecute(m)
  BY <1>0, Names DEF PushResult, Enqueue, Messages, Replies, IsExecute
<1> HIDE DEF m
<1>2. QED BY <1>0, <1>1, AnswersEnqueued DEF TypeOK, m

-----------------------------------------------------------------------------
(* How many requests have been taken up                                    *)

LEMMA BoundUnique ==
  ASSUME NEW q, Len(q) \in Nat, NEW W, NEW n \in 0 .. Len(q),
         \A i \in 1 .. Len(q) : i <= n <=> q[i] \notin W
  PROVE  (CHOOSE m \in 0 .. Len(q) : \A i \in 1 .. Len(q) : i <= m <=> q[i] \notin W) = n
<1> SUFFICES ASSUME NEW m \in 0 .. Len(q), \A i \in 1 .. Len(q) : i <= m <=> q[i] \notin W
             PROVE  m = n
  OBVIOUS
<1>1. CASE m < n
  <2>1. m + 1 \in 1 .. Len(q) /\ m + 1 <= n /\ ~(m + 1 <= m) BY <1>1
  <2>2. QED BY <2>1
<1>2. CASE n < m
  <2>1. n + 1 \in 1 .. Len(q) /\ n + 1 <= m /\ ~(n + 1 <= n) BY <1>2
  <2>2. QED BY <2>1
<1>3. QED BY <1>1, <1>2

\* The requests that wait are the last ones.
LEMMA BoundExists ==
  ASSUME NEW q, Len(q) \in Nat, NEW W,
         \A i, j \in 1 .. Len(q) : (i < j /\ q[i] \in W) => q[j] \in W
  PROVE  \E n \in 0 .. Len(q) : \A i \in 1 .. Len(q) : i <= n <=> q[i] \notin W
<1> DEFINE M == {i \in 1 .. Len(q) : q[i] \in W}
<1>1. CASE M = {}
  <2>1. \A i \in 1 .. Len(q) : i <= Len(q) /\ q[i] \notin W BY <1>1
  <2>2. QED BY <2>1
<1>2. CASE M # {}
  <2>1. M \subseteq Nat OBVIOUS
  <2>2. PICK k \in M : \A i \in M : <<i, k>> \notin LessThan
    BY <1>2, <2>1, LessThanWellFounded, WFMin
  <2>3. \A i \in M : ~(i < k) BY <2>1, <2>2 DEF LessThan
  <2>4. ASSUME NEW i \in 1 .. Len(q) PROVE i <= k - 1 <=> q[i] \notin W
    BY <2>2, <2>3
  <2>5. k - 1 \in 0 .. Len(q) BY <2>2
  <2>6. QED BY <2>4, <2>5
<1>3. QED BY <1>1, <1>2

LEMMA TakenUpIs ==
  ASSUME TypeClients, InOrder, NEW s \in Socks
  PROVE  /\ TakenUp(s) \in 0 .. Len(asked[s])
         /\ \A i \in 1 .. Len(asked[s]) : i <= TakenUp(s) <=> asked[s][i] \notin Waiting
<1>1. Len(asked[s]) \in Nat /\ DOMAIN asked[s] = 1 .. Len(asked[s]) BY DEF TypeClients
<1>2. ASSUME NEW i \in 1 .. Len(asked[s]), NEW j \in 1 .. Len(asked[s]), i < j, asked[s][i] \in Waiting
      PROVE  asked[s][j] \in Waiting
  <2>1. Behind(s, asked[s][i], asked[s][j]) BY <1>1, <1>2 DEF InOrder
  <2>2. QED BY <2>1 DEF Behind, Follows, Waiting, Contents
<1>3. PICK n \in 0 .. Len(asked[s]) : \A i \in 1 .. Len(asked[s]) : i <= n <=> asked[s][i] \notin Waiting
  BY <1>1, <1>2, BoundExists
<1>4. TakenUp(s) = n BY <1>1, <1>3, BoundUnique DEF TakenUp
<1>5. QED BY <1>3, <1>4

LEMMA TakenUpNext ==
  ASSUME TypeClients', NEW s \in Socks, NEW n \in 0 .. Len(asked'[s]),
         \A i \in 1 .. Len(asked'[s]) : i <= n <=> asked'[s][i] \notin Waiting'
  PROVE  TakenUp(s)' = n
<1>1. Len(asked'[s]) \in Nat BY DEF TypeClients
<1>2. QED BY <1>1, BoundUnique DEF TakenUp

\* Only executeQueue.loop ends a wait.
LEMMA WaitsOn ==
  ASSUME SInv, Placed, Next, NEW r \in Execs, r \in Waiting,
         TakeItem \/ AbortTake => r # Head(queue)
  PROVE  r \in Waiting'
<1>0. /\ \A t \in Socks : inbox[t] \in Seq(Requests)
      /\ inbox = [t \in Socks |-> inbox[t]] /\ held = [t \in Socks |-> held[t]]
      /\ queue \in Seq(Execs) /\ Execs \subseteq Requests /\ NoReq \notin Execs
  BY Names DEF SInv, TypeOK, TypeClients, TypeLoops, TypeExec
<1>1. CASE Stays BY <1>1 DEF Stays, Waiting, Contents
<1>2. ASSUME NEW t \in Socks, NEW q \in Requests, Send(t, q) PROVE r \in Waiting'
  <2>1. inbox' = [inbox EXCEPT ![t] = Append(inbox[t], q)] /\ held' = held /\ queue' = queue
    BY <1>2 DEF Send, loopVars, execVars
  <2>2. Contents(inbox'[t]) = Contents(inbox[t]) \cup {q} BY <1>0, <2>1, Appended
  <2>3. \A u \in Socks : u # t => inbox'[u] = inbox[u] BY <1>0, <2>1
  <2>4. \A u \in Socks : Contents(inbox[u]) \subseteq Contents(inbox'[u]) BY <2>2, <2>3
  <2>5. Contents(queue') = Contents(queue) BY <2>1
  <2>6. QED BY <2>1, <2>4, <2>5 DEF Waiting
<1>3. ASSUME NEW t \in Socks, NEW q \in Requests, Receive(t, q)
      PROVE  \A u \in Socks : Contents(inbox[u]) \subseteq Contents(inbox'[u]) \cup {q}
  <2>1. /\ inbox[t] # <<>> /\ inbox'[t] = Tail(inbox[t]) /\ q = Head(inbox[t])
        /\ \A u \in Socks : u # t => inbox'[u] = inbox[u]
    BY <1>0, <1>3 DEF Receive, SInv, StillReady
  <2>2. Contents(inbox[t]) = Contents(Tail(inbox[t])) \cup {Head(inbox[t])} BY <1>0, <2>1, Dequeued
  <2>3. QED BY <2>1, <2>2
<1>4. CASE UNCHANGED <<held, queue, item, origin>> /\ \E t \in Socks : \E q \in Requests \ Execs : Receive(t, q)
  <2>1. PICK q \in Requests \ Execs : \A u \in Socks : Contents(inbox[u]) \subseteq Contents(inbox'[u]) \cup {q}
    BY <1>3, <1>4
  <2>2. r # q /\ Contents(queue') = Contents(queue) /\ held' = held BY <1>4, <2>1
  <2>3. QED BY <2>1, <2>2 DEF Waiting
<1>5. ASSUME NEW t \in Socks, ReceiveExecute(t) PROVE r \in Waiting'
  <2>1. PICK q \in Execs : /\ Receive(t, q) /\ held' = [held EXCEPT ![t] = q] /\ queue' = queue
                           /\ lpc[t] = "loop"
    BY <1>5 DEF ReceiveExecute, Receive, execVars
  <2>2. \A u \in Socks : Contents(inbox[u]) \subseteq Contents(inbox'[u]) \cup {q} BY <1>0, <1>3, <2>1
  <2>3. held[t] = NoReq BY <2>1 DEF Placed
  <2>4. held'[t] = q /\ \A u \in Socks : u # t => held'[u] = held[u] BY <1>0, <2>1
  <2>5. Contents(queue') = Contents(queue) BY <2>1
  <2>6. QED BY <1>0, <2>2, <2>3, <2>4, <2>5 DEF Waiting
<1>6. ASSUME NEW t \in Socks, Push(t) PROVE r \in Waiting'
  <2>1. /\ queue' = Append(queue, held[t]) /\ held' = [held EXCEPT ![t] = NoReq] /\ inbox' = inbox
        /\ held[t] \in Execs
    BY <1>6 DEF Push, clientVars, SInv, TypeOK, AtWork, TypeLoops
  <2>2. Contents(queue') = Contents(queue) \cup {held[t]} BY <1>0, <2>1, Appended
  <2>3. \A u \in Socks : u # t => held'[u] = held[u] BY <1>0, <2>1
  <2>4. \A u \in Socks : Contents(inbox'[u]) = Contents(inbox[u]) BY <2>1
  <2>5. QED BY <2>2, <2>3, <2>4 DEF Waiting
<1>7. CASE TakeItem \/ AbortTake
  <2>1. queue # <<>> /\ queue' = Tail(queue) /\ UNCHANGED <<inbox, held>>
    BY <1>7 DEF TakeItem, AbortTake, clientVars, loopVars
  <2>2. Contents(queue) = Contents(queue') \cup {Head(queue)} BY <1>0, <2>1, Dequeued
  <2>3. r # Head(queue) BY <1>7
  <2>4. \A u \in Socks : inbox'[u] = inbox[u] /\ held'[u] = held[u] BY <2>1
  <2>5. QED BY <2>2, <2>3, <2>4 DEF Waiting
<1>8. QED BY <1>1, <1>2, <1>4, <1>5, <1>6, <1>7, Ways

\* As long as no request is sent on s and none taken out of the queue, their number stays.
LEMMA TakenUpKept ==
  ASSUME NEW s \in Socks, ServerInv, SInv', Next, asked'[s] = asked[s], ~TakeItem, ~AbortTake
  PROVE  TakenUp(s)' = TakenUp(s)
<1>1. SInv /\ Placed /\ AskedOnce /\ InOrder /\ TypeClients /\ TypeClients'
  BY DEF ServerInv, AbortInv, OrderInv, SInv, TypeOK
<1>2. Len(asked[s]) \in Nat /\ DOMAIN asked[s] = 1 .. Len(asked[s]) /\ asked[s] \in Seq(Execs)
  BY <1>1 DEF TypeClients
<1>3. ASSUME NEW i \in 1 .. Len(asked[s]) PROVE asked[s][i] \in Waiting <=> asked[s][i] \in Waiting'
  <2>1. PICK r \in Execs : r = asked[s][i] BY <1>2
  <2>2. r \in Contents(asked[s]) BY <1>2, <2>1 DEF Contents
  <2>3. origin[r] = s /\ r \in Requests BY <1>1, <2>2, Names DEF AskedOnce
  <2>4. r \in Waiting => r \in Waiting' BY <1>1, WaitsOn
  <2>5. r \in Waiting' => r \in Waiting BY <1>1, <2>3, WaitingNext, Names
  <2>6. QED BY <2>1, <2>4, <2>5
<1>4. /\ TakenUp(s) \in 0 .. Len(asked'[s])
      /\ \A i \in 1 .. Len(asked'[s]) : i <= TakenUp(s) <=> asked'[s][i] \notin Waiting'
  BY <1>1, <1>3, TakenUpIs
<1>5. PICK n : n = TakenUp(s) OBVIOUS
<1>6. QED BY <1>1, <1>4, <1>5, TakenUpNext

-----------------------------------------------------------------------------
(* Every step of the kernel server is a step of ExecuteService             *)

ServedAnswered == item # NoReq /\ (Delivered(item) \/ Underway(item))

LEMMA ServiceInit == Init => Service!Init
<1> SUFFICES ASSUME Init PROVE Service!Init
  OBVIOUS
<1> USE DEF Init
<1>1. \A s \in Socks : TakenUp(s) = 0
  <2>1. \A s \in Socks : asked[s] = <<>> /\ Len(asked[s]) = 0 OBVIOUS
  <2>2. ASSUME NEW s \in Socks PROVE TakenUp(s) = 0
    <3> DEFINE q == asked[s]
    <3>1. Len(q) \in Nat /\ 0 \in 0 .. Len(q) /\ \A i \in 1 .. Len(q) : i <= 0 <=> q[i] \notin Waiting
      BY <2>1
    <3>2. QED BY <3>1, BoundUnique DEF TakenUp
  <2>3. QED BY <2>2
<1>2. \A s \in Socks : ExecuteReplies(sent[s] \o resq[s]) = <<>>
  <2>1. \A s \in Socks : sent[s] \o resq[s] = <<>> OBVIOUS
  <2>2. QED BY <2>1, RepliesOfNone
<1>3. [s \in Socks |-> TakenUp(s)] = [s \in Socks |-> 0] BY <1>1
<1>4. [s \in Socks |-> ExecuteReplies(sent[s] \o resq[s])] = [s \in Socks |-> <<>>] BY <1>2
<1>5. item \notin ran /\ epc \notin AbortPcs BY DEF AbortPcs
<1>6. QED BY <1>3, <1>4, <1>5 DEF Service!Init

LEMMA TakenFrame ==
  ASSUME ServerInv, SInv', Next, UNCHANGED asked, ~TakeItem, ~AbortTake
  PROVE  [s \in Socks |-> TakenUp(s)]' = [s \in Socks |-> TakenUp(s)]
  BY TakenUpKept

LEMMA AnswersFrame ==
  ASSUME SInv, Next, ~PushReply, ~AbortReply
  PROVE  [s \in Socks |-> ExecuteReplies(sent[s] \o resq[s])]'
           = [s \in Socks |-> ExecuteReplies(sent[s] \o resq[s])]
  BY AnswersKept DEF Answers

LEMMA ServedFrame ==
  ASSUME SInv, SInv', Next, ~PushReply, ~AbortReply, item' = item
  PROVE  ServedAnswered' = ServedAnswered
<1>1. CASE item = NoReq BY <1>1 DEF ServedAnswered
<1>2. CASE item # NoReq
  <2>1. item \in Execs /\ item \in Requests BY <1>2, Names DEF SInv, TypeOK, TypeExec
  <2>2. PICK r \in Execs : r = item BY <2>1
  <2>3. Seen(r) => Seen(r)' BY <2>1, <2>2, SeenKept DEF SInv
  <2>4. Seen(r)' => Seen(r) BY SeenNew
  <2>5. QED BY <2>2, <2>3, <2>4 DEF ServedAnswered, Seen
<1>3. QED BY <1>1, <1>2

\* What ExecuteService calls serving, executing and stopping depends on little.
LEMMA StutterMapped ==
  ASSUME ServerInv, SInv', Next, UNCHANGED <<asked, item, ran>>, ~PushReply, ~AbortReply,
         epc' \in AbortPcs <=> epc \in AbortPcs
  PROVE  UNCHANGED Service!vars
<1>0. ~TakeItem /\ ~AbortTake
  <2>1. ASSUME TakeItem \/ AbortTake PROVE FALSE
    <3>1. item' \in Execs BY <2>1, Taken DEF ServerInv, AbortInv
    <3>2. item = NoReq \/ item \notin Waiting
      BY DEF ServerInv, AbortInv, Placed
    <3>3. item' \in Waiting BY <2>1, Taken DEF ServerInv, AbortInv
    <3>4. QED BY <3>1, <3>2, <3>3, Names
  <2>2. QED BY <2>1
<1>1. [s \in Socks |-> TakenUp(s)]' = [s \in Socks |-> TakenUp(s)] BY <1>0, TakenFrame
<1>2. [s \in Socks |-> ExecuteReplies(sent[s] \o resq[s])]'
        = [s \in Socks |-> ExecuteReplies(sent[s] \o resq[s])]
  BY AnswersFrame DEF ServerInv
<1>3. (item # NoReq /\ (Delivered(item) \/ Underway(item)))'
        = (item # NoReq /\ (Delivered(item) \/ Underway(item)))
  BY ServedFrame DEF ServerInv, ServedAnswered
<1>4. (item \in ran)' = (item \in ran) /\ (epc \in AbortPcs)' = (epc \in AbortPcs) OBVIOUS
<1>5. QED BY <1>1, <1>2, <1>3, <1>4 DEF Service!vars

LEMMA DoneMapped ==
  ASSUME ServerInv, SInv', Next, UNCHANGED <<asked, ran>>, ~PushReply, ~AbortReply,
         item # NoReq, item' = NoReq, epc \in AbortPcs => epc' \in AbortPcs,
         epc' \in AbortPcs => epc \in AbortPcs \/ item \in StopOnError
  PROVE  Service!Done
<1>0. ~TakeItem /\ ~AbortTake BY Taken, Names DEF ServerInv, AbortInv
<1>1. [s \in Socks |-> TakenUp(s)]' = [s \in Socks |-> TakenUp(s)] BY <1>0, TakenFrame
<1>2. [s \in Socks |-> ExecuteReplies(sent[s] \o resq[s])]'
        = [s \in Socks |-> ExecuteReplies(sent[s] \o resq[s])]
  BY AnswersFrame DEF ServerInv
<1>3. (item \in ran)' = FALSE BY Names DEF ServerInv, SInv, TypeOK, TypeExec
<1>4. (item # NoReq /\ (Delivered(item) \/ Underway(item)))' = FALSE OBVIOUS
<1>5. (epc \in AbortPcs)' \in IF item \in StopOnError THEN BOOLEAN ELSE {(epc \in AbortPcs)}
  <2>1. CASE item \in StopOnError
    <3>1. (epc' \in AbortPcs) \in BOOLEAN OBVIOUS
    <3>2. QED BY <2>1, <3>1
  <2>2. CASE item \notin StopOnError
    <3>1. (epc \in AbortPcs)' = (epc \in AbortPcs) BY <2>2
    <3>2. QED BY <2>2, <3>1
  <2>3. QED BY <2>1, <2>2
<1>6. QED BY <1>1, <1>2, <1>3, <1>4, <1>5, Zenon DEF Service!Done

LEMMA AnswerMapped ==
  ASSUME ServerInv, SInv', Next, PushReply \/ AbortReply
  PROVE  \E s \in Socks, v \in {"ok", "error", "abort"} : Service!Answer(s, v)
<1>0. SInv /\ TypeOK /\ TypeClients /\ AtWork /\ Sourced /\ Placed /\ AskedOnce /\ InOrder /\ AnsweredLate
  BY DEF ServerInv, SInv, AbortInv, OrderInv, TypeOK
<1>1. item \in Execs /\ item # NoReq /\ origin[item] \in Socks /\ item \notin Waiting
  BY <1>0 DEF PushReply, AbortReply, TypeOK, TypeExec, AtWork, WorkPcs, Sourced, Placed
<1> DEFINE v == IF epc = "reply" THEN result ELSE "abort"
<1>2. /\ v \in {"ok", "error", "abort"} /\ PushResult(item, v) /\ UNCHANGED sent
      /\ IF epc \in AbortPcs THEN v = "abort" ELSE item \in ran /\ v # "abort"
  BY <1>0 DEF PushReply, AbortReply, TypeOK, TypeExec, AtWork, AnsweredLate, AbortPcs
<1>3. PICK s \in Socks, w \in {"ok", "error", "abort"}, r \in Execs :
        s = origin[item] /\ w = v /\ r = item
  BY <1>1, <1>2
<1> HIDE DEF v
<1>4. ~Seen(item)
  BY <1>0, <1>1 DEF AnsweredLate, PushReply, AbortReply
<1>5. Seen(r)' BY <1>0, <1>1, <1>2, <1>3, Pushed, Names
<1>6. \A t \in Socks : Answers(t)' = IF t = s THEN Append(Answers(t), [req |-> r, status |-> w])
                                    ELSE Answers(t)
  BY <1>0, <1>1, <1>2, <1>3, AnswersPushed
<1>7. [t \in Socks |-> ExecuteReplies(sent[t] \o resq[t])]'
        = [[t \in Socks |-> ExecuteReplies(sent[t] \o resq[t])]
             EXCEPT ![s] = Append(@, [req |-> r, status |-> w])]
  BY <1>6 DEF Answers
<1>8. \E i \in 1 .. TakenUp(s) : asked[s][i] = r
  <2>1. r \in Contents(asked[s]) BY <1>0, <1>3 DEF AskedOnce
  <2>2. asked[s] \in Seq(Execs) BY <1>0 DEF TypeClients
  <2>3. PICK i \in 1 .. Len(asked[s]) : asked[s][i] = r BY <2>1, <2>2 DEF Contents
  <2>4. i <= TakenUp(s) /\ TakenUp(s) \in 0 .. Len(asked[s])
    BY <1>0, <1>1, <1>3, <2>3, TakenUpIs
  <2>5. i \in 1 .. TakenUp(s) BY <2>2, <2>4
  <2>6. QED BY <2>3, <2>5
<1>9. /\ UNCHANGED <<asked, item, ran>> /\ ~TakeItem /\ ~AbortTake
      /\ (epc' \in AbortPcs) = (epc \in AbortPcs)
  BY DEF PushReply, AbortReply, TakeItem, AbortTake, clientVars, AbortPcs
<1>10. [t \in Socks |-> TakenUp(t)]' = [t \in Socks |-> TakenUp(t)] BY <1>9, TakenFrame
<1>11. Service!Answer(s, w)
  <2>1. [t \in Socks |-> TakenUp(t)][s] = TakenUp(s) OBVIOUS
  <2>2. (item # NoReq /\ (Delivered(item) \/ Underway(item)))' = TRUE
    BY <1>1, <1>3, <1>5, <1>9 DEF Seen
  <2>3. ~(item # NoReq /\ (Delivered(item) \/ Underway(item))) BY <1>4 DEF Seen
  <2>4. IF epc \in AbortPcs THEN w = "abort" ELSE item \in ran /\ w # "abort"
    BY <1>2, <1>3
  <2>5. (item \in ran)' = (item \in ran) BY <1>9
  <2>6. QED BY <1>1, <1>3, <1>7, <1>8, <1>9, <1>10, <2>1, <2>2, <2>3, <2>4, <2>5 DEF Service!Answer
<1>12. QED BY <1>11

LEMMA TakeMapped ==
  ASSUME ServerInv, SInv', Next, TakeItem \/ AbortTake
  PROVE  \E s \in Socks : Service!Take(s)
<1>0. SInv /\ TypeOK /\ TypeClients /\ TypeClients' /\ Placed /\ AskedOnce /\ InOrder /\ AnsweredLate
  BY DEF ServerInv, SInv, AbortInv, OrderInv, TypeOK
<1>1. /\ item' \in Execs /\ item' \in Waiting /\ item' \notin Waiting' /\ item' = Head(queue)
      /\ UNCHANGED <<asked, ran>> /\ item = NoReq /\ ~PushReply /\ ~AbortReply
      /\ (epc' \in AbortPcs) = (epc \in AbortPcs)
  <2>1. item = NoReq BY <1>0 DEF TakeItem, AbortTake, Placed, WorkPcs
  <2>2. UNCHANGED <<asked, ran>> /\ item' = Head(queue)
    BY DEF TakeItem, AbortTake, clientVars
  <2>3. ~PushReply /\ ~AbortReply /\ (epc' \in AbortPcs) = (epc \in AbortPcs)
    BY DEF TakeItem, AbortTake, PushReply, AbortReply, AbortPcs
  <2>4. QED BY <1>0, <2>1, <2>2, <2>3, Taken
<1>2. PICK r \in Execs : r = item' BY <1>1
<1>3. PICK s \in Socks : s = origin[r] BY <1>0, <1>1, <1>2, WaitingSourced, Names
<1>4. asked[s] \in Seq(Execs) /\ Len(asked[s]) \in Nat /\ DOMAIN asked[s] = 1 .. Len(asked[s])
  BY <1>0 DEF TypeClients
<1>5. PICK k \in 1 .. Len(asked[s]) : asked[s][k] = r
  <2>1. r \in Contents(asked[s]) BY <1>0, <1>3 DEF AskedOnce
  <2>2. QED BY <1>4, <2>1 DEF Contents
<1>6. PICK n \in 0 .. Len(asked[s]) :
        n = TakenUp(s) /\ \A i \in 1 .. Len(asked[s]) : i <= n <=> asked[s][i] \notin Waiting
  BY <1>0, TakenUpIs
<1>7. r = Head(queue) /\ r \in Waiting /\ r \in Contents(queue) /\ \A x \in Execs : ~Follows(queue, x, r)
  <2>1. queue \in Seq(Execs) /\ queue # <<>> /\ Distinct(queue)
    BY <1>0 DEF TakeItem, AbortTake, TypeOK, TypeExec, Placed
  <2>2. r = Head(queue) BY <1>1, <1>2
  <2>3. r \in Contents(queue) /\ r \notin Contents(Tail(queue)) BY <2>1, <2>2, Dequeued
  <2>4. QED BY <1>1, <1>2, <2>1, <2>2, <2>3, FollowsDequeued
<1>8. k = n + 1
  <2>1. k > n BY <1>5, <1>6, <1>7
  <2>2. ASSUME k > n + 1 PROVE FALSE
    <3>1. n + 1 \in 1 .. Len(asked[s]) /\ ~(n + 1 <= n) BY <1>4, <2>2
    <3>2. PICK x \in Execs : x = asked[s][n + 1] BY <1>4, <3>1
    <3>3. Behind(s, x, r) BY <1>0, <1>4, <1>5, <1>6, <2>2, <3>1, <3>2 DEF InOrder
    <3>4. r # held[s] /\ r \notin Contents(inbox[s]) BY <1>0, <1>2, <1>7, Names DEF Placed
    <3>5. ~Follows(inbox[s], x, r) BY <3>4 DEF Follows, Contents
    <3>6. QED BY <1>7, <3>3, <3>4, <3>5 DEF Behind
  <2>3. QED BY <1>4, <2>1, <2>2
<1>9. TakenUp(s)' = n + 1
  <2>1. ASSUME NEW i \in 1 .. Len(asked[s]) PROVE i <= n + 1 <=> asked[s][i] \notin Waiting'
    <3>1. PICK x \in Execs : x = asked[s][i] /\ origin[x] = s
      <4>1. asked[s][i] \in Execs /\ asked[s][i] \in Contents(asked[s]) BY <1>4 DEF Contents
      <4>2. QED BY <1>0, <4>1 DEF AskedOnce
    <3>2. CASE i <= n
      <4>1. x \notin Waiting BY <1>6, <3>1, <3>2
      <4>2. x \notin Waiting' BY <1>0, <3>1, <4>1, GoneForGood, Names
      <4>3. QED BY <1>4, <3>1, <3>2, <4>2
    <3>3. CASE i = n + 1
      <4>1. x = r BY <1>5, <1>8, <3>1, <3>3
      <4>2. QED BY <1>1, <1>2, <3>1, <3>3, <4>1
    <3>4. CASE i > n + 1
      <4>1. x \in Waiting /\ ~(i <= n + 1) BY <1>4, <1>6, <3>1, <3>4
      <4>2. x # r
        <5>1. Distinct(asked[s]) /\ i # k BY <1>0, <1>8, <3>4 DEF AskedOnce
        <5>2. QED BY <1>4, <1>5, <3>1, <5>1 DEF Distinct
      <4>3. x \in Waiting' BY <1>0, <1>7, <4>1, <4>2, WaitsOn
      <4>4. QED BY <3>1, <4>1, <4>3
    <3>5. QED BY <1>4, <3>2, <3>3, <3>4
  <2>2. n + 1 \in 0 .. Len(asked'[s]) /\ asked'[s] = asked[s] BY <1>1, <1>4, <1>5, <1>8
  <2>3. QED BY <1>0, <2>1, <2>2, TakenUpNext
<1>10. ASSUME NEW t \in Socks, t # s PROVE TakenUp(t)' = TakenUp(t)
  <2>1. PICK m \in 0 .. Len(asked[t]) :
          m = TakenUp(t) /\ \A i \in 1 .. Len(asked[t]) : i <= m <=> asked[t][i] \notin Waiting
    BY <1>0, TakenUpIs
  <2>2. asked[t] \in Seq(Execs) BY <1>0 DEF TypeClients
  <2>3. ASSUME NEW i \in 1 .. Len(asked[t]) PROVE asked[t][i] \in Waiting <=> asked[t][i] \in Waiting'
    <3>1. PICK x \in Execs : x = asked[t][i] /\ origin[x] = t
      <4>1. asked[t][i] \in Execs /\ asked[t][i] \in Contents(asked[t]) BY <2>2 DEF Contents
      <4>2. QED BY <1>0, <4>1 DEF AskedOnce
    <3>2. x # r BY <1>3, <1>10, <3>1
    <3>3. x \in Waiting => x \in Waiting' BY <1>0, <1>7, <3>2, WaitsOn
    <3>4. x \in Waiting' => x \in Waiting BY <1>0, <3>1, WaitingNext, Names
    <3>5. QED BY <3>1, <3>3, <3>4
  <2>4. m \in 0 .. Len(asked'[t]) /\ asked'[t] = asked[t] BY <1>1
  <2>5. TakenUp(t)' = m BY <1>0, <2>1, <2>3, <2>4, TakenUpNext
  <2>6. QED BY <2>1, <2>5
<1>11. [t \in Socks |-> TakenUp(t)]' = [[t \in Socks |-> TakenUp(t)] EXCEPT ![s] = @ + 1]
  BY <1>6, <1>9, <1>10
<1>12. [t \in Socks |-> ExecuteReplies(sent[t] \o resq[t])]'
         = [t \in Socks |-> ExecuteReplies(sent[t] \o resq[t])]
  BY <1>0, <1>1, AnswersFrame
<1>13. ~(item # NoReq /\ (Delivered(item) \/ Underway(item)))
       /\ ~(item # NoReq /\ (Delivered(item) \/ Underway(item)))'
  <2>1. ~Seen(r) BY <1>0, <1>7 DEF AnsweredLate
  <2>2. ~Seen(r)' BY <1>0, <1>1, <2>1, SeenNew
  <2>3. QED BY <1>1, <1>2, <2>2 DEF Seen
<1>14. item \notin ran /\ ~(item \in ran)'
  <2>1. r \notin ran BY <1>0, <1>7 DEF Placed
  <2>2. NoReq \notin ran BY <1>0, Names DEF TypeOK, TypeExec
  <2>3. QED BY <1>1, <1>2, <2>1, <2>2
<1>15. [t \in Socks |-> TakenUp(t)][s] = n BY <1>6
<1>16. n < Len(asked[s]) /\ item' = asked[s][n + 1] BY <1>2, <1>4, <1>5, <1>8
<1>17. Service!Take(s)
  BY <1>1, <1>11, <1>12, <1>13, <1>14, <1>15, <1>16 DEF Service!Take
<1>18. QED BY <1>17

LEMMA SendMapped ==
  ASSUME ServerInv, SInv', Next, NEW s \in Socks, NEW q \in Requests, Send(s, q)
  PROVE  (\E r \in Execs : Service!Ask(s, r)) \/ UNCHANGED Service!vars
<1>0. SInv /\ TypeOK /\ TypeClients /\ TypeClients' /\ Placed /\ AskedOnce /\ InOrder
  BY DEF ServerInv, SInv, AbortInv, OrderInv, TypeOK
<1>1. /\ UNCHANGED <<item, ran, epc>> /\ ~PushReply /\ ~AbortReply /\ ~TakeItem /\ ~AbortTake
      /\ origin[q] = "none" /\ inbox'[s] = Append(inbox[s], q) /\ inbox[s] \in Seq(Requests)
  <2>1. UNCHANGED <<item, ran, epc>> BY DEF Send, execVars
  <2>2. ~PushReply /\ ~AbortReply /\ ~TakeItem /\ ~AbortTake
    BY <2>1 DEF PushReply, AbortReply, TakeItem, AbortTake
  <2>3. QED BY <1>0, <2>1, <2>2 DEF Send, TypeClients
<1>2. CASE q \notin Execs
  <2>1. UNCHANGED asked BY <1>2 DEF Send
  <2>2. QED BY <1>1, <2>1, StutterMapped
<1>3. CASE q \in Execs
  <2>1. /\ asked[s] \in Seq(Execs) /\ asked' = [asked EXCEPT ![s] = Append(asked[s], q)]
        /\ asked'[s] = Append(asked[s], q) /\ \A t \in Socks : t # s => asked'[t] = asked[t]
    BY <1>0, <1>3 DEF Send, TypeClients
  <2>2. /\ Len(asked[s]) \in Nat /\ Len(asked'[s]) = Len(asked[s]) + 1
        /\ \A i \in 1 .. Len(asked[s]) : asked'[s][i] = asked[s][i]
        /\ asked'[s][Len(asked[s]) + 1] = q
    BY <1>3, <2>1
  <2>3. q \in Waiting'
    <3>1. q \in Contents(inbox'[s]) BY <1>1, Appended
    <3>2. QED BY <3>1 DEF Waiting
  <2>4. PICK n \in 0 .. Len(asked[s]) :
          n = TakenUp(s) /\ \A i \in 1 .. Len(asked[s]) : i <= n <=> asked[s][i] \notin Waiting
    BY <1>0, TakenUpIs
  <2>5. ASSUME NEW i \in 1 .. Len(asked[s]) PROVE asked[s][i] \in Waiting <=> asked[s][i] \in Waiting'
    <3>1. PICK x \in Execs : x = asked[s][i] /\ origin[x] = s
      <4>1. asked[s][i] \in Execs /\ asked[s][i] \in Contents(asked[s]) BY <2>1 DEF Contents
      <4>2. QED BY <1>0, <4>1 DEF AskedOnce
    <3>2. x \in Waiting => x \in Waiting' BY <1>0, <1>1, WaitsOn
    <3>3. x \in Waiting' => x \in Waiting BY <1>0, <3>1, WaitingNext, Names
    <3>4. QED BY <3>1, <3>2, <3>3
  <2>6. TakenUp(s)' = n
    <3>1. ASSUME NEW i \in 1 .. Len(asked'[s]) PROVE i <= n <=> asked'[s][i] \notin Waiting'
      <4>1. CASE i \in 1 .. Len(asked[s]) BY <2>2, <2>4, <2>5, <4>1
      <4>2. CASE i = Len(asked[s]) + 1 BY <2>2, <2>3, <4>2
      <4>3. QED BY <2>2, <4>1, <4>2
    <3>2. n \in 0 .. Len(asked'[s]) BY <2>2
    <3>3. QED BY <1>0, <3>1, <3>2, TakenUpNext
  <2>7. \A t \in Socks : TakenUp(t)' = TakenUp(t) BY <1>1, <2>1, <2>4, <2>6, TakenUpKept
  <2>8. [t \in Socks |-> TakenUp(t)]' = [t \in Socks |-> TakenUp(t)] BY <2>7
  <2>9. [t \in Socks |-> ExecuteReplies(sent[t] \o resq[t])]'
          = [t \in Socks |-> ExecuteReplies(sent[t] \o resq[t])]
    BY <1>0, <1>1, AnswersFrame
  <2>10. (item # NoReq /\ (Delivered(item) \/ Underway(item)))'
           = (item # NoReq /\ (Delivered(item) \/ Underway(item)))
    BY <1>0, <1>1, ServedFrame DEF ServedAnswered
  <2>11. (item \in ran)' = (item \in ran) /\ (epc \in AbortPcs)' = (epc \in AbortPcs) BY <1>1
  <2>12. \A t \in Socks : \A i \in 1 .. Len(asked[t]) : asked[t][i] # q
    <3>1. ASSUME NEW t \in Socks, NEW i \in 1 .. Len(asked[t]) PROVE asked[t][i] # q
      <4>1. asked[t][i] \in Contents(asked[t]) BY <1>0 DEF Contents, TypeClients
      <4>2. origin[asked[t][i]] = t BY <1>0, <4>1 DEF AskedOnce
      <4>3. QED BY <1>1, <4>2, Names
    <3>2. QED BY <3>1
  <2>13. Service!Ask(s, q) BY <1>1, <2>1, <2>8, <2>9, <2>10, <2>11, <2>12 DEF Service!Ask
  <2>14. QED BY <1>3, <2>13
<1>4. QED BY <1>2, <1>3

LEMMA ExecuteMapped == ServerInv /\ SInv' /\ Next /\ StartHandler => Service!Execute
<1> SUFFICES ASSUME ServerInv, SInv', Next, StartHandler PROVE Service!Execute
  OBVIOUS
<1>0. SInv /\ Placed /\ AnsweredLate /\ item \in Execs /\ item # NoReq
  BY Names DEF ServerInv, AbortInv, OrderInv, SInv, TypeOK, TypeExec, AtWork, WorkPcs, StartHandler
<1>1. /\ UNCHANGED <<asked, item>> /\ ~PushReply /\ ~AbortReply /\ ~TakeItem /\ ~AbortTake
      /\ epc \notin AbortPcs /\ epc' \notin AbortPcs /\ item' \in ran'
  BY DEF StartHandler, clientVars, PushReply, AbortReply, TakeItem, AbortTake, AbortPcs
<1>2. [t \in Socks |-> TakenUp(t)]' = [t \in Socks |-> TakenUp(t)] BY <1>1, TakenFrame
<1>3. [t \in Socks |-> ExecuteReplies(sent[t] \o resq[t])]'
        = [t \in Socks |-> ExecuteReplies(sent[t] \o resq[t])]
  BY <1>0, <1>1, AnswersFrame
<1>4. (item # NoReq /\ (Delivered(item) \/ Underway(item)))'
        = (item # NoReq /\ (Delivered(item) \/ Underway(item)))
  BY <1>0, <1>1, ServedFrame DEF ServedAnswered
<1>5. ~(item # NoReq /\ (Delivered(item) \/ Underway(item)))
  BY <1>0 DEF AnsweredLate, StartHandler, Seen
<1>6. (item \in ran)' = TRUE /\ (epc \in AbortPcs)' = (epc \in AbortPcs) BY <1>1
<1>7. QED BY <1>0, <1>1, <1>2, <1>3, <1>4, <1>5, <1>6 DEF Service!Execute

LEMMA ResumeMapped == ServerInv /\ SInv' /\ Next /\ AbortEnds => Service!Resume
<1> SUFFICES ASSUME ServerInv, SInv', Next, AbortEnds PROVE Service!Resume
  OBVIOUS
<1>0. SInv /\ Placed BY DEF ServerInv, AbortInv
<1>1. /\ UNCHANGED <<asked, item, ran>> /\ ~PushReply /\ ~AbortReply /\ ~TakeItem /\ ~AbortTake
      /\ epc \in AbortPcs /\ epc' \notin AbortPcs /\ item = NoReq
  BY <1>0 DEF AbortEnds, clientVars, PushReply, AbortReply, TakeItem, AbortTake, AbortPcs, Placed, WorkPcs
<1>2. [t \in Socks |-> TakenUp(t)]' = [t \in Socks |-> TakenUp(t)] BY <1>1, TakenFrame
<1>3. [t \in Socks |-> ExecuteReplies(sent[t] \o resq[t])]'
        = [t \in Socks |-> ExecuteReplies(sent[t] \o resq[t])]
  BY <1>0, <1>1, AnswersFrame
<1>4. (item # NoReq /\ (Delivered(item) \/ Underway(item)))'
        = (item # NoReq /\ (Delivered(item) \/ Underway(item)))
  BY <1>0, <1>1, ServedFrame DEF ServedAnswered
<1>5. (item \in ran)' = (item \in ran) /\ (epc \in AbortPcs)' = FALSE BY <1>1
<1>6. QED BY <1>1, <1>2, <1>3, <1>4, <1>5 DEF Service!Resume

LEMMA ServiceNext == ServerInv /\ SInv' /\ [Next]_vars => [Service!Next]_(Service!vars)
<1> SUFFICES ASSUME ServerInv, SInv', [Next]_vars
             PROVE  Service!Next \/ UNCHANGED Service!vars
  OBVIOUS
<1>0. AtWork /\ Placed BY DEF ServerInv, SInv, AbortInv
<1>1. CASE \E s \in Socks, q \in Requests : Next /\ Send(s, q)
  BY <1>1, SendMapped DEF Service!Next
<1>2. CASE Next /\ (TakeItem \/ AbortTake) BY <1>2, TakeMapped DEF Service!Next
<1>3. CASE Next /\ StartHandler BY <1>3, ExecuteMapped DEF Service!Next
<1>4. CASE Next /\ (PushReply \/ AbortReply) BY <1>4, AnswerMapped DEF Service!Next
<1>5. CASE Next /\ AbortEnds BY <1>5, ResumeMapped DEF Service!Next
<1>6. CASE Next /\ (PublishBusy \/ PublishIdle \/ AbortBusy \/ AbortIdle) /\ item' = NoReq
  <2>1. UNCHANGED <<asked, ran>> /\ ~PushReply /\ ~AbortReply /\ item # NoReq
    BY <1>0, <1>6 DEF PublishBusy, PublishIdle, AbortBusy, AbortIdle, clientVars, PushReply,
       AbortReply, AtWork, WorkPcs
  <2>2. /\ epc \in AbortPcs => epc' \in AbortPcs
        /\ epc' \in AbortPcs => epc \in AbortPcs \/ item \in StopOnError
    BY <1>6, <2>1 DEF PublishBusy, PublishIdle, AbortBusy, AbortIdle, After, AbortPcs
  <2>3. QED BY <1>6, <2>1, <2>2, DoneMapped DEF Service!Next
<1>7. CASE Next /\ (PublishBusy \/ PublishIdle \/ AbortBusy \/ AbortIdle) /\ item' # NoReq
  <2>1. UNCHANGED <<asked, ran, item>> /\ ~PushReply /\ ~AbortReply
        /\ (epc' \in AbortPcs <=> epc \in AbortPcs)
    BY <1>7 DEF PublishBusy, PublishIdle, AbortBusy, AbortIdle, EndOngoing, clientVars, PushReply,
       AbortReply, AbortPcs
  <2>2. QED BY <1>7, <2>1, StutterMapped
<1>8. CASE Next /\ (LoopEnds \/ ClearCurrent \/ Handler)
  <2>1. UNCHANGED <<asked, ran, item>> /\ ~PushReply /\ ~AbortReply
        /\ (epc' \in AbortPcs <=> epc \in AbortPcs)
    BY <1>8 DEF LoopEnds, ClearCurrent, Handler, HandlerReturns, clientVars, PushReply,
       AbortReply, AbortPcs
  <2>2. QED BY <1>8, <2>1, StutterMapped
<1>9. CASE Next /\ ~ExecStep /\ ~Handler /\ ~\E s \in Socks, q \in Requests : Send(s, q)
  <2>1. UNCHANGED <<item, ran, epc>> BY <1>9, WorkShape DEF WorkVars
  <2>2. UNCHANGED asked BY <1>9, ClientShape DEF clientVars
  <2>3. ~PushReply /\ ~AbortReply BY <1>9 DEF ExecStep
  <2>4. QED BY <1>9, <2>1, <2>2, <2>3, StutterMapped
<1>10. CASE UNCHANGED vars
  <2>1. /\ \A s \in Socks : TakenUp(s)' = TakenUp(s)
        /\ UNCHANGED <<asked, item, ran, epc, sent, resq>>
    BY <1>10 DEF vars, clientVars, wireVars, execVars, loopVars, TakenUp, Waiting, Contents
  <2>2. [t \in Socks |-> TakenUp(t)]' = [t \in Socks |-> TakenUp(t)] BY <2>1
  <2>3. [t \in Socks |-> ExecuteReplies(sent[t] \o resq[t])]'
          = [t \in Socks |-> ExecuteReplies(sent[t] \o resq[t])]
    BY <2>1
  <2>4. (item # NoReq /\ (Delivered(item) \/ Underway(item)))'
          = (item # NoReq /\ (Delivered(item) \/ Underway(item)))
    BY <2>1 DEF Delivered, Underway
  <2>5. QED BY <2>1, <2>2, <2>3, <2>4 DEF Service!vars
<1>11. Next \/ UNCHANGED vars OBVIOUS
<1>12. QED BY <1>1, <1>2, <1>3, <1>4, <1>5, <1>6, <1>7, <1>8, <1>9, <1>10, <1>11 DEF ExecStep

\* The kernel server implements ExecuteService: requests are served one by one, in the
\* order of their socket and at most once, and answered once, on that socket, in that
\* order, however the loops, the queue, the signals and the winding up interleave
\* (the contract of execute.go:1-6).
THEOREM KeepsService == Spec => ImplementsService
<1>1. ServerInv /\ SInv' /\ [Next]_vars => [Service!Next]_(Service!vars) BY ServiceNext
<1>2. QED
  BY <1>1, ServiceInit, Invariance, ServerInvariance, PTL DEF Spec, ImplementsService, Service!Spec
=============================================================================

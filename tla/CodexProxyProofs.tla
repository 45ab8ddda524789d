-------------------------- MODULE CodexProxyProofs --------------------------
(***************************************************************************)
(* Proofs about CodexProxy, for any set of requests and turns, and for     *)
(* answers that come in any number.                                        *)
(*                                                                         *)
(* The argument: what the server has been answered, what is on the way to  *)
(* it and what waits for the lock is one sequence, Sent, which the writer  *)
(* and the server only read, and to which a decision adds its answer at    *)
(* the end.  A decision is only taken about a request whose flag is not    *)
(* set, and such a request is undecided (UnresolvedUndecided).  An error   *)
(* reply of the TUI decides nothing; a connection that closes or ends only *)
(* takes answers out of the sequence, and nothing is read after that.      *)
(***************************************************************************)
EXTENDS CodexProxy, SequenceTheorems, TLAPS

\* Every answer, in the order in which the server reads them.
Sent == received \o toServer \o outbox

\* A user's acceptance of a changing command of turn t.
Approves(a, t) == /\ a.by # "proxy" /\ a.result = "accept"
                  /\ a.of \notin ReadOnly /\ TurnOf[a.of] = t

\* One decision for a request, the one that was taken; an error is the TUI's.
SentInOrder ==
  /\ \A m, n \in 1..Len(Sent) :
       Sent[m].of = Sent[n].of /\ IsDecision(Sent[m]) /\ IsDecision(Sent[n]) => m = n
  /\ \A n \in 1..Len(Sent) : IsDecision(Sent[n]) => Sent[n].result = decision[Sent[n].of]
  /\ \A n \in 1..Len(Sent) : ~IsDecision(Sent[n]) => Sent[n].by = "tui"

\* None of the proxy itself comes before the acceptance it rests on.
ProxyFollows(s) ==
  \A n \in 1..Len(s) :
    s[n].by = "proxy" => \E m \in 1..(n - 1) : Approves(s[m], TurnOf[s[n].of])

AcceptsFollow == ProxyFollows(received) /\ (upstream = "open" => ProxyFollows(Sent))

\* A turn counts as approved after an acceptance that is on its way, and that
\* was decided, for good.
ApprovedIsSent ==
  upstream = "open" => \A t \in approved : \E m \in 1..Len(Sent) : Approves(Sent[m], t)

ApprovedIsDecided ==
  \A t \in approved : \E r \in Requests \ ReadOnly : TurnOf[r] = t /\ decision[r] = "accept"

\* Nothing is decided about a request whose flag is not set.
UnresolvedUndecided == \A r \in Requests : pending[r] # "resolved" => decision[r] = None

\* The proxy hears of a request once: while it is new to the server or on its
\* way, the proxy does not know it.
IsRequest(msg, r) == msg.kind = "request" /\ msg.of = r

HeardOfOnce ==
  \A r \in Requests :
    /\ request[r] = "new" => pending[r] = "none"
    /\ \A m \in 1..Len(toProxy) :
         IsRequest(toProxy[m], r) =>
           /\ request[r] # "new" /\ pending[r] = "none"
           /\ \A n \in 1..Len(toProxy) : IsRequest(toProxy[n], r) => m = n

\* The TUI answers what the proxy knows.
TuiKnown ==
  /\ handling # None /\ handling.kind = "request" => pending[handling.of] # "none"
  /\ \A r \in asking : pending[r] # "none"
  /\ \A n \in 1..Len(fromTui) : pending[fromTui[n].of] # "none" /\ fromTui[n].by = "tui"

IInv == /\ TypeOK
        /\ SentInOrder
        /\ AcceptsFollow
        /\ ApprovedIsSent
        /\ ApprovedIsDecided
        /\ UnresolvedUndecided
        /\ HeardOfOnce
        /\ TuiKnown

(***************************************************************************)
(* Sequences.                                                              *)
(***************************************************************************)

\* The head of one sequence at the end of the one before it: the two together
\* are what they were.
LEMMA MoveHead ==
  ASSUME NEW S, NEW s \in Seq(S), NEW t \in Seq(S), t # <<>>
  PROVE  /\ Append(s, Head(t)) \in Seq(S) /\ Tail(t) \in Seq(S)
         /\ Append(s, Head(t)) \o Tail(t) = s \o t
<1> DEFINE a == Append(s, Head(t))
<1>1. /\ Head(t) \in S /\ Tail(t) \in Seq(S) /\ Len(Tail(t)) = Len(t) - 1
      /\ \A i \in 1..Len(Tail(t)) : Tail(t)[i] = t[i + 1]
      /\ Len(t) \in Nat \ {0} /\ Len(s) \in Nat /\ Head(t) = t[1]
  BY HeadTailProperties, LenProperties, EmptySeq
<1>2. /\ a \in Seq(S) /\ Len(a) = Len(s) + 1 /\ a[Len(s) + 1] = Head(t)
      /\ \A i \in 1..Len(s) : a[i] = s[i]
  BY <1>1, AppendProperties
<1> HIDE DEF a
<1>3. /\ a \o Tail(t) \in Seq(S) /\ Len(a \o Tail(t)) = Len(s) + Len(t)
      /\ \A i \in 1..(Len(s) + Len(t)) :
           (a \o Tail(t))[i] = IF i <= Len(s) + 1 THEN a[i] ELSE Tail(t)[i - (Len(s) + 1)]
  <2>1. /\ a \o Tail(t) \in Seq(S) /\ Len(a \o Tail(t)) = Len(a) + Len(Tail(t))
        /\ \A i \in 1..(Len(a) + Len(Tail(t))) :
             (a \o Tail(t))[i] = IF i <= Len(a) THEN a[i] ELSE Tail(t)[i - Len(a)]
    BY <1>1, <1>2, ConcatProperties
  <2>2. Len(a) + Len(Tail(t)) = Len(s) + Len(t)
    BY <1>1, <1>2
  <2>3. QED
    BY <1>2, <2>1, <2>2
<1>4. /\ s \o t \in Seq(S) /\ Len(s \o t) = Len(s) + Len(t)
      /\ \A i \in 1..(Len(s) + Len(t)) :
           (s \o t)[i] = IF i <= Len(s) THEN s[i] ELSE t[i - Len(s)]
  BY ConcatProperties
<1>5. ASSUME NEW i \in 1..(Len(s) + Len(t)) PROVE (a \o Tail(t))[i] = (s \o t)[i]
  <2>1. CASE i <= Len(s)
    BY <1>1, <1>2, <1>3, <1>4, <2>1
  <2>2. CASE i = Len(s) + 1
    BY <1>1, <1>2, <1>3, <1>4, <2>2
  <2>3. CASE i > Len(s) + 1
    <3>1. i - (Len(s) + 1) \in 1..Len(Tail(t)) /\ (i - (Len(s) + 1)) + 1 = i - Len(s)
      BY <1>1, <2>3
    <3>2. Tail(t)[i - (Len(s) + 1)] = t[i - Len(s)]
      BY <1>1, <3>1
    <3>3. QED
      BY <1>1, <1>3, <1>4, <2>3, <3>2
  <2>4. i <= Len(s) \/ i = Len(s) + 1 \/ i > Len(s) + 1
    <3>1. i \in Int /\ Len(s) \in Int
      BY <1>1
    <3>2. QED
      BY <3>1
  <2>5. QED
    BY <2>1, <2>2, <2>3, <2>4
<1>6. a \o Tail(t) = s \o t
  BY <1>3, <1>4, <1>5, SeqEqual
<1>7. QED
  BY <1>1, <1>2, <1>6 DEF a

\* The first of three sequences joined begins the whole, whose elements are those
\* of the three.
LEMMA FirstOfThree ==
  ASSUME NEW r \in Seq(Answer), NEW s \in Seq(Answer), NEW o \in Seq(Answer)
  PROVE  LET all == (r \o s) \o o
         IN  /\ all \in Seq(Answer) /\ Len(all) \in Nat /\ Len(r) \in Nat
             /\ Len(r) <= Len(all)
             /\ \A n \in 1..Len(r) : all[n] = r[n]
             /\ \A n \in 1..Len(all) : all[n] \in Answer
<1> DEFINE t == s \o o
           w == r \o t
<1>1. t \in Seq(Answer)
  BY ConcatProperties
<1>2. (r \o s) \o o = w
  BY ConcatAssociative
<1> HIDE DEF t
<1>3. /\ w \in Seq(Answer) /\ Len(w) = Len(r) + Len(t)
      /\ \A i \in 1..(Len(r) + Len(t)) : w[i] = IF i <= Len(r) THEN r[i] ELSE t[i - Len(r)]
  BY <1>1, ConcatProperties
<1>4. Len(r) \in Nat /\ Len(t) \in Nat
  BY <1>1, LenProperties
<1> HIDE DEF w
<1>5. \A n \in 1..Len(w) : w[n] \in Answer
  BY <1>3, ElementOfSeq
<1>6. Len(w) \in Nat /\ Len(r) <= Len(w) /\ \A n \in 1..Len(r) : w[n] = r[n]
  BY <1>3, <1>4
<1>7. QED
  BY <1>2, <1>3, <1>4, <1>5, <1>6

\* What the three parts of Sent give of the whole.
LEMMA SentParts ==
  ASSUME TypeOK
  PROVE  /\ Sent \in Seq(Answer) /\ Len(Sent) \in Nat /\ Len(received) \in Nat
         /\ Len(received) <= Len(Sent)
         /\ \A n \in 1..Len(received) : Sent[n] = received[n]
         /\ \A n \in 1..Len(Sent) : Sent[n] \in Answer
<1>1. received \in Seq(Answer) /\ toServer \in Seq(Answer) /\ outbox \in Seq(Answer)
  BY DEF TypeOK
<1>2. QED
  BY <1>1, FirstOfThree DEF Sent

(***************************************************************************)
(* The pieces of the actions.                                              *)
(***************************************************************************)

\* An answer that queues for the lock is the last one of Sent.
LEMMA SentGrows ==
  ASSUME TypeOK, NEW a \in Answer, outbox' = Append(outbox, a),
         UNCHANGED <<received, toServer>>
  PROVE  /\ outbox' \in Seq(Answer)
         /\ Len(Sent') = Len(Sent) + 1 /\ Sent'[Len(Sent) + 1] = a
         /\ \A n \in 1..Len(Sent) : Sent'[n] = Sent[n]
         /\ \A n \in 1..Len(Sent') : n \in 1..Len(Sent) \/ n = Len(Sent) + 1
<1>1. Sent \in Seq(Answer) /\ Len(Sent) \in Nat
  BY SentParts
<1>2. received \o toServer \in Seq(Answer) /\ outbox \in Seq(Answer)
  BY ConcatProperties DEF TypeOK
<1>3. <<a>> \in Seq(Answer)
  OBVIOUS
<1>4. Append(outbox, a) = outbox \o <<a>> /\ Append(Sent, a) = Sent \o <<a>>
  BY <1>1, <1>2, AppendIsConcat
<1>5. (received \o toServer) \o (outbox \o <<a>>)
        = ((received \o toServer) \o outbox) \o <<a>>
  BY <1>2, <1>3, ConcatAssociative
<1>6. Sent' = Append(Sent, a)
  BY <1>4, <1>5 DEF Sent
<1>7. /\ Len(Sent') = Len(Sent) + 1 /\ Sent'[Len(Sent) + 1] = a
      /\ \A n \in 1..Len(Sent) : Sent'[n] = Sent[n]
      /\ outbox' \in Seq(Answer)
  BY <1>1, <1>2, <1>6, AppendProperties
<1>8. QED
  BY <1>1, <1>7

\* An answer that is not the proxy's own does not come before anything.
LEMMA GrowthFollows ==
  ASSUME TypeOK, NEW a \in Answer, outbox' = Append(outbox, a),
         UNCHANGED <<received, toServer, upstream>>, AcceptsFollow,
         a.by = "proxy" /\ upstream = "open" =>
           \E m \in 1..Len(Sent) : Approves(Sent[m], TurnOf[a.of])
  PROVE  AcceptsFollow'
<1>1. /\ Len(Sent') = Len(Sent) + 1 /\ Sent'[Len(Sent) + 1] = a
      /\ \A n \in 1..Len(Sent) : Sent'[n] = Sent[n]
      /\ \A n \in 1..Len(Sent') : n \in 1..Len(Sent) \/ n = Len(Sent) + 1
  BY SentGrows
<1>2. Len(Sent) \in Nat
  BY SentParts
<1>3. ASSUME upstream' = "open", NEW n \in 1..Len(Sent'), Sent'[n].by = "proxy"
      PROVE  \E m \in 1..(n - 1) : Approves(Sent'[m], TurnOf[Sent'[n].of])
  <2>0. upstream = "open"
    BY <1>3
  <2>1. CASE n \in 1..Len(Sent)
    <3>1. PICK m \in 1..(n - 1) : Approves(Sent[m], TurnOf[Sent[n].of])
      BY <1>1, <1>3, <2>0, <2>1 DEF AcceptsFollow, ProxyFollows
    <3>2. m \in 1..Len(Sent)
      BY <1>2, <2>1
    <3>3. QED
      BY <1>1, <2>1, <3>1, <3>2
  <2>2. CASE n = Len(Sent) + 1
    <3>1. PICK m \in 1..Len(Sent) : Approves(Sent[m], TurnOf[a.of])
      BY <1>1, <1>3, <2>0, <2>2
    <3>2. m \in 1..(n - 1)
      BY <1>2, <2>2
    <3>3. QED
      BY <1>1, <2>2, <3>1, <3>2
  <2>3. QED
    BY <1>1, <2>1, <2>2
<1>4. QED
  BY <1>3 DEF AcceptsFollow, ProxyFollows

\* Taking a decision about a request whose flag is not set.
LEMMA DecideKeeps ==
  ASSUME IInv, NEW r \in Requests, NEW who \in {"tui", "device", "proxy"},
         NEW result \in {"accept", "decline"},
         pending[r] # "resolved", Decide(r, who, result),
         UNCHANGED <<received, toServer, upstream>>,
         who = "proxy" => AutoAccepts(r)
  PROVE  /\ pending' \in [Requests -> {"none", "open", "resolved"}]
         /\ approved' \subseteq Turns /\ outbox' \in Seq(Answer)
         /\ decision' \in [Requests -> {"accept", "decline", None}]
         /\ (SentInOrder /\ AcceptsFollow /\ ApprovedIsSent /\ ApprovedIsDecided /\ UnresolvedUndecided)'
<1> DEFINE a == [of |-> r, by |-> who, result |-> result]
<1>1. TypeOK
  BY DEF IInv
<1>2. a \in Answer /\ TurnOf[r] \in Turns
  BY CodexProxyAssumption DEF Answer, CodexProxyAssumption
<1>3. /\ pending' = [pending EXCEPT ![r] = "resolved"]
      /\ decision' = [decision EXCEPT ![r] = result]
      /\ approved' = IF result = "accept" /\ r \notin ReadOnly
                     THEN approved \cup {TurnOf[r]} ELSE approved
      /\ outbox' = Append(outbox, a)
  BY DEF Decide
<1>4. /\ pending' \in [Requests -> {"none", "open", "resolved"}]
      /\ approved' \subseteq Turns /\ outbox' \in Seq(Answer)
      /\ decision' \in [Requests -> {"accept", "decline", None}]
  BY <1>1, <1>2, <1>3, AppendProperties DEF TypeOK
<1>5. decision[r] = None
  BY DEF IInv, UnresolvedUndecided
<1>6. /\ Sent \in Seq(Answer) /\ Len(Sent) \in Nat
      /\ \A n \in 1..Len(Sent) : Sent[n] \in Answer
  BY <1>1, SentParts
<1>8. /\ Len(Sent') = Len(Sent) + 1 /\ Sent'[Len(Sent) + 1] = a
      /\ \A n \in 1..Len(Sent) : Sent'[n] = Sent[n]
      /\ \A n \in 1..Len(Sent') : n \in 1..Len(Sent) \/ n = Len(Sent) + 1
  BY <1>1, <1>2, <1>3, SentGrows
<1>9. a.of = r /\ a.by = who /\ a.result = result
  OBVIOUS
<1>10. \A n \in 1..Len(Sent) : IsDecision(Sent[n]) => Sent[n].of # r
  <2>1. SUFFICES ASSUME NEW n \in 1..Len(Sent), IsDecision(Sent[n]), Sent[n].of = r
                 PROVE  FALSE
    OBVIOUS
  <2>2. Sent[n].result = None
    BY <1>5, <2>1 DEF IInv, SentInOrder
  <2>3. Sent[n].result \in {"accept", "decline"}
    BY <1>6, <2>1 DEF Answer, IsDecision
  <2>4. QED
    BY <2>2, <2>3, CodexProxyAssumption DEF CodexProxyAssumption
<1>12. \A n \in 1..Len(Sent) :
         IsDecision(Sent[n]) => decision'[Sent[n].of] = decision[Sent[n].of]
  BY <1>1, <1>3, <1>6, <1>10 DEF Answer, TypeOK
<1>13. who = "proxy" /\ upstream = "open" =>
         \E m \in 1..Len(Sent) : Approves(Sent[m], TurnOf[r])
  BY DEF AutoAccepts, IInv, ApprovedIsSent
<1>14. SentInOrder'
  <2> HIDE DEF a
  <2>0. IsDecision(a)
    BY <1>9 DEF IsDecision
  <2>1. \A m, n \in 1..Len(Sent') :
          Sent'[m].of = Sent'[n].of /\ IsDecision(Sent'[m]) /\ IsDecision(Sent'[n]) => m = n
    <3>1. SUFFICES ASSUME NEW m \in 1..Len(Sent'), NEW n \in 1..Len(Sent'),
                          Sent'[m].of = Sent'[n].of,
                          IsDecision(Sent'[m]), IsDecision(Sent'[n])
                   PROVE  m = n
      OBVIOUS
    <3>2. CASE m \in 1..Len(Sent) /\ n \in 1..Len(Sent)
      BY <1>8, <3>1, <3>2 DEF IInv, SentInOrder
    <3>3. CASE m = Len(Sent) + 1 /\ n = Len(Sent) + 1
      BY <3>3
    <3>4. CASE m \in 1..Len(Sent) /\ n = Len(Sent) + 1
      BY <1>8, <1>9, <1>10, <3>1, <3>4
    <3>5. CASE m = Len(Sent) + 1 /\ n \in 1..Len(Sent)
      BY <1>8, <1>9, <1>10, <3>1, <3>5
    <3>6. QED
      BY <1>8, <3>2, <3>3, <3>4, <3>5
  <2>2. decision'[r] = result
    BY <1>1, <1>3 DEF TypeOK
  <2>3. \A n \in 1..Len(Sent') :
          IsDecision(Sent'[n]) => Sent'[n].result = decision'[Sent'[n].of]
    BY <1>8, <1>9, <1>12, <2>2 DEF IInv, SentInOrder
  <2>4. \A n \in 1..Len(Sent') : ~IsDecision(Sent'[n]) => Sent'[n].by = "tui"
    BY <1>8, <2>0 DEF IInv, SentInOrder
  <2>5. (\A n \in 1..Len(Sent) : ~IsDecision(Sent[n]) => Sent[n].by = "tui")'
    BY <2>4 DEF IsDecision
  <2>6. QED
    BY <2>1, <2>3, <2>4 DEF SentInOrder, IsDecision
<1>15. AcceptsFollow'
  BY <1>1, <1>2, <1>3, <1>9, <1>13, GrowthFollows DEF IInv
<1>16. ASSUME NEW t \in approved'
       PROVE  /\ upstream = "open" => \E m \in 1..Len(Sent') : Approves(Sent'[m], t)
              /\ \E q \in Requests \ ReadOnly : TurnOf[q] = t /\ decision'[q] = "accept"
  <2> HIDE DEF a
  <2>1. CASE t \in approved
    <3>1. upstream = "open" => \E m \in 1..Len(Sent) : Approves(Sent[m], t)
      BY <2>1 DEF IInv, ApprovedIsSent
    <3>2. upstream = "open" => \E m \in 1..Len(Sent') : Approves(Sent'[m], t)
      BY <1>6, <1>8, <3>1
    <3>3. PICK q \in Requests \ ReadOnly : TurnOf[q] = t /\ decision[q] = "accept"
      BY <2>1 DEF IInv, ApprovedIsDecided
    <3>4. decision'[q] = "accept"
      BY <1>1, <1>3, <1>5, <3>3, CodexProxyAssumption DEF TypeOK, CodexProxyAssumption
    <3>5. QED
      BY <3>2, <3>3, <3>4
  <2>2. CASE t \notin approved
    <3>1. t = TurnOf[r] /\ result = "accept" /\ r \notin ReadOnly /\ who # "proxy"
      BY <1>3, <1>16, <2>2 DEF AutoAccepts
    <3>2. Approves(Sent'[Len(Sent) + 1], t) /\ Len(Sent) + 1 \in 1..Len(Sent')
      BY <1>6, <1>8, <1>9, <3>1 DEF Approves
    <3>3. decision'[r] = "accept"
      BY <1>1, <1>3, <3>1 DEF TypeOK
    <3>4. QED
      BY <3>1, <3>2, <3>3
  <2>3. QED
    BY <2>1, <2>2
<1>17. UnresolvedUndecided'
  BY <1>1, <1>3 DEF IInv, UnresolvedUndecided, TypeOK
<1>18. ApprovedIsSent' /\ ApprovedIsDecided'
  BY <1>16 DEF ApprovedIsSent, ApprovedIsDecided
<1>19. QED
  BY <1>4, <1>14, <1>15, <1>17, <1>18

\* What the proxy knows of a request is never forgotten.
LEMMA KnownKeeps ==
  ASSUME TuiKnown, UNCHANGED <<handling, asking, fromTui>>,
         \A r \in Requests : pending[r] # "none" => pending'[r] # "none",
         TypeOK
  PROVE  TuiKnown'
<1>1. handling # None => (handling.kind = "request" => handling.of \in Requests)
  BY DEF TypeOK, Message
<1>2. asking \subseteq Requests /\ fromTui \in Seq(Answer)
  BY DEF TypeOK
<1>3. \A n \in 1..Len(fromTui) : fromTui[n] \in Answer
  BY <1>2, ElementOfSeq
<1>4. \A n \in 1..Len(fromTui) : fromTui[n].of \in Requests
  BY <1>3 DEF Answer
<1>5. QED
  BY <1>1, <1>2, <1>4 DEF TuiKnown

\* What is said of Sent holds as long as Sent and what was decided stay, also
\* when the server reads on.
LEMMA SentKeeps ==
  ASSUME IInv, Sent' = Sent, UNCHANGED <<approved, decision, upstream>>,
         received' = received \/ (upstream = "open" /\ TypeOK')
  PROVE  (SentInOrder /\ AcceptsFollow /\ ApprovedIsSent /\ ApprovedIsDecided)'
<1>1. (SentInOrder /\ ApprovedIsSent /\ ApprovedIsDecided)'
  BY DEF IInv, SentInOrder, ApprovedIsSent, ApprovedIsDecided
<1>2. upstream' = "open" => ProxyFollows(Sent')
  BY DEF IInv, AcceptsFollow
<1>3. CASE received' = received
  BY <1>1, <1>2, <1>3 DEF IInv, AcceptsFollow, ProxyFollows
<1>4. CASE upstream = "open" /\ TypeOK'
  <2>1. /\ Len(Sent') \in Nat /\ Len(received') \in Nat
        /\ Len(received') <= Len(Sent')
        /\ \A n \in 1..Len(received') : Sent'[n] = received'[n]
    <3>1. received' \in Seq(Answer) /\ toServer' \in Seq(Answer) /\ outbox' \in Seq(Answer)
      BY <1>4 DEF TypeOK
    <3>2. QED
      BY <3>1, FirstOfThree DEF Sent
  <2>2. ProxyFollows(Sent')
    BY <1>2, <1>4
  <2>3. ASSUME NEW n \in 1..Len(received'), received'[n].by = "proxy"
        PROVE  \E m \in 1..(n - 1) : Approves(received'[m], TurnOf[received'[n].of])
    <3>1. n \in 1..Len(Sent') /\ Sent'[n] = received'[n]
      BY <1>4, <2>1
    <3>2. PICK m \in 1..(n - 1) : Approves(Sent'[m], TurnOf[Sent'[n].of])
      BY <2>2, <2>3, <3>1 DEF ProxyFollows
    <3>3. m \in 1..Len(received')
      BY <1>4, <2>1
    <3>4. QED
      BY <1>4, <2>1, <3>1, <3>2, <3>3
  <2>4. ProxyFollows(received')
    BY <2>3 DEF ProxyFollows
  <2>5. QED
    BY <1>1, <1>2, <2>4 DEF AcceptsFollow, ProxyFollows
<1>5. QED
  BY <1>3, <1>4

\* Answers that are lost from the middle of Sent leave the rest in order.
LEMMA CutKeeps ==
  ASSUME IInv, NEW s \in Seq(Answer), NEW c \in Seq(Answer), NEW t \in Seq(Answer),
         Sent = (s \o c) \o t, Sent' = s \o t, UNCHANGED decision
  PROVE  SentInOrder'
<1>1. /\ s \o c \in Seq(Answer) /\ Len(s \o c) = Len(s) + Len(c)
      /\ \A i \in 1..(Len(s) + Len(c)) : (s \o c)[i] = IF i <= Len(s) THEN s[i] ELSE c[i - Len(s)]
  BY ConcatProperties
<1>2. /\ Len(Sent) = Len(s \o c) + Len(t)
      /\ \A i \in 1..(Len(s \o c) + Len(t)) :
           Sent[i] = IF i <= Len(s \o c) THEN (s \o c)[i] ELSE t[i - Len(s \o c)]
  BY <1>1, ConcatProperties
<1>3. /\ Len(Sent') = Len(s) + Len(t)
      /\ \A i \in 1..(Len(s) + Len(t)) : Sent'[i] = IF i <= Len(s) THEN s[i] ELSE t[i - Len(s)]
  BY ConcatProperties
<1>4. Len(s) \in Nat /\ Len(c) \in Nat /\ Len(t) \in Nat
  BY LenProperties
<1> DEFINE k(n) == IF n <= Len(s) THEN n ELSE n + Len(c)
<1>5. ASSUME NEW n \in 1..Len(Sent') PROVE k(n) \in 1..Len(Sent) /\ Sent'[n] = Sent[k(n)]
  <2>1. CASE n <= Len(s)
    <3>1. n \in 1..(Len(s) + Len(c)) /\ n \in 1..Len(Sent) /\ n \in 1..(Len(s) + Len(t))
      BY <1>1, <1>2, <1>3, <1>4, <2>1
    <3>2. Sent[n] = s[n] /\ Sent'[n] = s[n]
      BY <1>1, <1>2, <1>3, <1>4, <2>1, <3>1
    <3>3. QED
      BY <2>1, <3>1, <3>2
  <2>2. CASE n > Len(s)
    <3>1. /\ n + Len(c) \in 1..Len(Sent) /\ n + Len(c) > Len(s \o c)
          /\ (n + Len(c)) - Len(s \o c) = n - Len(s) /\ ~(n <= Len(s))
          /\ n \in 1..(Len(s) + Len(t))
      BY <1>1, <1>2, <1>3, <1>4, <2>2
    <3>2. Sent'[n] = t[n - Len(s)]
      BY <1>3, <3>1
    <3>3. Sent[n + Len(c)] = t[n - Len(s)]
      BY <1>1, <1>2, <1>4, <3>1
    <3>4. QED
      BY <3>1, <3>2, <3>3
  <2>3. QED
    BY <1>3, <1>4, <2>1, <2>2
<1>6. \A m, n \in 1..Len(Sent') : k(m) = k(n) => m = n
  BY <1>3, <1>4
<1> HIDE DEF k
<1>7. \A m, n \in 1..Len(Sent') :
        Sent'[m].of = Sent'[n].of /\ IsDecision(Sent'[m]) /\ IsDecision(Sent'[n]) => m = n
  <2>1. SUFFICES ASSUME NEW m \in 1..Len(Sent'), NEW n \in 1..Len(Sent'),
                        Sent'[m].of = Sent'[n].of,
                        IsDecision(Sent'[m]), IsDecision(Sent'[n])
                 PROVE  m = n
    OBVIOUS
  <2>2. /\ k(m) \in 1..Len(Sent) /\ Sent'[m] = Sent[k(m)]
        /\ k(n) \in 1..Len(Sent) /\ Sent'[n] = Sent[k(n)]
    BY <1>5
  <2>3. /\ Sent[k(m)].of = Sent[k(n)].of
        /\ IsDecision(Sent[k(m)]) /\ IsDecision(Sent[k(n)])
    BY <2>1, <2>2 DEF IsDecision
  <2>4. k(m) = k(n)
    BY <2>2, <2>3 DEF IInv, SentInOrder
  <2>5. QED
    BY <1>6, <2>4
<1>8. \A n \in 1..Len(Sent') :
        /\ IsDecision(Sent'[n]) => Sent'[n].result = decision'[Sent'[n].of]
        /\ ~IsDecision(Sent'[n]) => Sent'[n].by = "tui"
  <2>1. ASSUME NEW n \in 1..Len(Sent')
        PROVE  /\ IsDecision(Sent'[n]) => Sent'[n].result = decision'[Sent'[n].of]
               /\ ~IsDecision(Sent'[n]) => Sent'[n].by = "tui"
    <3>1. k(n) \in 1..Len(Sent) /\ Sent'[n] = Sent[k(n)]
      BY <1>5
    <3>2. /\ IsDecision(Sent[k(n)]) => Sent[k(n)].result = decision[Sent[k(n)].of]
          /\ ~IsDecision(Sent[k(n)]) => Sent[k(n)].by = "tui"
      BY <3>1 DEF IInv, SentInOrder
    <3>3. QED
      BY <3>1, <3>2 DEF IsDecision
  <2>2. QED
    BY <2>1
<1>9. QED
  BY <1>7, <1>8 DEF SentInOrder, IsDecision

\* A message of the server: a request is one that was new.
LEMMA AnnounceKeeps ==
  ASSUME TypeOK, HeardOfOnce, NEW msg \in Message, toProxy' = Append(toProxy, msg),
         UNCHANGED pending,
         \A r \in Requests : /\ request'[r] = "new" => request[r] = "new"
                             /\ IsRequest(msg, r) => request[r] = "new" /\ request'[r] # "new"
  PROVE  toProxy' \in Seq(Message) /\ HeardOfOnce'
<1>1. toProxy \in Seq(Message) /\ Len(toProxy) \in Nat
  BY LenProperties DEF TypeOK
<1>2. /\ toProxy' \in Seq(Message) /\ Len(toProxy') = Len(toProxy) + 1
      /\ \A i \in 1..Len(toProxy) : toProxy'[i] = toProxy[i]
      /\ toProxy'[Len(toProxy) + 1] = msg
  BY <1>1, AppendProperties
<1>3. \A i \in 1..Len(toProxy') : i \in 1..Len(toProxy) \/ i = Len(toProxy) + 1
  BY <1>1, <1>2
<1>4. ASSUME NEW r \in Requests, NEW m \in 1..Len(toProxy'), IsRequest(toProxy'[m], r)
      PROVE  /\ request'[r] # "new" /\ pending'[r] = "none"
             /\ \A n \in 1..Len(toProxy') : IsRequest(toProxy'[n], r) => m = n
  <2>1. CASE m \in 1..Len(toProxy)
    <3>1. /\ request[r] # "new" /\ pending[r] = "none"
          /\ \A n \in 1..Len(toProxy) : IsRequest(toProxy[n], r) => m = n
      BY <1>2, <1>4, <2>1 DEF HeardOfOnce
    <3>2. ~IsRequest(msg, r)
      BY <3>1
    <3>3. QED
      BY <1>2, <1>3, <3>1, <3>2
  <2>2. CASE m = Len(toProxy) + 1
    <3>1. request[r] = "new" /\ request'[r] # "new"
      BY <1>2, <1>4, <2>2
    <3>2. pending[r] = "none" /\ \A n \in 1..Len(toProxy) : ~IsRequest(toProxy[n], r)
      BY <3>1 DEF HeardOfOnce
    <3>3. QED
      BY <1>2, <1>3, <2>2, <3>1, <3>2
  <2>3. QED
    BY <1>3, <2>1, <2>2
<1>5. \A r \in Requests : request'[r] = "new" => pending'[r] = "none"
  BY DEF HeardOfOnce
<1>6. QED
  BY <1>2, <1>4, <1>5 DEF HeardOfOnce

\* The proxy takes a message and learns of a request only from its own.
LEMMA TakesKeeps ==
  ASSUME TypeOK, HeardOfOnce, toProxy # <<>>, toProxy' = Tail(toProxy), UNCHANGED request,
         \A r \in Requests :
           pending[r] = "none" /\ ~IsRequest(Head(toProxy), r) => pending'[r] = "none"
  PROVE  toProxy' \in Seq(Message) /\ Head(toProxy) \in Message /\ HeardOfOnce'
<1>1. toProxy \in Seq(Message) /\ Len(toProxy) \in Nat \ {0} /\ Head(toProxy) = toProxy[1]
  BY EmptySeq DEF TypeOK
<1>2. /\ toProxy' \in Seq(Message) /\ Head(toProxy) \in Message
      /\ Len(toProxy') = Len(toProxy) - 1
      /\ \A i \in 1..Len(toProxy') : toProxy'[i] = toProxy[i + 1]
  BY <1>1, HeadTailProperties
<1>3. ASSUME NEW r \in Requests, NEW m \in 1..Len(toProxy'), IsRequest(toProxy'[m], r)
      PROVE  /\ request'[r] # "new" /\ pending'[r] = "none"
             /\ \A n \in 1..Len(toProxy') : IsRequest(toProxy'[n], r) => m = n
  <2>1. m + 1 \in 1..Len(toProxy) /\ IsRequest(toProxy[m + 1], r) /\ 1 \in 1..Len(toProxy)
    BY <1>1, <1>2, <1>3
  <2>2. /\ request[r] # "new" /\ pending[r] = "none"
        /\ \A n \in 1..Len(toProxy) : IsRequest(toProxy[n], r) => m + 1 = n
    BY <2>1 DEF HeardOfOnce
  <2>3. ~IsRequest(Head(toProxy), r)
    BY <1>1, <2>1, <2>2
  <2>4. ASSUME NEW n \in 1..Len(toProxy'), IsRequest(toProxy'[n], r) PROVE m = n
    <3>1. n + 1 \in 1..Len(toProxy) /\ IsRequest(toProxy[n + 1], r)
      BY <1>1, <1>2, <2>4
    <3>2. QED
      BY <2>2, <3>1
  <2>5. QED
    BY <2>2, <2>3, <2>4
<1>4. ASSUME NEW r \in Requests, request'[r] = "new" PROVE pending'[r] = "none"
  <2>1. pending[r] = "none" /\ ~IsRequest(toProxy[1], r)
    BY <1>1, <1>4 DEF HeardOfOnce
  <2>2. QED
    BY <1>1, <2>1
<1>5. QED
  BY <1>2, <1>3, <1>4 DEF HeardOfOnce

\* The end of the connection.
LEMMA GiveUpKeeps ==
  ASSUME IInv, GiveUp, UNCHANGED <<serverVars, pending, approved, decision>>
  PROVE  IInv'
<1>1. TypeOK /\ received \in Seq(Answer)
  BY DEF IInv, TypeOK
<1>2. /\ toProxy' = <<>> /\ toServer' = <<>> /\ outbox' = <<>> /\ handling' = None
      /\ fromTui' = <<>> /\ asking' = {} /\ tui' = FALSE /\ upstream' = "none"
  BY DEF GiveUp
<1>3. TypeOK'
  <2>1. <<>> \in Seq(Answer) /\ <<>> \in Seq(Message)
    BY EmptySeq
  <2>2. UNCHANGED <<request, turn, received, pending, approved, decision>>
    BY DEF serverVars
  <2>3. QED
    BY <1>1, <1>2, <2>1, <2>2 DEF TypeOK
<1>4. SentInOrder'
  <2>1. toServer \o outbox \in Seq(Answer) /\ <<>> \in Seq(Answer)
    BY <1>1, ConcatProperties, EmptySeq DEF TypeOK
  <2> toServer \in Seq(Answer) /\ outbox \in Seq(Answer)
    BY <1>1 DEF TypeOK
  <2>2. (received \o toServer) \o outbox = received \o (toServer \o outbox)
    BY <1>1, ConcatAssociative
  <2>3. (received \o (toServer \o outbox)) \o <<>> = received \o (toServer \o outbox)
    BY <1>1, <2>1, ConcatProperties, ConcatEmptySeq
  <2>4. Sent = (received \o (toServer \o outbox)) \o <<>>
    BY <2>2, <2>3 DEF Sent
  <2>5. received \o <<>> = received
    BY <1>1, ConcatEmptySeq
  <2>6. Sent' = received \o <<>>
    BY <1>2, <2>5 DEF Sent, serverVars
  <2>7. QED
    BY <1>1, <2>1, <2>4, <2>6, CutKeeps
<1>5. AcceptsFollow'
  BY <1>2 DEF IInv, AcceptsFollow, ProxyFollows, serverVars
<1>7. HeardOfOnce'
  <2>1. 1..Len(toProxy') = {}
    BY <1>2
  <2>2. QED
    BY <2>1 DEF IInv, HeardOfOnce, serverVars
<1>8. TuiKnown'
  <2>1. 1..Len(fromTui') = {}
    BY <1>2
  <2>2. QED
    BY <1>2, <2>1 DEF TuiKnown
<1>9. (ApprovedIsSent /\ ApprovedIsDecided /\ UnresolvedUndecided)'
  BY <1>2 DEF IInv, ApprovedIsSent, ApprovedIsDecided, UnresolvedUndecided
<1>10. QED
  BY <1>3, <1>4, <1>5, <1>7, <1>8, <1>9 DEF IInv

(***************************************************************************)
(* The inductive invariant.                                                *)
(***************************************************************************)

LEMMA InitIInv == Init => IInv
<1> SUFFICES ASSUME Init PROVE IInv
  OBVIOUS
<1>1. <<>> \in Seq(Answer) /\ <<>> \in Seq(Message)
  BY EmptySeq
<1>2. TypeOK
  BY <1>1 DEF Init, TypeOK
<1>3. Sent = <<>>
  BY <1>1, ConcatEmptySeq DEF Init, Sent
<1>4. /\ 1..Len(Sent) = {} /\ 1..Len(toProxy) = {} /\ 1..Len(fromTui) = {}
      /\ approved = {} /\ asking = {} /\ handling = None
      /\ \A r \in Requests : decision[r] = None /\ pending[r] = "none"
  BY <1>3 DEF Init
<1>5. SentInOrder /\ AcceptsFollow
  BY <1>3, <1>4 DEF SentInOrder, AcceptsFollow, ProxyFollows, Init
<1>6. ApprovedIsSent /\ ApprovedIsDecided /\ UnresolvedUndecided /\ HeardOfOnce /\ TuiKnown
  BY <1>4 DEF ApprovedIsSent, ApprovedIsDecided, UnresolvedUndecided, HeardOfOnce, TuiKnown
<1>7. QED
  BY <1>2, <1>5, <1>6 DEF IInv

\* The steps of the server.
LEMMA ServerIInv == IInv /\ Server => IInv'
<1> SUFFICES ASSUME IInv, Server PROVE IInv'
  OBVIOUS
<1>0. TypeOK /\ HeardOfOnce /\ TuiKnown
  BY DEF IInv
<1> USE DEF proxyVars, tuiVars
<1>1. ASSUME NEW msg \in Message, toProxy' = Append(toProxy, msg),
             request' \in [Requests -> {"new", "open", "closed"}],
             turn' \in [Turns -> {"live", "over"}],
             received' \in Seq(Answer), toServer' \in Seq(Answer), Sent' = Sent,
             upstream = "open",
             UNCHANGED <<proxyVars, tuiVars, upstream>>,
             \A r \in Requests :
               /\ request'[r] = "new" => request[r] = "new"
               /\ IsRequest(msg, r) => request[r] = "new" /\ request'[r] # "new"
      PROVE  IInv'
  <2>1. toProxy' \in Seq(Message) /\ HeardOfOnce'
    BY <1>0, <1>1, AnnounceKeeps
  <2>2. TypeOK'
    BY <1>0, <1>1, <2>1 DEF TypeOK
  <2>3. (SentInOrder /\ AcceptsFollow /\ ApprovedIsSent /\ ApprovedIsDecided)'
    BY <1>1, <2>2, SentKeeps
  <2>4. UnresolvedUndecided' /\ TuiKnown'
    BY <1>0, <1>1 DEF IInv, UnresolvedUndecided, TuiKnown
  <2>5. QED
    BY <2>1, <2>2, <2>3, <2>4 DEF IInv
<1>2. ASSUME NEW r \in Requests, ServerAsks(r) PROVE IInv'
  <2>1. [kind |-> "request", of |-> r] \in Message
    BY DEF Message
  <2>2. Sent' = Sent /\ request' = [request EXCEPT ![r] = "open"] /\ request[r] = "new"
    BY <1>2 DEF ServerAsks, Sent
  <2>3. QED
    BY <1>0, <1>1, <1>2, <2>1, <2>2 DEF ServerAsks, Announce, IsRequest, TypeOK
<1>3. ASSUME NEW r \in Requests, ServerWithdraws(r) PROVE IInv'
  <2>1. [kind |-> "resolved", of |-> r] \in Message
    BY DEF Message
  <2>2. Sent' = Sent /\ request' = [request EXCEPT ![r] = "closed"]
    BY <1>3 DEF ServerWithdraws, Sent
  <2>3. QED
    BY <1>0, <1>1, <1>3, <2>1, <2>2 DEF ServerWithdraws, Announce, IsRequest, TypeOK
<1>4. ASSUME NEW t \in Turns, ServerEndsTurn(t) PROVE IInv'
  <2>1. [kind |-> "completed", of |-> t] \in Message
    BY DEF Message
  <2>2. Sent' = Sent /\ UNCHANGED request
    BY <1>4 DEF ServerEndsTurn, Sent
  <2>3. QED
    BY <1>0, <1>1, <1>4, <2>1, <2>2 DEF ServerEndsTurn, Announce, IsRequest, TypeOK
<1>5. CASE ServerReads
  <2> DEFINE r == Head(toServer).of
  <2>1. /\ received' = Append(received, Head(toServer)) /\ toServer' = Tail(toServer)
        /\ upstream = "open"
        /\ toServer # <<>> /\ UNCHANGED <<turn, proxyVars, tuiVars, upstream>>
    BY <1>5 DEF ServerReads
  <2>2. /\ received' \in Seq(Answer) /\ toServer' \in Seq(Answer)
        /\ received' \o toServer' = received \o toServer
    BY <1>0, <2>1, MoveHead DEF TypeOK
  <2>3. Sent' = Sent
    BY <2>1, <2>2 DEF Sent
  <2>4. Head(toServer) \in Answer
    BY <1>0, <2>1, HeadTailProperties DEF TypeOK
  <2>5. r \in Requests
    BY <2>4 DEF Answer
  <2>6. CASE request[r] = "open"
    <3>1. [kind |-> "resolved", of |-> r] \in Message
      BY <2>5 DEF Message
    <3>2. /\ request' = [request EXCEPT ![r] = "closed"]
          /\ toProxy' = Append(toProxy, [kind |-> "resolved", of |-> r])
      BY <1>5, <2>6 DEF ServerReads, Announce
    <3>3. QED
      BY <1>0, <1>1, <2>1, <2>2, <2>3, <2>5, <3>1, <3>2 DEF IsRequest, TypeOK
  <2>7. CASE request[r] # "open"
    <3>1. UNCHANGED <<request, toProxy>>
      BY <1>5, <2>7 DEF ServerReads
    <3>2. TypeOK'
      BY <1>0, <2>1, <2>2, <3>1 DEF TypeOK
    <3>3. (SentInOrder /\ AcceptsFollow /\ ApprovedIsSent /\ ApprovedIsDecided)'
      BY <2>1, <2>3, <3>2, SentKeeps
    <3>4. (UnresolvedUndecided /\ HeardOfOnce /\ TuiKnown)'
      BY <2>1, <3>1 DEF IInv, UnresolvedUndecided, HeardOfOnce, TuiKnown
    <3>5. QED
      BY <3>2, <3>3, <3>4 DEF IInv
  <2>8. QED
    BY <2>6, <2>7
<1>6. CASE ServerCloses
  <2>1. /\ upstream' = "closed" /\ toServer' = <<>>
        /\ UNCHANGED <<request, turn, received, toProxy, proxyVars, tuiVars>>
    BY <1>6 DEF ServerCloses, serverVars
  <2>2. received \in Seq(Answer) /\ toServer \in Seq(Answer) /\ outbox \in Seq(Answer)
    BY <1>0 DEF TypeOK
  <2>3. Sent' = received \o outbox
    BY <2>1, <2>2, ConcatEmptySeq DEF Sent
  <2>4. SentInOrder'
    BY <2>1, <2>2, <2>3, CutKeeps DEF Sent
  <2>5. TypeOK'
    <3>1. <<>> \in Seq(Answer)
      BY EmptySeq
    <3>2. QED
      BY <1>0, <2>1, <3>1 DEF TypeOK
  <2>6. (AcceptsFollow /\ ApprovedIsSent /\ ApprovedIsDecided)'
    BY <2>1 DEF IInv, AcceptsFollow, ProxyFollows, ApprovedIsSent, ApprovedIsDecided
  <2>7. (UnresolvedUndecided /\ HeardOfOnce /\ TuiKnown)'
    BY <2>1 DEF IInv, UnresolvedUndecided, HeardOfOnce, TuiKnown
  <2>8. QED
    BY <2>4, <2>5, <2>6, <2>7 DEF IInv
<1>7. QED
  BY <1>2, <1>3, <1>4, <1>5, <1>6 DEF Server

\* The steps of the proxy.
LEMMA ProxyIInv == IInv /\ Proxy => IInv'
<1> SUFFICES ASSUME IInv, Proxy PROVE IInv'
  OBVIOUS
<1>0. TypeOK /\ HeardOfOnce /\ TuiKnown
  BY DEF IInv
<1> USE DEF serverVars, tuiVars
\* Taking a message: what the TUI knows gains the request that is handled.
<1>1. ASSUME toProxy # <<>>, toProxy' = Tail(toProxy), handling' = Head(toProxy),
             pending' \in [Requests -> {"none", "open", "resolved"}],
             approved' \subseteq Turns, outbox' \in Seq(Answer),
             decision' \in [Requests -> {"accept", "decline", None}],
             UNCHANGED <<serverVars, toServer, tuiVars, upstream>>,
             \A r \in Requests :
               /\ pending[r] # "none" => pending'[r] # "none"
               /\ pending[r] = "none" /\ ~IsRequest(Head(toProxy), r) => pending'[r] = "none"
               /\ IsRequest(Head(toProxy), r) => pending'[r] # "none",
             (SentInOrder /\ AcceptsFollow /\ ApprovedIsSent /\ ApprovedIsDecided /\ UnresolvedUndecided)'
      PROVE  IInv'
  <2>1. toProxy' \in Seq(Message) /\ Head(toProxy) \in Message /\ HeardOfOnce'
    BY <1>0, <1>1, TakesKeeps
  <2>2. TypeOK'
    BY <1>0, <1>1, <2>1 DEF TypeOK
  <2>3. TuiKnown'
    <3>1. handling'.kind = "request" => pending'[handling'.of] # "none"
      BY <1>1, <2>1 DEF IsRequest, Message
    <3>2. fromTui \in Seq(Answer) /\ asking \subseteq Requests
      BY <1>0 DEF TypeOK
    <3>3. \A n \in 1..Len(fromTui) : fromTui[n] \in Answer
      BY <3>2, ElementOfSeq
    <3>4. \A n \in 1..Len(fromTui) : fromTui[n].of \in Requests
      BY <3>3 DEF Answer
    <3>5. QED
      BY <1>0, <1>1, <3>1, <3>2, <3>4 DEF TuiKnown
  <2>4. QED
    BY <1>1, <2>1, <2>2, <2>3 DEF IInv
<1>2. CASE TakesRequest
  <2> DEFINE r == Head(toProxy).of
  <2>1. /\ toProxy # <<>> /\ Head(toProxy).kind = "request"
        /\ toProxy' = Tail(toProxy) /\ handling' = Head(toProxy)
        /\ UNCHANGED <<serverVars, toServer, tuiVars, upstream>>
    BY <1>2 DEF TakesRequest, Takes
  <2>2. Head(toProxy) \in Message /\ Head(toProxy) = toProxy[1] /\ 1 \in 1..Len(toProxy)
    <3>1. toProxy \in Seq(Message)
      BY <1>0 DEF TypeOK
    <3>2. Len(toProxy) \in Nat \ {0}
      BY <2>1, <3>1, EmptySeq
    <3>3. QED
      BY <2>1, <3>1, <3>2, HeadTailProperties
  <2>3. r \in Requests /\ IsRequest(Head(toProxy), r)
    BY <2>1, <2>2 DEF Message, IsRequest
  <2>4. pending[r] = "none" /\ decision[r] = None
    BY <1>0, <2>2, <2>3 DEF HeardOfOnce, IInv, UnresolvedUndecided
  <2>5. \A q \in Requests : IsRequest(Head(toProxy), q) => q = r
    BY DEF IsRequest
  <2>6. CASE AutoAccepts(r)
    <3>1. Decide(r, "proxy", "accept")
      BY <1>2, <2>6 DEF TakesRequest
    <3>2. /\ pending' \in [Requests -> {"none", "open", "resolved"}]
          /\ approved' \subseteq Turns /\ outbox' \in Seq(Answer)
          /\ decision' \in [Requests -> {"accept", "decline", None}]
          /\ (SentInOrder /\ AcceptsFollow /\ ApprovedIsSent /\ ApprovedIsDecided /\ UnresolvedUndecided)'
      BY <2>1, <2>3, <2>4, <2>6, <3>1, DecideKeeps
    <3>3. pending' = [pending EXCEPT ![r] = "resolved"]
      BY <3>1 DEF Decide
    <3>4. \A q \in Requests :
            /\ pending[q] # "none" => pending'[q] # "none"
            /\ pending[q] = "none" /\ ~IsRequest(Head(toProxy), q) => pending'[q] = "none"
            /\ IsRequest(Head(toProxy), q) => pending'[q] # "none"
      BY <1>0, <2>3, <2>5, <3>3 DEF TypeOK
    <3>5. QED
      BY <1>1, <2>1, <3>2, <3>4
  <2>7. CASE ~AutoAccepts(r)
    <3>1. /\ pending' = [pending EXCEPT ![r] = "open"]
          /\ UNCHANGED <<approved, outbox, decision>>
      BY <1>2, <2>7 DEF TakesRequest
    <3>2. /\ pending' \in [Requests -> {"none", "open", "resolved"}]
          /\ approved' \subseteq Turns /\ outbox' \in Seq(Answer)
          /\ decision' \in [Requests -> {"accept", "decline", None}]
      BY <1>0, <3>1 DEF TypeOK
    <3>3. Sent' = Sent
      BY <2>1, <3>1 DEF Sent
    <3>4. (SentInOrder /\ AcceptsFollow /\ ApprovedIsSent /\ ApprovedIsDecided)'
      BY <2>1, <3>1, <3>3, SentKeeps
    <3>5. UnresolvedUndecided'
      BY <1>0, <2>4, <3>1 DEF IInv, UnresolvedUndecided, TypeOK
    <3>6. \A q \in Requests :
            /\ pending[q] # "none" => pending'[q] # "none"
            /\ pending[q] = "none" /\ ~IsRequest(Head(toProxy), q) => pending'[q] = "none"
            /\ IsRequest(Head(toProxy), q) => pending'[q] # "none"
      BY <1>0, <2>3, <2>5, <3>1 DEF TypeOK
    <3>7. QED
      BY <1>1, <2>1, <3>2, <3>4, <3>5, <3>6
  <2>8. QED
    BY <2>6, <2>7
<1>3. CASE TakesResolved
  <2> DEFINE r == Head(toProxy).of
  <2>1. /\ toProxy # <<>> /\ Head(toProxy).kind = "resolved"
        /\ toProxy' = Tail(toProxy) /\ handling' = Head(toProxy)
        /\ pending' = [pending EXCEPT ![r] = IF @ = "none" THEN @ ELSE "resolved"]
        /\ UNCHANGED <<serverVars, toServer, approved, outbox, decision, tuiVars, upstream>>
    BY <1>3 DEF TakesResolved, Takes
  <2>2. pending' \in [Requests -> {"none", "open", "resolved"}]
    BY <1>0, <2>1 DEF TypeOK
  <2>3. \A q \in Requests : /\ pending[q] # "none" <=> pending'[q] # "none"
                            /\ pending'[q] # "resolved" => pending[q] # "resolved"
                            /\ ~IsRequest(Head(toProxy), q)
    BY <1>0, <2>1 DEF TypeOK, IsRequest
  <2>4. Sent' = Sent
    BY <2>1 DEF Sent
  <2>5. (SentInOrder /\ AcceptsFollow /\ ApprovedIsSent /\ ApprovedIsDecided)'
    BY <2>1, <2>4, SentKeeps
  <2>6. UnresolvedUndecided'
    BY <2>1, <2>3 DEF IInv, UnresolvedUndecided
  <2>7. approved' \subseteq Turns /\ outbox' \in Seq(Answer)
        /\ decision' \in [Requests -> {"accept", "decline", None}]
    BY <1>0, <2>1 DEF TypeOK
  <2>8. QED
    BY <1>1, <2>1, <2>2, <2>3, <2>5, <2>6, <2>7
<1>4. CASE TakesCompleted
  <2>1. /\ toProxy # <<>> /\ Head(toProxy).kind = "completed"
        /\ toProxy' = Tail(toProxy) /\ handling' = Head(toProxy)
        /\ approved' \subseteq approved
        /\ UNCHANGED <<serverVars, toServer, pending, outbox, decision, tuiVars, upstream>>
    BY <1>4 DEF TakesCompleted, Takes
  <2>2. Sent' = Sent /\ \A q \in Requests : ~IsRequest(Head(toProxy), q)
    BY <2>1 DEF Sent, IsRequest
  <2>3. (SentInOrder /\ AcceptsFollow /\ ApprovedIsSent /\ ApprovedIsDecided /\ UnresolvedUndecided)'
    BY <2>1, <2>2 DEF IInv, SentInOrder, AcceptsFollow, ProxyFollows, ApprovedIsSent, ApprovedIsDecided, UnresolvedUndecided
  <2>4. /\ pending' \in [Requests -> {"none", "open", "resolved"}]
        /\ approved' \subseteq Turns /\ outbox' \in Seq(Answer)
        /\ decision' \in [Requests -> {"accept", "decline", None}]
    BY <1>0, <2>1 DEF TypeOK
  <2>5. QED
    BY <1>1, <2>1, <2>2, <2>3, <2>4
<1>5. CASE ForwardsToTui
  <2>1. CASE tui
    <3>1. /\ handling # None /\ handling' = None
          /\ asking' = CASE handling.kind = "request" -> asking \cup {handling.of}
                         [] handling.kind = "resolved" -> asking \ {handling.of}
                         [] OTHER -> asking
          /\ UNCHANGED <<serverVars, toProxy, toServer, pending, approved, outbox, decision,
                         fromTui, tui, upstream>>
      BY <1>5, <2>1 DEF ForwardsToTui
    <3>2. /\ asking' \subseteq Requests
          /\ \A r \in asking' : r \in asking \/ (handling.kind = "request" /\ r = handling.of)
      BY <1>0, <3>1 DEF TypeOK, Message
    <3>3. TypeOK'
      BY <1>0, <3>1, <3>2 DEF TypeOK
    <3>4. Sent' = Sent
      BY <3>1 DEF Sent
    <3>5. (SentInOrder /\ AcceptsFollow /\ ApprovedIsSent /\ ApprovedIsDecided)'
      BY <3>1, <3>4, SentKeeps
    <3>6. TuiKnown'
      BY <1>0, <3>1, <3>2 DEF TuiKnown
    <3>7. UnresolvedUndecided' /\ HeardOfOnce'
      BY <1>0, <3>1 DEF IInv, UnresolvedUndecided, HeardOfOnce
    <3>8. QED
      BY <3>3, <3>5, <3>6, <3>7 DEF IInv
  <2>2. CASE ~tui
    <3>1. GiveUp /\ UNCHANGED <<serverVars, pending, approved, decision>>
      BY <1>5, <2>2 DEF ForwardsToTui
    <3>2. QED
      BY <3>1, GiveUpKeeps
  <2>3. QED
    BY <2>1, <2>2
\* An answer: the request was known, so the messages on the way do not matter.
<1>6. ASSUME NEW r \in Requests, NEW who \in {"tui", "device"},
             NEW result \in {"accept", "decline"}, NEW left \in Seq(Answer),
             pending[r] = "open", Decide(r, who, result), fromTui' = left,
             \A n \in 1..Len(left) : pending[left[n].of] # "none" /\ left[n].by = "tui",
             UNCHANGED <<serverVars, toProxy, toServer, handling, asking, tui, upstream>>
      PROVE  IInv'
  <2>1. /\ pending' \in [Requests -> {"none", "open", "resolved"}]
        /\ approved' \subseteq Turns /\ outbox' \in Seq(Answer)
        /\ decision' \in [Requests -> {"accept", "decline", None}]
        /\ (SentInOrder /\ AcceptsFollow /\ ApprovedIsSent /\ ApprovedIsDecided /\ UnresolvedUndecided)'
    BY <1>6, DecideKeeps
  <2>2. pending' = [pending EXCEPT ![r] = "resolved"]
    BY <1>6 DEF Decide
  <2>3. \A q \in Requests : pending'[q] = "none" <=> pending[q] = "none"
    BY <1>0, <1>6, <2>2 DEF TypeOK
  <2>4. TypeOK'
    BY <1>0, <1>6, <2>1 DEF TypeOK
  <2>5. HeardOfOnce'
    BY <1>0, <1>6, <2>3 DEF HeardOfOnce
  <2>6. TuiKnown'
    <3>1. \A n \in 1..Len(left) : left[n] \in Answer
      BY ElementOfSeq
    <3>2. \A n \in 1..Len(left) : left[n].of \in Requests
      BY <3>1 DEF Answer
    <3>3. asking \subseteq Requests
      BY <1>0 DEF TypeOK
    <3>4. handling # None => (handling.kind = "request" => handling.of \in Requests)
      BY <1>0 DEF TypeOK, Message
    <3>5. QED
      BY <1>0, <1>6, <2>3, <3>2, <3>3, <3>4 DEF TuiKnown
  <2>7. QED
    BY <2>1, <2>4, <2>5, <2>6 DEF IInv
<1>7. CASE ForwardsAnswer
  <2> DEFINE a == Head(fromTui)
  <2>1. /\ fromTui # <<>> /\ fromTui' = Tail(fromTui)
        /\ UNCHANGED <<serverVars, toProxy, toServer, handling, asking, tui, upstream>>
    BY <1>7 DEF ForwardsAnswer, NextOfTui
  <2>2. fromTui \in Seq(Answer)
    BY <1>0 DEF TypeOK
  <2>3. /\ a \in Answer /\ a = fromTui[1] /\ Tail(fromTui) \in Seq(Answer)
        /\ Len(fromTui) \in Nat \ {0} /\ Len(Tail(fromTui)) = Len(fromTui) - 1
        /\ \A n \in 1..Len(Tail(fromTui)) : Tail(fromTui)[n] = fromTui[n + 1]
    BY <2>1, <2>2, HeadTailProperties, EmptySeq
  <2>4. a.of \in Requests /\ a.result \in {"accept", "decline", "error"}
    BY <2>3 DEF Answer
  <2>5. pending[a.of] # "none" /\ a.by = "tui"
    BY <1>0, <2>3 DEF TuiKnown
  <2>6. \A n \in 1..Len(Tail(fromTui)) :
          pending[Tail(fromTui)[n].of] # "none" /\ Tail(fromTui)[n].by = "tui"
    BY <1>0, <2>3 DEF TuiKnown
  <2>7. CASE a.result # "error" /\ pending[a.of] = "resolved"
    <3>1. UNCHANGED <<pending, approved, outbox, decision>>
      BY <1>7, <2>7 DEF ForwardsAnswer, HandsErrorOn
    <3>2. TypeOK'
      BY <1>0, <2>1, <2>3, <3>1 DEF TypeOK
    <3>3. Sent' = Sent
      BY <2>1, <3>1 DEF Sent
    <3>4. (SentInOrder /\ AcceptsFollow /\ ApprovedIsSent /\ ApprovedIsDecided)'
      BY <2>1, <3>1, <3>3, SentKeeps
    <3>5. (UnresolvedUndecided /\ HeardOfOnce)'
      BY <2>1, <3>1 DEF IInv, UnresolvedUndecided, HeardOfOnce
    <3>6. TuiKnown'
      BY <1>0, <2>1, <2>6, <3>1 DEF TuiKnown
    <3>7. QED
      BY <3>2, <3>4, <3>5, <3>6 DEF IInv
  <2>8. CASE a.result # "error" /\ pending[a.of] # "resolved"
    <3>1. Decide(a.of, "tui", a.result)
      BY <1>7, <2>8 DEF ForwardsAnswer, HandsErrorOn
    <3>2. pending[a.of] = "open"
      BY <1>0, <2>4, <2>5, <2>8 DEF TypeOK
    <3>3. QED
      BY <1>6, <2>1, <2>3, <2>4, <2>6, <2>8, <3>1, <3>2
  <2>9. CASE a.result = "error"
    <3>1. outbox' = Append(outbox, a) /\ UNCHANGED <<pending, approved, decision>>
      BY <1>7, <2>9 DEF ForwardsAnswer, HandsErrorOn
    <3>2. /\ outbox' \in Seq(Answer)
          /\ Len(Sent') = Len(Sent) + 1 /\ Sent'[Len(Sent) + 1] = a
          /\ \A n \in 1..Len(Sent) : Sent'[n] = Sent[n]
          /\ \A n \in 1..Len(Sent') : n \in 1..Len(Sent) \/ n = Len(Sent) + 1
      BY <1>0, <2>1, <2>3, <3>1, SentGrows
    <3>3. TypeOK'
      BY <1>0, <2>1, <2>3, <3>1, <3>2 DEF TypeOK
    <3>4. SentInOrder'
      <4>1. ~IsDecision(a) /\ a.by = "tui"
        BY <2>5, <2>9 DEF IsDecision
      <4> HIDE DEF a
      <4>2. \A m, n \in 1..Len(Sent') :
              Sent'[m].of = Sent'[n].of /\ IsDecision(Sent'[m]) /\ IsDecision(Sent'[n]) => m = n
        BY <3>2, <4>1 DEF IInv, SentInOrder
      <4>3. \A n \in 1..Len(Sent') :
              /\ IsDecision(Sent'[n]) => Sent'[n].result = decision'[Sent'[n].of]
              /\ ~IsDecision(Sent'[n]) => Sent'[n].by = "tui"
        BY <3>1, <3>2, <4>1 DEF IInv, SentInOrder
      <4>4. QED
        BY <4>2, <4>3 DEF SentInOrder, IsDecision
    <3>5. AcceptsFollow'
      BY <1>0, <2>1, <2>3, <2>5, <3>1, GrowthFollows DEF IInv
    <3>6. (ApprovedIsSent /\ ApprovedIsDecided)'
      <4>1. Len(Sent) \in Nat
        BY <1>0, SentParts
      <4>2. \A m \in 1..Len(Sent) : m \in 1..Len(Sent') /\ Sent'[m] = Sent[m]
        BY <3>2, <4>1
      <4>3. QED
        BY <2>1, <3>1, <4>2 DEF IInv, ApprovedIsSent, ApprovedIsDecided
    <3>7. (UnresolvedUndecided /\ HeardOfOnce)'
      BY <2>1, <3>1 DEF IInv, UnresolvedUndecided, HeardOfOnce
    <3>8. TuiKnown'
      BY <1>0, <2>1, <2>6, <3>1 DEF TuiKnown
    <3>9. QED
      BY <3>3, <3>4, <3>5, <3>6, <3>7, <3>8 DEF IInv
  <2>10. QED
    BY <2>7, <2>8, <2>9
<1>8. CASE Writes
  <2>1. /\ outbox # <<>> /\ toServer' = Append(toServer, Head(outbox))
        /\ outbox' = Tail(outbox)
        /\ UNCHANGED <<serverVars, toProxy, pending, approved, handling, decision, tuiVars,
                       upstream>>
    BY <1>8 DEF Writes
  <2>2. /\ received \in Seq(Answer) /\ toServer \in Seq(Answer) /\ outbox \in Seq(Answer)
    BY <1>0 DEF TypeOK
  <2>3. toServer' \in Seq(Answer) /\ outbox' \in Seq(Answer)
    BY <2>1, <2>2, MoveHead
  <2>4. Sent' = Sent
    <3>1. toServer' \o outbox' = toServer \o outbox
      BY <2>1, <2>2, MoveHead
    <3>2. received \in Seq(Answer) /\ toServer' \in Seq(Answer) /\ outbox' \in Seq(Answer)
      BY <2>2, <2>3
    <3>3. (received \o toServer') \o outbox' = received \o (toServer' \o outbox')
      BY <3>2, ConcatAssociative
    <3>4. (received \o toServer) \o outbox = received \o (toServer \o outbox)
      BY <2>2, ConcatAssociative
    <3>5. QED
      BY <2>1, <3>1, <3>3, <3>4 DEF Sent
  <2>5. TypeOK'
    BY <1>0, <2>1, <2>3 DEF TypeOK
  <2>6. (SentInOrder /\ AcceptsFollow /\ ApprovedIsSent /\ ApprovedIsDecided)'
    BY <2>1, <2>4, SentKeeps
  <2>7. (UnresolvedUndecided /\ HeardOfOnce /\ TuiKnown)'
    BY <2>1 DEF IInv, UnresolvedUndecided, HeardOfOnce, TuiKnown
  <2>8. QED
    BY <2>5, <2>6, <2>7 DEF IInv
<1>9. ASSUME NEW r \in Requests, NEW d \in {"once", "deny"}, DeviceAnswers(r, d) PROVE IInv'
  <2>1. /\ pending[r] = "open" /\ Decide(r, "device", ResponseTo[d])
        /\ UNCHANGED <<serverVars, toProxy, toServer, handling, tuiVars, upstream>>
    BY <1>9 DEF DeviceAnswers
  <2>2. ResponseTo[d] \in {"accept", "decline"}
    BY DEF ResponseTo
  <2>3. /\ fromTui \in Seq(Answer)
        /\ \A n \in 1..Len(fromTui) : pending[fromTui[n].of] # "none" /\ fromTui[n].by = "tui"
    BY <1>0 DEF TypeOK, TuiKnown
  <2>4. QED
    BY <1>6, <2>1, <2>2, <2>3
<1>10. CASE WriteFails
  <2>1. CASE Head(outbox).by = "device" /\ outbox' = Tail(outbox)
              /\ UNCHANGED <<toProxy, toServer, handling, tuiVars, upstream>>
    <3>1. /\ upstream = "closed" /\ outbox # <<>>
          /\ UNCHANGED <<serverVars, pending, approved, decision>>
      BY <1>10 DEF WriteFails
    <3>2. received \in Seq(Answer) /\ toServer \in Seq(Answer) /\ outbox \in Seq(Answer)
      BY <1>0 DEF TypeOK
    <3> DEFINE s == received \o toServer
               c == <<Head(outbox)>>
    <3>3. s \in Seq(Answer) /\ Head(outbox) \in Answer /\ Tail(outbox) \in Seq(Answer)
      BY <3>1, <3>2, ConcatProperties, HeadTailProperties
    <3>4. c \in Seq(Answer) /\ Append(s, Head(outbox)) = s \o c
      BY <3>3, AppendIsConcat
    <3> HIDE DEF s, c
    <3>5. Append(s, Head(outbox)) \o Tail(outbox) = s \o outbox
      BY <3>1, <3>2, <3>3, MoveHead
    <3>6. Sent = (s \o c) \o Tail(outbox) /\ Sent' = s \o Tail(outbox)
      BY <2>1, <3>1, <3>4, <3>5 DEF Sent, s
    <3>7. SentInOrder'
      BY <3>1, <3>3, <3>4, <3>6, CutKeeps
    <3>8. TypeOK'
      BY <1>0, <2>1, <3>1, <3>3 DEF TypeOK
    <3>9. (AcceptsFollow /\ ApprovedIsSent /\ ApprovedIsDecided)'
      BY <2>1, <3>1 DEF IInv, AcceptsFollow, ProxyFollows, ApprovedIsSent, ApprovedIsDecided
    <3>10. (UnresolvedUndecided /\ HeardOfOnce /\ TuiKnown)'
      BY <2>1, <3>1 DEF IInv, UnresolvedUndecided, HeardOfOnce, TuiKnown
    <3>11. QED
      BY <3>7, <3>8, <3>9, <3>10 DEF IInv
  <2>2. CASE GiveUp
    BY <1>10, <2>2, GiveUpKeeps DEF WriteFails
  <2>3. QED
    BY <1>10, <2>1, <2>2 DEF WriteFails
<1>11. CASE ClientLeaves
  BY <1>11, GiveUpKeeps DEF ClientLeaves
<1>12. QED
  BY <1>2, <1>3, <1>4, <1>5, <1>7, <1>8, <1>9, <1>10, <1>11 DEF Proxy

\* The steps of the TUI and the end of the connection.
LEMMA TuiIInv == IInv /\ Tui => IInv'
<1> SUFFICES ASSUME IInv, Tui PROVE IInv'
  OBVIOUS
<1>0. TypeOK /\ TuiKnown
  BY DEF IInv
<1> USE DEF serverVars, proxyVars
<1>1. ASSUME NEW r \in Requests, NEW result \in {"accept", "decline", "error"},
             TuiAnswers(r, result)
      PROVE  IInv'
  <2> DEFINE a == [of |-> r, by |-> "tui", result |-> result]
  <2>1. /\ r \in asking /\ asking' = asking \ {r} /\ fromTui' = Append(fromTui, a)
        /\ UNCHANGED <<serverVars, toProxy, toServer, proxyVars, tui, upstream>>
    BY <1>1 DEF TuiAnswers
  <2>2. a \in Answer /\ fromTui \in Seq(Answer)
    BY <1>0 DEF Answer, TypeOK
  <2>3. /\ fromTui' \in Seq(Answer) /\ Len(fromTui') = Len(fromTui) + 1
        /\ \A n \in 1..Len(fromTui) : fromTui'[n] = fromTui[n]
        /\ fromTui'[Len(fromTui) + 1] = a /\ Len(fromTui) \in Nat
    BY <2>1, <2>2, AppendProperties, LenProperties
  <2>4. pending[a.of] # "none"
    BY <1>0, <2>1 DEF TuiKnown
  <2>5. TypeOK'
    BY <1>0, <2>1, <2>3 DEF TypeOK
  <2>6. TuiKnown'
    <3>1. \A n \in 1..Len(fromTui') : n \in 1..Len(fromTui) \/ n = Len(fromTui) + 1
      BY <2>3
    <3>2. \A n \in 1..Len(fromTui') :
            pending[fromTui'[n].of] # "none" /\ fromTui'[n].by = "tui"
      BY <1>0, <2>3, <2>4, <3>1 DEF TuiKnown
    <3>3. QED
      BY <1>0, <2>1, <3>2 DEF TuiKnown
  <2>7. Sent' = Sent
    BY <2>1 DEF Sent
  <2>8. (SentInOrder /\ AcceptsFollow /\ ApprovedIsSent /\ ApprovedIsDecided)'
    BY <2>1, <2>7, SentKeeps
  <2>9. (UnresolvedUndecided /\ HeardOfOnce)'
    BY <2>1 DEF IInv, UnresolvedUndecided, HeardOfOnce
  <2>10. QED
    BY <2>5, <2>6, <2>8, <2>9 DEF IInv
<1>2. CASE TuiQuits
  <2>1. /\ asking' = {} /\ tui' = FALSE
        /\ UNCHANGED <<serverVars, toProxy, toServer, proxyVars, fromTui, upstream>>
    BY <1>2 DEF TuiQuits
  <2>2. Sent' = Sent
    BY <2>1 DEF Sent
  <2>3. (SentInOrder /\ AcceptsFollow /\ ApprovedIsSent /\ ApprovedIsDecided)'
    BY <2>1, <2>2, SentKeeps
  <2>4. (UnresolvedUndecided /\ HeardOfOnce /\ TuiKnown)'
    BY <2>1 DEF IInv, UnresolvedUndecided, HeardOfOnce, TuiKnown
  <2>5. TypeOK'
    BY <1>0, <2>1 DEF TypeOK
  <2>6. QED
    BY <2>3, <2>4, <2>5 DEF IInv
<1>3. CASE ConnectionLost
  BY <1>3, GiveUpKeeps DEF ConnectionLost
<1>4. QED
  BY <1>1, <1>2, <1>3 DEF Tui

LEMMA IInvInductive == IInv /\ [Next]_vars => IInv'
<1>1. ASSUME IInv, UNCHANGED vars PROVE IInv'
  <2> USE <1>1 DEF vars, serverVars, proxyVars, tuiVars
  <2>1. TypeOK'
    BY DEF IInv, TypeOK
  <2>2. Sent' = Sent
    BY DEF Sent
  <2>3. (SentInOrder /\ AcceptsFollow /\ ApprovedIsSent /\ ApprovedIsDecided)'
    BY <2>2, SentKeeps
  <2>4. (UnresolvedUndecided /\ HeardOfOnce /\ TuiKnown)'
    BY DEF IInv, UnresolvedUndecided, HeardOfOnce, TuiKnown
  <2>5. QED
    BY <2>1, <2>3, <2>4 DEF IInv
<1>2. QED
  BY <1>1, ServerIInv, ProxyIInv, TuiIInv DEF Next

\* The invariant that carries the results below; every reachable state is well
\* typed.
THEOREM Invariant == Spec => []IInv
<1>1. QED
  BY InitIInv, IInvInductive, PTL DEF Spec

THEOREM TypeCorrect == Spec => []TypeOK
<1>1. IInv => TypeOK
  BY DEF IInv
<1>2. QED
  BY <1>1, Invariant, PTL

(***************************************************************************)
(* What the proxy guarantees.                                              *)
(***************************************************************************)

\* However the TUI, the device and the proxy race, and however the connection
\* ends, the server gets one decision of a request at most, the one that was
\* taken; every error reply that comes on top of it is the TUI's.
THEOREM OneDecision == Spec => []OneDecisionPerRequest
<1>1. ASSUME IInv PROVE OneDecisionPerRequest
  <2>1. Sent \in Seq(Answer)
    BY <1>1, SentParts DEF IInv
  <2>2. DOMAIN Sent = 1..Len(Sent)
    BY <2>1, LenProperties
  <2>3. QED
    BY <1>1, <2>2 DEF IInv, SentInOrder, OneDecisionPerRequest, Sent
<1>2. QED
  BY <1>1, Invariant, PTL

\* The server reads what the proxy accepts by itself after a user's acceptance
\* of a changing command of the same turn.
THEOREM AutoAcceptIsEarned == Spec => []AutoAcceptFollowsApproval
<1>1. ASSUME IInv PROVE AutoAcceptFollowsApproval
  <2>1. received \in Seq(Answer)
    BY <1>1 DEF IInv, TypeOK
  <2>2. DOMAIN received = 1..Len(received)
    BY <2>1, LenProperties
  <2>3. QED
    BY <1>1, <2>2 DEF IInv, AcceptsFollow, ProxyFollows, AutoAcceptFollowsApproval, Approves
<1>2. QED
  BY <1>1, Invariant, PTL

(***************************************************************************)
(* The proxy implements CodexApproval.                                     *)
(***************************************************************************)

\* A decision of a user or of the proxy about a request it may decide.
LEMMA DecideImplements ==
  ASSUME IInv, NEW r \in Requests, NEW who, NEW result \in {"accept", "decline"},
         Decide(r, who, result),
         \/ pending[r] = "open"
         \/ pending[r] = "none" /\ result = "accept" /\ AutoAccepts(r)
  PROVE  Approval!Next
<1>1. TypeOK /\ decision[r] = None
  BY DEF IInv, UnresolvedUndecided
<1>2. /\ pending' = [pending EXCEPT ![r] = "resolved"]
      /\ decision' = [decision EXCEPT ![r] = result]
  BY DEF Decide
<1>3. Status' = [Status EXCEPT ![r] = result]
  <2>1. Status'[r] = result
    BY <1>1, <1>2, CodexProxyAssumption DEF Status, TypeOK, CodexProxyAssumption
  <2>2. \A q \in Requests : q # r => Status'[q] = Status[q]
    BY <1>1, <1>2 DEF Status, TypeOK
  <2>3. QED
    BY <2>1, <2>2 DEF Status
<1>4. CASE pending[r] = "open"
  <2>1. Status[r] = "waiting"
    BY <1>1, <1>4 DEF Status
  <2>2. QED
    BY <1>3, <2>1 DEF Approval!Next, Approval!Decide
<1>5. CASE pending[r] = "none" /\ result = "accept" /\ AutoAccepts(r)
  <2>1. Status[r] = "none" /\ r \in ReadOnly
    BY <1>1, <1>5 DEF Status, AutoAccepts
  <2>2. PICK m \in Requests \ ReadOnly : TurnOf[m] = TurnOf[r] /\ decision[m] = "accept"
    BY <1>5 DEF AutoAccepts, IInv, ApprovedIsDecided
  <2>3. Status[m] = "accept"
    BY <2>2, CodexProxyAssumption DEF Status, CodexProxyAssumption
  <2>4. QED
    BY <1>3, <1>5, <2>1, <2>2, <2>3 DEF Approval!Next, Approval!AcceptUnasked
<1>6. QED
  BY <1>4, <1>5

\* Every step of the proxy, the server and the TUI is a step of CodexApproval,
\* or nothing that it sees.
LEMMA StepImplements ==
  ASSUME IInv, [Next]_vars
  PROVE  [Approval!Next]_Status
<1>0. TypeOK /\ HeardOfOnce /\ UnresolvedUndecided /\ TuiKnown
  BY DEF IInv
<1>1. ASSUME UNCHANGED <<pending, decision>> PROVE UNCHANGED Status
  BY <1>1 DEF Status
<1>2. CASE Server
  BY <1>1, <1>2 DEF Server, ServerAsks, ServerWithdraws, ServerReads, ServerEndsTurn, ServerCloses, proxyVars
<1>3. CASE Tui
  BY <1>1, <1>3 DEF Tui, TuiAnswers, TuiQuits, ConnectionLost, proxyVars
<1>4. CASE UNCHANGED vars
  BY <1>1, <1>4 DEF vars, proxyVars
<1>5. CASE TakesRequest
  <2> DEFINE r == Head(toProxy).of
  <2>1. toProxy # <<>> /\ Head(toProxy).kind = "request" /\ toProxy \in Seq(Message)
    BY <1>0, <1>5 DEF TakesRequest, Takes, TypeOK
  <2>2. Head(toProxy) \in Message /\ Head(toProxy) = toProxy[1] /\ 1 \in 1..Len(toProxy)
    <3>1. Len(toProxy) \in Nat \ {0}
      BY <2>1, EmptySeq
    <3>2. QED
      BY <2>1, <3>1, HeadTailProperties
  <2>3. r \in Requests /\ pending[r] = "none"
    BY <1>0, <2>1, <2>2 DEF Message, IsRequest, HeardOfOnce
  <2>4. CASE AutoAccepts(r)
    <3>1. Decide(r, "proxy", "accept")
      BY <1>5, <2>4 DEF TakesRequest
    <3>2. QED
      BY <2>3, <2>4, <3>1, DecideImplements
  <2>5. CASE ~AutoAccepts(r)
    <3>1. pending' = [pending EXCEPT ![r] = "open"] /\ UNCHANGED decision
      BY <1>5, <2>5 DEF TakesRequest
    <3>2. decision[r] = None
      BY <1>0, <2>3 DEF UnresolvedUndecided
    <3>3. Status[r] = "none"
      BY <2>3, <3>2 DEF Status
    <3>4. Status'[r] = "waiting"
      BY <1>0, <2>3, <3>1, <3>2 DEF Status, TypeOK
    <3>5. \A q \in Requests : q # r => Status'[q] = Status[q]
      BY <1>0, <3>1 DEF Status, TypeOK
    <3>6. Status' = [Status EXCEPT ![r] = "waiting"]
      BY <3>4, <3>5 DEF Status
    <3>7. QED
      BY <2>3, <3>3, <3>6 DEF Approval!Next, Approval!Ask
  <2>6. QED
    BY <2>4, <2>5
<1>6. CASE TakesResolved
  <2> DEFINE r == Head(toProxy).of
  <2>1. /\ toProxy # <<>> /\ Head(toProxy).kind = "resolved" /\ toProxy \in Seq(Message)
        /\ pending' = [pending EXCEPT ![r] = IF @ = "none" THEN @ ELSE "resolved"]
        /\ UNCHANGED decision
    BY <1>0, <1>6 DEF TakesResolved, Takes, TypeOK
  <2>2. r \in Requests
    BY <2>1, HeadTailProperties DEF Message
  <2>3. \A q \in Requests : q # r => Status'[q] = Status[q]
    BY <1>0, <2>1 DEF Status, TypeOK
  <2>4. CASE pending[r] = "open"
    <3>1. decision[r] = None /\ pending'[r] = "resolved"
      BY <1>0, <2>1, <2>2, <2>4 DEF UnresolvedUndecided, TypeOK
    <3>2. Status[r] = "waiting" /\ Status'[r] = "withdrawn"
      BY <2>1, <2>2, <2>4, <3>1 DEF Status
    <3>3. Status' = [Status EXCEPT ![r] = "withdrawn"]
      BY <2>3, <3>2 DEF Status
    <3>4. QED
      BY <2>2, <3>2, <3>3 DEF Approval!Next, Approval!Withdraw
  <2>5. CASE pending[r] # "open"
    <3>1. pending'[r] = pending[r]
      BY <1>0, <2>1, <2>2, <2>5 DEF TypeOK
    <3>2. pending' = pending
      BY <1>0, <2>1, <2>2, <3>1 DEF TypeOK
    <3>3. QED
      BY <1>1, <2>1, <3>2
  <2>6. QED
    BY <2>4, <2>5
<1>7. CASE TakesCompleted \/ ForwardsToTui \/ Writes \/ WriteFails \/ ClientLeaves
  BY <1>1, <1>7 DEF TakesCompleted, ForwardsToTui, Writes, WriteFails, ClientLeaves
<1>8. CASE ForwardsAnswer
  <2> DEFINE a == Head(fromTui)
  <2>1. fromTui # <<>> /\ fromTui \in Seq(Answer)
    BY <1>0, <1>8 DEF ForwardsAnswer, NextOfTui, TypeOK
  <2>2. a \in Answer /\ a = fromTui[1] /\ Len(fromTui) \in Nat \ {0}
    BY <2>1, HeadTailProperties, EmptySeq
  <2>3. /\ a.of \in Requests /\ a.result \in {"accept", "decline", "error"}
        /\ pending[a.of] # "none"
    BY <1>0, <2>2 DEF Answer, TuiKnown
  <2>4. CASE a.result = "error" \/ pending[a.of] = "resolved"
    BY <1>1, <1>8, <2>4 DEF ForwardsAnswer, HandsErrorOn
  <2>5. CASE a.result # "error" /\ pending[a.of] # "resolved"
    <3>1. Decide(a.of, "tui", a.result)
      BY <1>8, <2>5 DEF ForwardsAnswer, HandsErrorOn
    <3>2. pending[a.of] = "open"
      BY <1>0, <2>3, <2>5 DEF TypeOK
    <3>3. QED
      BY <2>3, <2>5, <3>1, <3>2, DecideImplements
  <2>6. QED
    BY <2>4, <2>5
<1>9. ASSUME NEW r \in Requests, NEW d \in {"once", "deny"}, DeviceAnswers(r, d)
      PROVE  Approval!Next
  <2>1. pending[r] = "open" /\ Decide(r, "device", ResponseTo[d])
    BY <1>9 DEF DeviceAnswers
  <2>2. ResponseTo[d] \in {"accept", "decline"}
    BY DEF ResponseTo
  <2>3. QED
    BY <2>1, <2>2, DecideImplements
<1>10. QED
  BY <1>2, <1>3, <1>4, <1>5, <1>6, <1>7, <1>8, <1>9 DEF Next, Proxy

\* Requests are decided once and by users, or unasked where a user has accepted
\* a changing command of the same turn; what was decided stays.
THEOREM ProxyImplementsApproval == Spec => ImplementsApproval
<1>1. Init => Approval!Init
  BY DEF Init, Approval!Init, Status
<1>2. QED
  BY <1>1, StepImplements, Invariant, PTL DEF Spec, ImplementsApproval, Approval!Spec
=============================================================================

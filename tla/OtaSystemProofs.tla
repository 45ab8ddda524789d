-------------------------- MODULE OtaSystemProofs --------------------------
\* Proofs about OtaSystem, for any number of sessions, any versions, any
\* number of troubles and a ring of any size.
EXTENDS OtaSystem, TLAPS

\* What a line that was sent may be, until the device reads it.
Lines(s) ==
  {<<>>} \cup {<<line>> : line \in
     [cmd : {"offer", "ota_status", "ota_cancel"}, id : {s},
      signed : BOOLEAN]}
OfferSent(signed) ==
  /\ toDev # <<>>
  /\ Head(toDev).cmd = "offer" /\ Head(toDev).signed = signed
AnyOfferSent == \E signed \in BOOLEAN : OfferSent(signed)

Offers == [pending : BOOLEAN, window : BOOLEAN, signed : BOOLEAN,
           id : Sessions \cup {0}]
Open == {"send", "offer", "install"}

TypeOK ==
  /\ cur \in Sessions \cup {0}
  /\ pc \in {"over", "probe", "stopped"} \cup Open
  /\ cur = 0 => pc = "over" /\ toDev = <<>>
  /\ toDev \in Lines(cur)
  /\ "signed" \in DOMAIN session /\ session.signed \in BOOLEAN
  /\ taken \in [Sessions -> {0, 1}]
  /\ offer \in Offers
  /\ offer.pending => offer.id \in Sessions
  /\ ring \in [0..ReplaySlots - 1 -> Sessions \cup {0}]
  /\ nextSlot \in 0..ReplaySlots - 1

\* The offer that an update may consume as a signed one of session s.
Holds(s) == offer.pending /\ offer.signed /\ offer.id = s
Remembered(s) == s \in late \/ \E i \in DOMAIN ring : ring[i] = s

\* A session sends offers of one kind.
Offered(signed) ==
  \/ pc \in Open /\ session.signed = signed
  \/ OfferSent(signed)

\* A session that has sent no offer was not taken.
Untouched ==
  /\ \A s \in Sessions :
       s > cur \/ (s = cur /\ pc = "probe") => taken[s] = 0 /\ ~Holds(s)
  /\ pc = "probe" => ~AnyOfferSent

\* What is taken or may be taken is remembered, and not taken twice.  Offers
\* without a signature may fill in the record that a signed one has opened;
\* when that is taken, the window is closed.
Once ==
  /\ \A s \in Sessions : Holds(s) => taken[s] = 0
  /\ ~(Offered(TRUE) /\ Offered(FALSE))
  /\ Offered(TRUE) /\ (taken[cur] = 1 \/ Holds(cur)) => Remembered(cur)
  /\ Offered(FALSE) /\ offer.window /\ offer.signed => taken[cur] = 0

IInv == TypeOK /\ Untouched /\ Once

LEMMA OneLine ==
  ASSUME NEW s, NEW q \in Lines(s), q # <<>>
  PROVE  /\ Tail(q) = <<>>
         /\ Head(q) \in [cmd : {"offer", "ota_status", "ota_cancel"}, id : {s},
                         signed : BOOLEAN]
<1>1. PICK line \in [cmd : {"offer", "ota_status", "ota_cancel"}, id : {s},
                     signed : BOOLEAN] : q = <<line>>
  BY DEF Lines
<1>2. Head(<<line>>) = line /\ Tail(<<line>>) = <<>>
  OBVIOUS
<1> QED
  BY <1>1, <1>2

LEMMA SentLine ==
  ASSUME NEW s, NEW signed \in BOOLEAN,
         NEW cmd \in {"offer", "ota_status", "ota_cancel"},
         toDev' = <<[cmd |-> cmd, id |-> s, signed |-> signed]>>
  PROVE  /\ toDev' \in Lines(s) /\ toDev' # <<>>
         /\ Head(toDev').cmd = cmd /\ Head(toDev').signed = signed
BY DEF Lines

\* ---- Steps that take no offer and send none

\* Nothing is taken or remembered, and an offer at most dropped.
OfferQuiet ==
  /\ UNCHANGED <<cur, taken, nextSlot>> /\ late \subseteq late'
  /\ ring' \in {ring, Fresh(ring)}
  /\ offer' \in {offer, NoOffer, [NoOffer EXCEPT !.window = TRUE]}

LineQuiet ==
  /\ toDev' \in Lines(cur) /\ (cur = 0 => toDev' = <<>>)
  /\ AnyOfferSent' => toDev' = toDev

\* run() stays what it is, goes on with its offers, or ends.
HostQuiet ==
  /\ "signed" \in DOMAIN session' /\ session'.signed \in BOOLEAN
  /\ \/ pc' = pc /\ session'.signed = session.signed
     \/ pc \in Open /\ pc' \in Open /\ session'.signed = session.signed
     \/ cur # 0 /\ pc' \in {"over", "stopped"}

\* What runs out is forgotten, and nothing else.
LEMMA FreshRing ==
  ASSUME TypeOK
  PROVE  /\ Fresh(ring) \in [0..ReplaySlots - 1 -> Sessions \cup {0}]
         /\ \A i \in DOMAIN ring :
              ring[i] \in late \/ Fresh(ring)[i] = ring[i]
         /\ DOMAIN Fresh(ring) = DOMAIN ring
BY DEF Fresh, TypeOK

LEMMA QuietStep ==
  ASSUME IInv, OfferQuiet, LineQuiet, HostQuiet
  PROVE  IInv'
<1>1. TypeOK /\ Untouched /\ Once
  BY DEF IInv
<1>2. /\ UNCHANGED <<cur, taken, nextSlot>> /\ late \subseteq late'
      /\ ring' \in [0..ReplaySlots - 1 -> Sessions \cup {0}]
      /\ \A s : Remembered(s) => Remembered(s)'
  BY <1>1, FreshRing DEF OfferQuiet, TypeOK, Remembered
<1>3. /\ offer' \in Offers
      /\ offer'.pending => offer' = offer /\ offer.pending
      /\ offer'.window /\ offer'.signed => offer' = offer
  <2>1. /\ NoOffer \in Offers /\ ~NoOffer.pending /\ ~NoOffer.window
    BY DEF NoOffer, Offers
  <2>2. /\ [NoOffer EXCEPT !.window = TRUE] \in Offers
        /\ ~[NoOffer EXCEPT !.window = TRUE].pending
        /\ ~[NoOffer EXCEPT !.window = TRUE].signed
    BY DEF NoOffer, Offers
  <2> QED
    BY <1>1, <2>1, <2>2 DEF OfferQuiet, TypeOK
<1>4. TypeOK'
  BY <1>1, <1>2, <1>3 DEF TypeOK, LineQuiet, HostQuiet, Open
<1>5. \A s \in Sessions : Holds(s)' => Holds(s)
  BY <1>3 DEF Holds
<1>6. AnyOfferSent' => AnyOfferSent
  BY DEF LineQuiet, AnyOfferSent, OfferSent
<1>7. \A signed \in BOOLEAN : Offered(signed)' => Offered(signed)
  <2> SUFFICES ASSUME NEW signed \in BOOLEAN, Offered(signed)'
               PROVE  Offered(signed)
    OBVIOUS
  <2>1. CASE OfferSent(signed)'
    <3>1. AnyOfferSent'
      BY <2>1 DEF AnyOfferSent
    <3> QED
      BY <2>1, <3>1 DEF LineQuiet, OfferSent, Offered
  <2>2. CASE pc' \in Open /\ session'.signed = signed
    BY <1>1, <2>2 DEF HostQuiet, Offered, Open, TypeOK
  <2> QED
    BY <2>1, <2>2 DEF Offered
<1>8. Untouched'
  BY <1>1, <1>2, <1>5, <1>6 DEF Untouched, HostQuiet, Open
<1>9. ASSUME cur \in Sessions
      PROVE  Once'
  <2>1. Remembered(cur) => Remembered(cur)'
    BY <1>2 DEF Remembered
  <2>2. Holds(cur)' => Holds(cur)
    BY <1>2, <1>5, <1>9 DEF Holds
  <2> QED
    BY <1>1, <1>2, <1>3, <1>5, <1>7, <2>1, <2>2 DEF Once
<1>10. ASSUME cur = 0
       PROVE  Once'
  <2>1. ~Offered(TRUE)' /\ ~Offered(FALSE)'
    BY <1>2, <1>4, <1>10 DEF TypeOK, Offered, OfferSent, Open
  <2> QED
    BY <1>1, <1>2, <1>5, <2>1 DEF Once
<1> QED
  BY <1>1, <1>4, <1>8, <1>9, <1>10 DEF IInv, TypeOK

\* ---- The device

LEMMA QuietHost ==
  ASSUME IInv, UNCHANGED coordinator
  PROVE  HostQuiet /\ cur' = cur /\ pc' = pc /\ session' = session
BY DEF IInv, TypeOK, HostQuiet, coordinator

LEMMA DeviceQuiet ==
  ASSUME IInv, UNCHANGED coordinator, NEW serving, NEW offering,
         \/ OpenWindow \/ Revoke \/ Interrupt \/ Confirmed \/ Unlink \/ Relink
         \/ Lose \/ Cancelled \/ Fail \/ Advance(serving) \/ StatusPoll
         \/ Leave
         \/ \E s \in Sessions : Expire(s, offering)
  PROVE  IInv'
<1>1. TypeOK
  BY DEF IInv
<1>2. HostQuiet /\ cur' = cur
  BY QuietHost
<1>3. CASE OpenWindow \/ Revoke \/ Interrupt \/ Leave
  <2>1. OfferQuiet /\ toDev' = toDev
    BY <1>2, <1>3
       DEF OfferQuiet, OpenWindow, Revoke, Interrupt, Leave, aside, link
  <2> QED
    BY <1>1, <1>2, <2>1, QuietStep DEF LineQuiet, TypeOK
<1>4. CASE \/ Confirmed \/ Unlink \/ Relink \/ Lose
           \/ \E s \in Sessions : Expire(s, offering)
  <2>1. OfferQuiet
    BY <1>2, <1>4
       DEF OfferQuiet, Confirmed, Unlink, Relink, Lose, Expire, receiver
  <2>2. toDev' \in {toDev, <<>>}
    BY <1>1, <1>4, OneLine
       DEF Confirmed, Unlink, Relink, Lose, Expire, Severed, link, TypeOK
  <2>3. LineQuiet
    BY <1>1, <2>2 DEF LineQuiet, TypeOK, Lines, AnyOfferSent, OfferSent
  <2> QED
    BY <1>2, <2>1, <2>3, QuietStep
<1>5. CASE Cancelled \/ Fail \/ Advance(serving) \/ StatusPoll
  <2>1. OfferQuiet /\ toDev' = toDev
    BY <1>2, <1>5
       DEF OfferQuiet, Cancelled, Fail, Advance, StatusPoll, Stop, Enter
  <2> QED
    BY <1>1, <1>2, <2>1, QuietStep DEF LineQuiet, TypeOK
<1> QED
  BY <1>3, <1>4, <1>5

LEMMA ConsumePreserves ==
  ASSUME IInv, UNCHANGED coordinator, NEW u, offer.pending, Consume(u)
  PROVE  IInv'
<1>1. TypeOK /\ Untouched /\ Once
  BY DEF IInv
<1>2. /\ cur' = cur /\ pc' = pc /\ session' = session /\ toDev' = toDev
      /\ late' = late /\ ring' = ring /\ nextSlot' = nextSlot
      /\ offer' = NoOffer
  BY QuietHost DEF Consume, Enter
<1>3. offer.id \in Sessions
  BY <1>1 DEF TypeOK
<1>4. /\ offer.signed =>
           taken[offer.id] = 0 /\ taken' = [taken EXCEPT ![offer.id] = 1]
      /\ ~offer.signed => taken' = taken
  <2>1. offer.signed => taken[offer.id] = 0
    BY <1>1, <1>3 DEF Once, Holds
  <2>2. taken' = IF offer.signed
                   THEN [taken EXCEPT ![offer.id] = taken[offer.id] + 1]
                   ELSE taken
    BY DEF Consume
  <2>3. CASE offer.signed
    <3>1. taken[offer.id] + 1 = 1
      BY <2>1, <2>3
    <3> QED
      BY <2>1, <2>2, <2>3, <3>1
  <2> QED
    BY <2>2, <2>3
<1>5. /\ taken' \in [Sessions -> {0, 1}]
      /\ \A s \in Sessions : ~Holds(s) => taken'[s] = taken[s]
  BY <1>1, <1>3, <1>4 DEF TypeOK, Holds
<1>6. ~NoOffer.pending /\ ~NoOffer.window /\ NoOffer \in Offers
  BY DEF NoOffer, Offers
<1>7. TypeOK'
  BY <1>1, <1>2, <1>5, <1>6 DEF TypeOK
<1>8. Untouched'
  BY <1>1, <1>2, <1>5, <1>6
     DEF Untouched, Holds, AnyOfferSent, OfferSent
<1>9. /\ Offered(TRUE)' <=> Offered(TRUE)
      /\ Offered(FALSE)' <=> Offered(FALSE)
      /\ Offered(TRUE) => cur \in Sessions
      /\ Remembered(cur)' <=> Remembered(cur)
  BY <1>1, <1>2 DEF Offered, OfferSent, Remembered, TypeOK, Open
<1>10. Once'
  BY <1>1, <1>2, <1>5, <1>6, <1>9 DEF Once, Holds
<1> QED
  BY <1>7, <1>8, <1>10 DEF IInv

LEMMA RebootPreserves ==
  ASSUME IInv, UNCHANGED coordinator, NEW d, Reboot(d)
  PROVE  IInv'
<1>1. TypeOK /\ Untouched /\ Once
  BY DEF IInv
<1>2. /\ cur' = cur /\ pc' = pc /\ session' = session /\ toDev' = <<>>
      /\ late' = late /\ ring' = [i \in DOMAIN ring |-> 0] /\ nextSlot' = 0
      /\ offer' = NoOffer /\ taken' = [s \in Sessions |-> 0]
  BY QuietHost DEF Reboot, Severed
<1>3. ~NoOffer.pending /\ ~NoOffer.window /\ NoOffer \in Offers
  BY DEF NoOffer, Offers
<1>4. /\ ring' \in [0..ReplaySlots - 1 -> Sessions \cup {0}]
      /\ nextSlot' \in 0..ReplaySlots - 1
  BY <1>1, <1>2, OtaDeviceAssumption DEF TypeOK
<1>5. TypeOK'
  BY <1>1, <1>2, <1>3, <1>4 DEF TypeOK, Lines
<1>6. Untouched'
  BY <1>2, <1>3 DEF Untouched, Holds, AnyOfferSent, OfferSent
<1>7. /\ Offered(TRUE)' => Offered(TRUE)
      /\ Offered(FALSE)' => Offered(FALSE)
      /\ Offered(TRUE) => cur \in Sessions
  BY <1>1, <1>2 DEF Offered, OfferSent, TypeOK, Open
<1>8. Once'
  <2>1. ~offer'.pending /\ ~offer'.window
    BY <1>2, <1>3
  <2>2. Offered(TRUE)' => taken'[cur'] = 0
    BY <1>2, <1>7
  <2>3. ~(Offered(TRUE)' /\ Offered(FALSE)')
    BY <1>1, <1>7 DEF Once
  <2>4. Offered(TRUE)' => ~(taken'[cur'] = 1)
    BY <2>2
  <2> QED
    BY <2>1, <2>3, <2>4 DEF Once, Holds
<1> QED
  BY <1>5, <1>6, <1>8 DEF IInv

\* What the record holds after an offer was bound to it.
LEMMA Hints ==
  ASSUME NEW o \in Offers, NEW id \in Sessions, NEW clear
  PROVE  LET result == AcceptHint(o, id, clear)
         IN /\ result \in Offers
            /\ result.pending =>
                 /\ o.window /\ result.id = id /\ result.signed = o.signed
                 /\ result.window = o.window
            /\ ~result.pending => ~result.window
<1> DEFINE result == AcceptHint(o, id, clear)
<1>1. ~NoOffer.pending /\ ~NoOffer.window /\ NoOffer \in Offers
  BY DEF NoOffer, Offers
<1>2. CASE result = NoOffer
  BY <1>1, <1>2
<1>3. CASE result # NoOffer
  <2>1. result = [o EXCEPT !.pending = TRUE, !.id = id] /\ o.window
    BY <1>3 DEF AcceptHint
  <2>2. [o EXCEPT !.pending = TRUE, !.id = id] \in Offers
    BY DEF Offers
  <2> QED
    BY <2>1, <2>2 DEF Offers
<1> QED
  BY <1>2, <1>3

\* The line that carries an offer is read; its kind is what the session sends.
LEMMA OfferRead ==
  ASSUME IInv, UNCHANGED coordinator, ReadLine, NEW signed \in BOOLEAN,
         OfferSent(signed)
  PROVE  /\ cur \in Sessions /\ Head(toDev).id = cur /\ toDev' = <<>>
         /\ cur' = cur /\ pc' = pc /\ session' = session
         /\ taken' = taken /\ late' = late
         /\ pc # "probe" /\ Offered(signed)
         /\ \A kind \in BOOLEAN : Offered(kind)' => Offered(kind)
<1>1. TypeOK /\ Untouched
  BY DEF IInv
<1>2. toDev # <<>> /\ Tail(toDev) = <<>> /\ Head(toDev).id = cur
  BY <1>1, OneLine DEF OfferSent, TypeOK
<1>3. cur' = cur /\ pc' = pc /\ session' = session
  BY QuietHost
<1>4. pc # "probe"
  BY <1>1 DEF Untouched, AnyOfferSent
<1> QED
  BY <1>1, <1>2, <1>3, <1>4 DEF ReadLine, TypeOK, Offered, OfferSent

LEMMA SignedOfferPreserves ==
  ASSUME IInv, UNCHANGED coordinator, ReadLine, OfferSent(TRUE),
         SignedOffer(cur)
  PROVE  IInv'
<1>1. TypeOK /\ Untouched /\ Once
  BY DEF IInv
<1>2. /\ cur \in Sessions /\ toDev' = <<>>
      /\ cur' = cur /\ pc' = pc /\ session' = session
      /\ taken' = taken /\ late' = late
      /\ pc # "probe" /\ Offered(TRUE)
      /\ \A kind \in BOOLEAN : Offered(kind)' => Offered(kind)
  BY OfferRead
<1>3. PICK genuine \in BOOLEAN, clear \in BOOLEAN :
        IF genuine /\ cur \notin late /\ ~ReplaySeen(cur)
        THEN /\ Remember(cur)
             /\ offer' = AcceptHint([NoOffer EXCEPT !.window = TRUE,
                                      !.signed = TRUE], cur, clear)
        ELSE /\ ring' \in {ring, Fresh(ring)}
             /\ offer' = NoOffer /\ nextSlot' = nextSlot
  BY DEF SignedOffer, Answer
<1>4. CASE genuine /\ cur \notin late /\ ~ReplaySeen(cur)
  <2>1. ~Remembered(cur)
    BY <1>1, <1>4, FreshRing DEF Remembered, ReplaySeen
  <2>2. taken[cur] = 0
    BY <1>1, <1>2, <2>1 DEF Once, TypeOK
  <2>3. offer' \in Offers /\ (offer'.pending => offer'.id = cur)
    <3>1. [NoOffer EXCEPT !.window = TRUE, !.signed = TRUE] \in Offers
      BY DEF NoOffer, Offers
    <3> QED
      BY <1>2, <1>3, <1>4, <3>1, Hints
  <2>4. /\ ring' = [Fresh(ring) EXCEPT ![nextSlot] = cur]
        /\ nextSlot' = (nextSlot + 1) % ReplaySlots
    BY <1>3, <1>4 DEF Remember
  <2>5. /\ ring' \in [0..ReplaySlots - 1 -> Sessions \cup {0}]
        /\ ring'[nextSlot] = cur /\ nextSlot \in DOMAIN ring'
    BY <1>1, <1>2, <2>4, FreshRing DEF TypeOK
  <2>6. nextSlot' \in 0..ReplaySlots - 1
    BY <1>1, <2>4, OtaDeviceAssumption DEF TypeOK
  <2>7. TypeOK'
    BY <1>1, <1>2, <2>3, <2>5, <2>6 DEF TypeOK, Lines
  <2>8. Untouched'
    BY <1>1, <1>2, <2>3
       DEF Untouched, Holds, AnyOfferSent, OfferSent, TypeOK
  <2>9. Remembered(cur)' /\ ~Offered(FALSE)'
    BY <1>1, <1>2, <2>5 DEF Remembered, Once
  <2>10. \A s \in Sessions : Holds(s)' => taken'[s] = 0
    BY <1>2, <2>2, <2>3 DEF Holds
  <2>11. Once'
    BY <2>9, <2>10 DEF Once, Remembered
  <2> QED
    BY <2>7, <2>8, <2>11 DEF IInv
<1>5. CASE ~(genuine /\ cur \notin late /\ ~ReplaySeen(cur))
  <2>1. OfferQuiet
    BY <1>2, <1>3, <1>5 DEF OfferQuiet
  <2>2. LineQuiet
    BY <1>2 DEF LineQuiet, Lines, AnyOfferSent, OfferSent
  <2> QED
    BY <2>1, <2>2, QuietStep, QuietHost
<1> QED
  BY <1>4, <1>5

LEMMA LegacyOfferPreserves ==
  ASSUME IInv, UNCHANGED coordinator, ReadLine, OfferSent(FALSE),
         LegacyOffer(cur)
  PROVE  IInv'
<1>1. TypeOK /\ Untouched /\ Once
  BY DEF IInv
<1>2. /\ cur \in Sessions /\ toDev' = <<>>
      /\ cur' = cur /\ pc' = pc /\ session' = session
      /\ taken' = taken /\ late' = late
      /\ pc # "probe" /\ Offered(FALSE)
      /\ \A kind \in BOOLEAN : Offered(kind)' => Offered(kind)
  BY OfferRead
<1>3. PICK clear \in BOOLEAN : offer' = AcceptHint(offer, cur, clear)
  BY DEF LegacyOffer, Answer
<1>4. UNCHANGED <<ring, nextSlot>>
  BY DEF LegacyOffer
<1>5. /\ offer' \in Offers
      /\ offer'.pending =>
           /\ offer.window /\ offer'.id = cur
           /\ offer'.signed = offer.signed /\ offer'.window = offer.window
      /\ ~offer'.pending => ~offer'.window
  BY <1>1, <1>2, <1>3, Hints DEF TypeOK
<1>6. TypeOK'
  BY <1>1, <1>2, <1>4, <1>5 DEF TypeOK, Lines
<1>7. Untouched'
  BY <1>1, <1>2, <1>5, OtaDeviceAssumption
     DEF Untouched, Holds, AnyOfferSent, OfferSent, TypeOK
<1>8. ~Offered(TRUE)'
  BY <1>1, <1>2 DEF Once
<1>9. \A s \in Sessions : Holds(s)' => taken'[s] = 0
  BY <1>1, <1>2, <1>5 DEF Holds, Once
<1>10. offer'.window /\ offer'.signed => taken'[cur'] = 0
  BY <1>1, <1>2, <1>5 DEF Once
<1>11. Once'
  BY <1>8, <1>9, <1>10 DEF Once
<1> QED
  BY <1>6, <1>7, <1>11 DEF IInv

LEMMA ReadLinePreserves ==
  ASSUME IInv, UNCHANGED coordinator, ReadLine
  PROVE  IInv'
<1>1. TypeOK
  BY DEF IInv
<1>2. /\ toDev # <<>> /\ toDev' = <<>>
      /\ Head(toDev).id = cur /\ Head(toDev).signed \in BOOLEAN
  BY <1>1, OneLine DEF ReadLine, TypeOK
<1>3. CASE OfferLine(Head(toDev))
  <2>1. CASE Head(toDev).signed = TRUE
    <3>1. OfferSent(TRUE) /\ SignedOffer(cur)
      BY <1>2, <1>3, <2>1 DEF OfferLine, OfferSent
    <3> QED
      BY <3>1, SignedOfferPreserves
  <2>2. CASE Head(toDev).signed = FALSE
    <3>1. OfferSent(FALSE) /\ LegacyOffer(cur)
      BY <1>2, <1>3, <2>2 DEF OfferLine, OfferSent
    <3> QED
      BY <3>1, LegacyOfferPreserves
  <2> QED
    BY <1>2, <2>1, <2>2
<1>4. CASE ProbeLine(Head(toDev)) \/ CancelLine(Head(toDev))
  <2>1. OfferQuiet
    BY <1>4, QuietHost
       DEF OfferQuiet, ReadLine, ProbeLine, CancelLine, receiver
  <2>2. LineQuiet
    BY <1>2, QuietHost DEF LineQuiet, Lines, AnyOfferSent, OfferSent
  <2> QED
    BY <2>1, <2>2, QuietStep, QuietHost
<1> QED
  BY <1>3, <1>4 DEF ReadLine

LEMMA ArmPreserves ==
  ASSUME IInv, UNCHANGED coordinator, Arm
  PROVE  IInv'
<1>1. TypeOK
  BY DEF IInv
<1>2. PICK u :
        /\ offer.pending
        /\ \/ Consume(u)
           \/ Stop("cancelled")
           \/ Enter(u, offer) /\ UNCHANGED taken
  BY DEF Arm
<1>3. CASE Consume(u)
  BY <1>2, <1>3, ConsumePreserves
<1>4. CASE Stop("cancelled") \/ (Enter(u, offer) /\ UNCHANGED taken)
  <2>1. OfferQuiet /\ toDev' = toDev
    BY <1>4, QuietHost DEF OfferQuiet, Stop, Enter
  <2>2. LineQuiet
    BY <1>1, <2>1, QuietHost DEF LineQuiet, TypeOK
  <2> QED
    BY <2>1, <2>2, QuietStep, QuietHost
<1> QED
  BY <1>2, <1>3, <1>4

LEMMA DevicePreserves ==
  ASSUME IInv, Device
  PROVE  IInv'
<1>1. UNCHANGED coordinator /\ DeviceStep(Serving, Offering)
  BY DEF Device
<1>2. CASE ReadLine
  BY <1>1, <1>2, ReadLinePreserves
<1>3. CASE Arm
  BY <1>1, <1>3, ArmPreserves
<1>4. CASE Confirm
  BY <1>1, <1>4, ConsumePreserves DEF Confirm
<1>5. CASE Restart
  BY <1>1, <1>5, RebootPreserves DEF Restart
<1>6. CASE \/ OpenWindow \/ Revoke \/ Interrupt \/ Confirmed \/ Unlink
           \/ Relink \/ Lose \/ Cancelled \/ Fail \/ Advance(Serving)
           \/ StatusPoll \/ Leave \/ \E s \in Sessions : Expire(s, Offering)
  BY <1>1, <1>6, DeviceQuiet
<1> QED
  BY <1>1, <1>2, <1>3, <1>4, <1>5, <1>6 DEF DeviceStep, Poll

\* ---- The host

offerState == <<cur, taken, ring, nextSlot, late, offer>>

LEMMA HostStill ==
  ASSUME IInv, UNCHANGED offerState, LineQuiet, HostQuiet
  PROVE  IInv'
BY QuietStep DEF OfferQuiet, offerState

\* A line that carries no offer.
LEMMA OtherLine ==
  ASSUME IInv, cur # 0, NEW cmd \in {"ota_status", "ota_cancel"},
         Send(Line(cmd))
  PROVE  LineQuiet
<1>1. toDev' = <<[cmd |-> cmd, id |-> cur, signed |-> FALSE]>>
  BY DEF Send, Line
<1>2. toDev' \in Lines(cur) /\ toDev' # <<>> /\ Head(toDev').cmd = cmd
  BY <1>1, SentLine
<1> QED
  BY <1>2 DEF LineQuiet, AnyOfferSent, OfferSent

LEMMA SameLine ==
  ASSUME IInv, toDev' = toDev
  PROVE  LineQuiet
BY DEF IInv, TypeOK, LineQuiet

LEMMA EndQuiet ==
  ASSUME IInv, NEW q, NEW c, NEW v, cur # 0, End(q, c, v)
  PROVE  HostQuiet
<1>1. /\ pc' = "over"
      /\ \E phase : session' = [NewSession EXCEPT !.phase = phase]
  BY DEF End
<1> QED
  BY <1>1 DEF HostQuiet, NewSession

LEMMA BeginPreserves ==
  ASSUME IInv, Begin
  PROVE  IInv'
<1>1. TypeOK /\ Untouched /\ Once
  BY DEF IInv
<1>2. /\ cur' = cur + 1 /\ cur + 1 \in Sessions /\ pc' = "probe"
      /\ session' = NewSession
      /\ UNCHANGED <<taken, ring, nextSlot, late, offer>>
  BY DEF Begin, StillDevice, still, receiver
<1> DEFINE line == [Line("ota_status") EXCEPT !.id = cur + 1]
<1>3. /\ line \in [cmd : {"offer", "ota_status", "ota_cancel"},
                  id : {cur + 1}, signed : BOOLEAN]
      /\ line.cmd = "ota_status"
  BY DEF Line
<1>4. /\ toDev' \in Lines(cur') /\ toDev' # <<>>
      /\ Head(toDev').cmd = "ota_status"
  <2>1. toDev' = <<line>>
    BY DEF Begin, Send
  <2> HIDE DEF line
  <2> QED
    BY <1>2, <1>3, <2>1 DEF Lines
<1>5. cur \in Nat /\ Sessions \subseteq Nat
  BY <1>1, OtaDeviceAssumption DEF TypeOK
<1>6. TypeOK'
  BY <1>1, <1>2, <1>4, <1>5 DEF TypeOK, NewSession
<1>7. \A signed \in BOOLEAN : ~Offered(signed)' /\ ~OfferSent(signed)'
  BY <1>2, <1>4 DEF Offered, OfferSent, Open
<1>8. Untouched'
  <2>1. \A s \in Sessions : s > cur' \/ s = cur' => s > cur
    BY <1>2, <1>5
  <2> QED
    BY <1>1, <1>2, <1>7, <2>1 DEF Untouched, Holds, AnyOfferSent
<1>9. \A s \in Sessions : Holds(s)' => taken'[s] = 0
  BY <1>1, <1>2 DEF Once, Holds
<1>10. Once'
  BY <1>7, <1>9 DEF Once
<1> QED
  BY <1>6, <1>8, <1>10 DEF IInv

\* The first offer of a session is about to be sent: nothing of it is on
\* the device yet.
LEMMA FirstOffer ==
  ASSUME IInv, UNCHANGED offerState, toDev' = toDev, cur # 0,
         pc = "probe", pc' = "send",
         "signed" \in DOMAIN session', session'.signed \in BOOLEAN
  PROVE  IInv'
<1>1. TypeOK /\ Untouched /\ Once
  BY DEF IInv
<1>2. UNCHANGED <<cur, taken, ring, nextSlot, late, offer>>
  BY DEF offerState
<1>3. TypeOK'
  BY <1>1, <1>2 DEF TypeOK, Open
<1>4. Untouched'
  BY <1>1, <1>2 DEF Untouched, Holds
<1>5. /\ taken[cur] = 0 /\ ~Holds(cur)
      /\ \A signed \in BOOLEAN : ~OfferSent(signed)'
  BY <1>1, <1>2 DEF Untouched, TypeOK, AnyOfferSent, OfferSent
<1>6. \A signed \in BOOLEAN : Offered(signed)' => session'.signed = signed
  BY <1>5 DEF Offered
<1>7. ~(Offered(TRUE)' /\ Offered(FALSE)')
  BY <1>6
<1>8. \A s \in Sessions : Holds(s)' => taken'[s] = 0
  BY <1>1, <1>2 DEF Once, Holds
<1>9. taken'[cur'] = 0 /\ ~Holds(cur)'
  BY <1>2, <1>5 DEF Holds
<1>10. Once'
  <2>1. ~Holds(cur)' /\ ~(taken[cur] = 1)'
    BY <1>9
  <2>2. (taken[cur] = 0)'
    BY <1>9
  <2> QED
    BY <1>7, <1>8, <2>1, <2>2 DEF Once
<1> QED
  BY <1>3, <1>4, <1>10 DEF IInv

LEMMA SendOfferPreserves ==
  ASSUME IInv, SendOffer
  PROVE  IInv'
<1>1. TypeOK /\ Untouched /\ Once /\ cur # 0 /\ pc = "send"
  BY DEF IInv, TypeOK, SendOffer
<1>2. UNCHANGED offerState
  BY DEF SendOffer, StillDevice, still, receiver, offerState
<1>3. CASE \E q, c, v : End(q, c, v) /\ toDev' = toDev
  BY <1>1, <1>2, <1>3, EndQuiet, SameLine, HostStill
<1>4. CASE /\ pc' = "offer" /\ session' = session
           /\ Send([Line("offer") EXCEPT !.signed = session.signed])
  <2>1. toDev' = <<[cmd |-> "offer", id |-> cur, signed |-> session.signed]>>
    BY <1>4 DEF Send, Line
  <2>2. /\ toDev' \in Lines(cur) /\ toDev' # <<>>
        /\ Head(toDev').cmd = "offer"
        /\ Head(toDev').signed = session.signed
    BY <1>1, <2>1, SentLine DEF TypeOK
  <2>3. UNCHANGED <<cur, taken, ring, nextSlot, late, offer>>
    BY <1>2 DEF offerState
  <2>4. TypeOK'
    BY <1>1, <1>4, <2>2, <2>3 DEF TypeOK, Open
  <2>5. Untouched'
    BY <1>1, <1>4, <2>3 DEF Untouched, Holds
  <2>6. \A signed \in BOOLEAN : Offered(signed)' => Offered(signed)
    BY <1>1, <1>4, <2>2 DEF Offered, OfferSent, Open
  <2>7. Remembered(cur)' <=> Remembered(cur)
    BY <2>3 DEF Remembered
  <2>8. Once'
    BY <1>1, <2>3, <2>6, <2>7 DEF Once, Holds
  <2> QED
    BY <2>4, <2>5, <2>8 DEF IInv
<1> QED
  BY <1>3, <1>4 DEF SendOffer

\* What the host keeps of its session, in every branch of a status.
Keeps(q) == "signed" \in DOMAIN q /\ q.signed = session.signed

LEMMA TryAgainQuiet ==
  ASSUME IInv, NEW q, NEW c, Keeps(q), pc \in Open, TryAgain(q, c)
  PROVE  HostQuiet
<1>1. cur # 0 /\ session.signed \in BOOLEAN
  BY DEF IInv, TypeOK, Open
<1>2. CASE pc' = "send" /\ session' = q
  BY <1>1, <1>2 DEF HostQuiet, Keeps, Open
<1>3. CASE End(q, c, "failed")
  BY <1>1, <1>3, EndQuiet
<1> QED
  BY <1>2, <1>3 DEF TryAgain

LEMMA TakeQuiet ==
  ASSUME IInv, NEW st, NEW q, NEW c, Keeps(q), pc \in Open,
         Take(st, q, c)
  PROVE  HostQuiet
<1>1. cur # 0 /\ session.signed \in BOOLEAN /\ pc # "probe"
  BY DEF IInv, TypeOK, Open
<1>2. CASE \E v : End(q, c, v)
  BY <1>1, <1>2, EndQuiet
<1>3. CASE TryAgain(q, c)
  BY <1>3, TryAgainQuiet
<1>4. CASE session' = q /\ pc' = pc
  BY <1>1, <1>4 DEF HostQuiet, Keeps
<1>5. CASE Progress(st, q, c)
  BY <1>1, <1>5 DEF HostQuiet, Keeps, Progress, Open
<1> QED
  BY <1>1, <1>2, <1>3, <1>4, <1>5 DEF Take, Ended

LEMMA ReceivePreserves ==
  ASSUME IInv, Receive
  PROVE  IInv'
<1> DEFINE st == Head(toHost)
           answers == session.sent /\ (st.applied \/ st.phase \in Refusals)
           q == IF answers THEN Finished(session, st.applied) ELSE session
           c == IF answers THEN Answered(call, session, st.applied) ELSE call
<1>1. TypeOK /\ cur # 0 /\ pc \in {"probe"} \cup Open
  BY DEF IInv, TypeOK, Receive, Receiving, Open
<1>2. UNCHANGED offerState
  BY DEF Receive, StillDevice, still, receiver, offerState
<1>3. Keeps(q)
  BY <1>1 DEF Keeps, Finished, TypeOK
<1>4. CASE UNCHANGED <<pc, session, toDev>>
  BY <1>1, <1>2, <1>4, SameLine, HostStill DEF HostQuiet, TypeOK
<1>5. CASE session' = q /\ pc' = pc /\ Send(Line("ota_status"))
  <2>1. HostQuiet
    BY <1>1, <1>3, <1>5 DEF HostQuiet, Keeps, TypeOK
  <2> QED
    BY <1>1, <1>2, <1>5, <2>1, OtherLine, HostStill
<1>6. CASE Take(st, q, c) /\ toDev' = toDev
  <2>1. CASE pc \in Open
    BY <1>2, <1>3, <1>6, <2>1, TakeQuiet, SameLine, HostStill
  <2>2. CASE pc = "probe"
    <3>1. Probed(st, q, c)
      BY <1>6, <2>2 DEF Take
    <3>2. CASE End(q, c, "failed")
      BY <1>1, <1>2, <1>6, <3>2, EndQuiet, SameLine, HostStill
    <3>3. CASE /\ pc' = "send"
               /\ session' = [q EXCEPT !.phase = "offer-sent",
                                       !.signed = st.version >= SignedFrom]
      <4>1. "signed" \in DOMAIN session' /\ session'.signed \in BOOLEAN
        BY <1>3, <3>3 DEF Keeps
      <4> QED
        BY <1>1, <1>2, <1>6, <2>2, <3>3, <4>1, FirstOffer
    <3> QED
      BY <3>1, <3>2, <3>3 DEF Probed
  <2> QED
    BY <1>1, <2>1, <2>2
<1> QED
  BY <1>4, <1>5, <1>6 DEF Receive

LEMMA HostPreserves ==
  ASSUME IInv, Host
  PROVE  IInv'
<1>1. TypeOK
  BY DEF IInv
<1>2. Keeps(session) /\ session.signed \in BOOLEAN
  BY <1>1 DEF Keeps, TypeOK
<1>3. CASE Begin \/ SendOffer \/ Receive
  BY <1>3, BeginPreserves, SendOfferPreserves, ReceivePreserves
<1>4. CASE Cancel
  <2>1. HostQuiet
    BY <1>1, <1>4 DEF HostQuiet, Cancel, TypeOK
  <2> QED
    BY <1>4, <2>1, SameLine, HostStill
       DEF Cancel, deviceVars, link, receiver, offerState
<1>5. CASE CancelTimesOut
  <2>1. HostQuiet
    BY <1>1, <1>5 DEF HostQuiet, CancelTimesOut, TypeOK
  <2> QED
    BY <1>5, <2>1, SameLine, HostStill
       DEF CancelTimesOut, still, receiver, offerState
<1>6. CASE CancelReturns
  <2>1. HostQuiet
    BY <1>1, <1>6 DEF HostQuiet, CancelReturns, TypeOK
  <2> QED
    BY <1>6, <2>1, SameLine, HostStill
       DEF CancelReturns, deviceVars, link, receiver, offerState
<1>7. CASE SendCancel
  <2>1. UNCHANGED offerState /\ cur # 0
    BY <1>1, <1>7
       DEF SendCancel, StillDevice, still, receiver, offerState, Receiving,
           TypeOK
  <2>2. HostQuiet
    BY <1>1, <1>2, <1>7 DEF HostQuiet, SendCancel, Finished, TypeOK
  <2>3. LineQuiet
    BY <1>7, <2>1, SameLine, OtherLine DEF SendCancel
  <2> QED
    BY <2>1, <2>2, <2>3, HostStill
<1>8. CASE TimesOut
  <2>1. cur # 0 /\ (pc = "offer" => pc \in Open)
    BY <1>1, <1>8 DEF TimesOut, TypeOK, Open
  <2>2. HostQuiet
    BY <1>2, <1>8, <2>1, TryAgainQuiet, EndQuiet DEF TimesOut
  <2> QED
    BY <1>8, <2>2, SameLine, HostStill
       DEF TimesOut, hostAside, deviceVars, link, receiver, offerState
<1>9. CASE LinkFails
  <2>1. cur # 0
    BY <1>1, <1>9 DEF LinkFails, Receiving, TypeOK
  <2>2. HostQuiet
    BY <1>1, <1>9, <2>1, EndQuiet DEF LinkFails, HostQuiet, TypeOK
  <2> QED
    BY <1>9, <2>2, SameLine, HostStill
       DEF LinkFails, hostAside, deviceVars, link, receiver, offerState
<1>10. CASE Probe
  <2>1. HostQuiet /\ cur # 0
    BY <1>1, <1>10 DEF HostQuiet, Probe, TypeOK
  <2> QED
    BY <1>10, <2>1, OtherLine, HostStill
       DEF Probe, StillDevice, still, receiver, offerState
<1>11. CASE Shutdown
  <2>1. HostQuiet
    BY <1>11 DEF HostQuiet, Shutdown, NewSession
  <2> QED
    BY <1>11, <2>1, SameLine, HostStill
       DEF Shutdown, hostAside, deviceVars, link, receiver, offerState
<1> QED
  BY <1>3, <1>4, <1>5, <1>6, <1>7, <1>8, <1>9, <1>10, <1>11 DEF Host

LEMMA InitIInv ==
  ASSUME SystemInit
  PROVE  IInv
<1>1. /\ cur = 0 /\ pc = "over" /\ toDev = <<>> /\ session = NewSession
      /\ taken = [s \in Sessions |-> 0] /\ offer = NoOffer
      /\ ring = [i \in 0..ReplaySlots - 1 |-> 0] /\ nextSlot = 0
  BY DEF SystemInit, Init, HostInit
<1>2. ~NoOffer.pending /\ ~NoOffer.window /\ NoOffer \in Offers
  BY DEF NoOffer, Offers
<1>3. TypeOK
  BY <1>1, <1>2, OtaDeviceAssumption DEF TypeOK, Lines, NewSession
<1>4. Untouched
  BY <1>1, <1>2 DEF Untouched, Holds
<1>5. Once
  BY <1>1, <1>2 DEF Once, Holds, Offered, OfferSent, Open
<1> QED
  BY <1>3, <1>4, <1>5 DEF IInv

LEMMA StutterPreserves ==
  ASSUME IInv, UNCHANGED vars
  PROVE  IInv'
<1>1. HostQuiet
  BY DEF IInv, TypeOK, HostQuiet, vars, coordinator
<1> QED
  BY <1>1, SameLine, HostStill
     DEF vars, deviceVars, link, receiver, coordinator, offerState

\* What the two ends know of each session's offers: a session sends offers of
\* one kind, nothing of it was taken before the first is sent, and a signed
\* one that is taken, or may be, is remembered by the ring or has run out.
THEOREM Invariant == Spec => []IInv
<1>1. SystemInit => IInv
  BY InitIInv
<1>2. IInv /\ [SystemNext]_vars => IInv'
  BY HostPreserves, DevicePreserves, StutterPreserves DEF SystemNext
<1> QED
  BY <1>1, <1>2, PTL DEF Spec

\* A signed offer starts at most one update while the device stays up
\* (otaAuthorizationReplaySeen, otaAuthorizationRemember): one slot would do
\* for that, since a session's copies come one after the other.
THEOREM SignedOffersAreTakenOnce == Spec => []SignedOfferTakenOnce
<1>1. IInv => SignedOfferTakenOnce
  BY DEF IInv, TypeOK, SignedOfferTakenOnce
<1> QED
  BY <1>1, Invariant, PTL

\* ---- What runs, what is told of it, and what the host makes of it

Phases == {"await-confirm", "accepted", "readback", "cancelled", "error",
           "boot-committed", "boot-health", "running", "rejected",
           "offer-received"}
Healths == {"ordinary", "monitoring", "valid", "rollback"}
Devices == [fw : Versions, prev : Versions, health : Healths]
Updates == [active : BOOLEAN, auto : BOOLEAN, cancelReq : BOOLEAN,
            phase : Cancellable \cup Terminal \cup {"committed"},
            id : Sessions \cup {0}]
Statuses == [to : Sessions \cup {0}, phase : Phases, version : Versions,
             health : Healths, applied : BOOLEAN]
LetIn == {"accepted", "readback", "committed"}

Typed ==
  /\ target \in [Sessions -> Versions]
  /\ dev \in Devices /\ up \in Updates /\ bound \in Sessions \cup {0}
  /\ toHost \in Seq(Statuses)
  /\ installed \subseteq Sessions
  /\ verdict \in [Sessions -> Verdicts]
  /\ "irreversible" \in DOMAIN session

Live == pc \notin {"over", "stopped"}
Late == \E s \in installed : verdict[s] # "success"

\* What may be installed is newer than what runs, and what runs on trial is
\* newer than what is kept if it fails.
Ahead ==
  /\ dev.prev <= dev.fw
  /\ dev.health = "monitoring" =>
       dev.prev < dev.fw /\ \E s \in installed : target[s] = dev.fw
  /\ offer.pending => target[offer.id] > dev.fw
  /\ up.phase \in LetIn => up.id \in Sessions /\ target[up.id] > dev.fw
  /\ up.phase = "committed" => up.id \in installed

\* Only the present session is without a report, and what was a success is
\* kept, or something newer.
Reported ==
  /\ \A s \in Sessions : verdict[s] = "success" => target[s] <= Kept
  /\ \A s \in Sessions : s > cur \/ (s = cur /\ Live) => verdict[s] = "open"
  /\ Live /\ session.irreversible => Late

\* A status on its way to the host is about an image that is kept, or one that
\* was chosen to start.
Truthful(st) ==
  /\ st.health = "valid" => st.version <= Kept
  /\ Live /\ st.to = cur /\ st.phase \in IrreversiblePhases => Late
Waiting(q) == {q[i] : i \in 1..Len(q)}
Told == \A st \in Waiting(toHost) : Truthful(st)

Informed == Typed /\ Ahead /\ Reported /\ Told

LEMMA Queue ==
  ASSUME NEW q \in Seq(Statuses)
  PROVE  /\ \A st \in Statuses :
              /\ Put(q, st) \in Seq(Statuses)
              /\ Waiting(Put(q, st)) \subseteq Waiting(q) \cup {st}
         /\ q # <<>> => /\ Head(q) \in Statuses /\ Head(q) \in Waiting(q)
                        /\ Tail(q) \in Seq(Statuses)
                        /\ Waiting(Tail(q)) \subseteq Waiting(q)
         /\ <<>> \in Seq(Statuses) /\ Waiting(<<>>) = {}
<1>1. ASSUME NEW st \in Statuses
      PROVE  /\ Put(q, st) \in Seq(Statuses)
             /\ Waiting(Put(q, st)) \subseteq Waiting(q) \cup {st}
  <2>1. /\ Append(q, st) \in Seq(Statuses)
        /\ Len(Append(q, st)) = Len(q) + 1
        /\ \A i \in 1..Len(q) + 1 :
             Append(q, st)[i] = IF i <= Len(q) THEN q[i] ELSE st
    OBVIOUS
  <2>2. Waiting(Append(q, st)) \subseteq Waiting(q) \cup {st}
    BY <2>1 DEF Waiting
  <2> QED
    BY <2>1, <2>2 DEF Put
<1>2. ASSUME q # <<>>
      PROVE  /\ Head(q) \in Statuses /\ Head(q) \in Waiting(q)
             /\ Tail(q) \in Seq(Statuses)
             /\ Waiting(Tail(q)) \subseteq Waiting(q)
  <2>1. /\ Head(q) = q[1] /\ Len(q) >= 1 /\ Len(q) \in Nat
        /\ q[1] \in Statuses
        /\ Tail(q) \in Seq(Statuses) /\ Len(Tail(q)) = Len(q) - 1
        /\ \A i \in 1..Len(q) - 1 : Tail(q)[i] = q[i + 1]
    BY <1>2
  <2> QED
    BY <2>1 DEF Waiting
<1>3. <<>> \in Seq(Statuses) /\ Len(<<>>) = 0
  OBVIOUS
<1>4. Waiting(<<>>) = {}
  BY <1>3 DEF Waiting
<1> QED
  BY <1>1, <1>2, <1>3, <1>4

\* Versions are numbers, and what is kept is not newer than what runs.
LEMMA KeptVersion ==
  ASSUME Typed, Ahead
  PROVE  /\ Versions \subseteq Nat /\ Sessions \subseteq Nat
         /\ dev.fw \in Nat /\ dev.prev \in Nat /\ Kept \in Nat
         /\ Kept <= dev.fw /\ dev.prev <= Kept
         /\ \A s \in Sessions : target[s] \in Nat
<1>1. Versions \subseteq Nat /\ Sessions \subseteq Nat
  BY OtaDeviceAssumption
<1>2. /\ dev.fw \in Versions /\ dev.prev \in Versions
      /\ \A s \in Sessions : target[s] \in Versions
  BY DEF Typed, Devices
<1>3. Kept = dev.prev \/ Kept = dev.fw
  BY DEF Kept
<1>4. dev.prev <= dev.fw
  BY DEF Ahead
<1>5. /\ dev.fw \in Nat /\ dev.prev \in Nat
      /\ \A s \in Sessions : target[s] \in Nat
  BY <1>1, <1>2
<1>6. Kept \in Nat /\ Kept <= dev.fw /\ dev.prev <= Kept
  BY <1>3, <1>4, <1>5
<1> QED
  BY <1>1, <1>5, <1>6

\* Of an image newer than the one that is kept, no success was reported.
LEMMA NewerIsLate ==
  ASSUME Typed, Ahead, Reported, NEW s \in Sessions, target[s] > Kept
  PROVE  verdict[s] # "success"
BY KeptVersion DEF Reported

LEMMA OnTrialIsLate ==
  ASSUME Typed, Ahead, Reported, dev.health = "monitoring"
  PROVE  Late
<1>1. PICK s \in installed : target[s] = dev.fw
  BY DEF Ahead
<1>2. s \in Sessions /\ target[s] > Kept
  BY <1>1, KeptVersion DEF Typed, Ahead, Kept
<1> QED
  BY <1>1, <1>2, NewerIsLate DEF Late

LEMMA CommittedIsLate ==
  ASSUME Typed, Ahead, Reported, up.phase = "committed"
  PROVE  Late
<1>1. up.id \in installed /\ up.id \in Sessions /\ target[up.id] > Kept
  BY KeptVersion DEF Ahead, LetIn
<1> QED
  BY <1>1, NewerIsLate DEF Late

\* ---- The device and its statuses

\* A step in which the firmware stays, and at most one status is sent: of the
\* image that was chosen to start, or of the one that is on trial.
Sends(id, phase, applied) ==
  /\ id \in Sessions \cup {0} /\ phase \in Phases /\ applied \in BOOLEAN
  /\ toHost' \in {toHost, Put(toHost, Status(id, phase, applied))}
  /\ phase = "boot-committed" => Late'
  /\ phase = "boot-health" => dev.health = "monitoring"

LEMMA SendsTold ==
  ASSUME Informed, UNCHANGED <<coordinator, history, target, dev>>,
         installed \subseteq installed',
         NEW id, NEW phase, NEW applied, Sends(id, phase, applied)
  PROVE  /\ toHost' \in Seq(Statuses) /\ Reported' /\ Told'
         /\ verdict' = verdict /\ "irreversible" \in DOMAIN session'
<1>1. Typed /\ Ahead /\ Reported /\ Told
  BY DEF Informed
<1>2. /\ UNCHANGED <<cur, pc, session, verdict, target, dev>>
      /\ Kept' = Kept /\ Live' = Live
  BY DEF coordinator, history, Kept, Live
<1>3. Late => Late'
  BY <1>2 DEF Late
<1>4. Reported'
  BY <1>1, <1>2, <1>3 DEF Reported
<1> DEFINE st == Status(id, phase, applied)
<1>5. /\ st \in Statuses /\ st.phase = phase
      /\ st.health = dev.health /\ st.version = dev.fw
  BY <1>1 DEF Sends, Status, Statuses, Typed, Devices
<1>6. ASSUME NEW s, s = st
      PROVE  Truthful(s)'
  <2>1. s.health = dev.health /\ s.version = dev.fw /\ s.phase = phase
    BY <1>5, <1>6
  <2>2. dev.health = "valid" => Kept = dev.fw
    BY DEF Kept
  <2>3. dev.health = "valid" => dev.fw <= Kept
    BY <1>1, <2>2, KeptVersion
  <2>4. phase \in IrreversiblePhases => Late'
    BY <1>1, <1>3, OnTrialIsLate DEF Sends, IrreversiblePhases
  <2> QED
    BY <1>2, <2>1, <2>3, <2>4 DEF Truthful
<1>7. \A s : Truthful(s) => Truthful(s)'
  BY <1>2, <1>3 DEF Truthful
<1>8. /\ toHost' \in Seq(Statuses)
      /\ Waiting(toHost') \subseteq Waiting(toHost) \cup {st}
  <2> HIDE DEF st
  <2>1. toHost \in Seq(Statuses) /\ toHost' \in {toHost, Put(toHost, st)}
    BY <1>1 DEF Typed, Sends, st
  <2> QED
    BY <1>5, <2>1, Queue
<1>9. Told'
  <2> SUFFICES ASSUME NEW s \in Waiting(toHost')
               PROVE  Truthful(s)'
    BY DEF Told
  <2>1. s \in Waiting(toHost) \/ s = st
    BY <1>8
  <2>2. s \in Waiting(toHost) => Truthful(s)
    BY <1>1 DEF Told
  <2> HIDE DEF st
  <2> QED
    BY <1>6, <1>7, <2>1, <2>2
<1> QED
  BY <1>1, <1>2, <1>4, <1>8, <1>9 DEF Typed

\* A step in which statuses are at most lost.
LEMMA LosesTold ==
  ASSUME Informed, UNCHANGED <<coordinator, history, target, dev, installed>>,
         \/ toHost' \in {toHost, <<>>}
         \/ toHost # <<>> /\ toHost' = Tail(toHost)
  PROVE  /\ toHost' \in Seq(Statuses) /\ Reported' /\ Told'
         /\ verdict' = verdict /\ "irreversible" \in DOMAIN session'
<1>1. Typed /\ Reported /\ Told
  BY DEF Informed
<1>2. /\ UNCHANGED <<cur, pc, session, verdict, target, dev, installed>>
      /\ Kept' = Kept /\ Live' = Live /\ Late' = Late
  BY DEF coordinator, history, Kept, Live, Late
<1>3. Reported'
  BY <1>1, <1>2 DEF Reported
<1>4. /\ toHost' \in Seq(Statuses)
      /\ Waiting(toHost') \subseteq Waiting(toHost)
  <2>1. toHost \in Seq(Statuses)
    BY <1>1 DEF Typed
  <2>2. CASE toHost' = toHost
    BY <2>1, <2>2
  <2>3. CASE toHost' = <<>>
    BY <2>1, <2>3, Queue
  <2>4. CASE toHost # <<>> /\ toHost' = Tail(toHost)
    BY <2>1, <2>4, Queue
  <2> QED
    BY <2>2, <2>3, <2>4
<1>5. Told'
  BY <1>1, <1>2, <1>4 DEF Told, Truthful
<1> QED
  BY <1>1, <1>2, <1>3, <1>4, <1>5 DEF Typed

LEMMA NothingOffered == NoOffer.pending = FALSE
BY DEF NoOffer

LEMMA AsideInforms ==
  ASSUME Informed, UNCHANGED <<coordinator, history>>, NEW offering,
         \/ OpenWindow \/ Revoke \/ Interrupt \/ Leave
         \/ Unlink \/ Relink \/ Lose
         \/ \E s \in Sessions : Expire(s, offering)
  PROVE  Informed'
<1>1. Typed /\ Ahead
  BY DEF Informed
<1>2. /\ UNCHANGED <<target, dev, installed, bound>>
      /\ \/ toHost' \in {toHost, <<>>}
         \/ toHost # <<>> /\ toHost' = Tail(toHost)
  BY DEF OpenWindow, Revoke, Interrupt, Leave, Unlink, Relink, Lose, Expire,
         Severed, aside, link, receiver
<1>3. /\ toHost' \in Seq(Statuses) /\ Reported' /\ Told'
      /\ verdict' = verdict /\ "irreversible" \in DOMAIN session'
  BY <1>2, LosesTold
<1>4. offer' = offer \/ offer'.pending = FALSE
  BY NothingOffered
     DEF OpenWindow, Revoke, Interrupt, Leave, Unlink, Relink, Lose, Expire,
         aside, receiver, NoOffer
<1>5. up' \in Updates /\ up'.phase = up.phase /\ up'.id = up.id
  <2>1. CASE up' = up
    BY <1>1, <2>1 DEF Typed
  <2>2. CASE Interrupt
    BY <1>1, <2>2 DEF Interrupt, Typed, Updates, CancelTaken
  <2>3. CASE Leave
    BY <1>1, <2>3 DEF Leave, Typed, Updates
  <2> QED
    BY <2>1, <2>2, <2>3
       DEF OpenWindow, Revoke, Unlink, Relink, Lose, Expire
<1>6. Typed'
  BY <1>1, <1>2, <1>3, <1>5 DEF Typed
<1>7. Ahead'
  BY <1>1, <1>2, <1>4, <1>5 DEF Ahead
<1> QED
  BY <1>3, <1>6, <1>7 DEF Informed

\* Only a committed update is told as one.
LEMMA Views ==
  ASSUME NEW u \in Updates
  PROVE  /\ ViewPhase(u) \in Phases /\ ViewPhase(u) # "boot-health"
         /\ ViewPhase(u) = "boot-committed" <=> u.phase = "committed"
<1>1. u.phase \in Cancellable \cup Terminal \cup {"committed"}
  BY DEF Updates
<1> QED
  BY <1>1 DEF ViewPhase, Phases, Cancellable, Terminal

\* The update goes on as u, in a poll or because it was cancelled.
LEMMA UpdateInforms ==
  ASSUME Informed, UNCHANGED <<coordinator, history, target, dev, bound>>,
         installed \subseteq installed', installed' \subseteq Sessions,
         NEW u \in Updates, up' = u,
         u.phase \in LetIn => u.id \in Sessions /\ target[u.id] > dev.fw,
         u.phase = "committed" => u.id \in installed',
         offer' = offer \/ offer'.pending = FALSE,
         NEW phase, NEW applied, Sends(bound, phase, applied)
  PROVE  Informed'
<1>1. Typed /\ Ahead
  BY DEF Informed
<1>2. /\ toHost' \in Seq(Statuses) /\ Reported' /\ Told'
      /\ verdict' = verdict /\ "irreversible" \in DOMAIN session'
  BY SendsTold
<1>3. Typed'
  BY <1>1, <1>2 DEF Typed
<1>4. Ahead'
  BY <1>1 DEF Ahead
<1> QED
  BY <1>2, <1>3, <1>4 DEF Informed

LEMMA EnterInforms ==
  ASSUME Informed, UNCHANGED <<coordinator, history>>,
         NEW u \in Updates, NEW o, Enter(u, o),
         o = offer \/ o.pending = FALSE,
         installed \subseteq installed', installed' \subseteq Sessions,
         u.phase \in LetIn => u.id \in Sessions /\ target[u.id] > dev.fw,
         u.phase = "committed" => u.id \in installed'
  PROVE  Informed'
<1>1. Typed /\ Ahead /\ Reported
  BY DEF Informed
<1>2. /\ up' = u /\ UNCHANGED <<target, dev, bound>>
      /\ offer' = offer \/ offer'.pending = FALSE
      /\ toHost' \in {toHost, Put(toHost, Status(bound, ViewPhase(u), FALSE))}
  BY NothingOffered DEF Enter, WriteOnChange
<1>3. u.phase = "committed" => Late'
  <2> SUFFICES ASSUME u.phase = "committed"
               PROVE  Late'
    OBVIOUS
  <2>1. u.id \in Sessions /\ u.id \in installed' /\ target[u.id] > Kept
    BY <1>1, KeptVersion DEF LetIn
  <2>2. verdict[u.id] # "success" /\ verdict' = verdict
    BY <1>1, <2>1, NewerIsLate DEF history
  <2> QED
    BY <2>1, <2>2 DEF Late
<1>4. Sends(bound, ViewPhase(u), FALSE)
  BY <1>1, <1>2, <1>3, Views DEF Sends, Typed
<1> QED
  BY <1>2, <1>4, UpdateInforms

LEMMA StopInforms ==
  ASSUME Informed, UNCHANGED <<coordinator, history>>,
         NEW phase \in Terminal, Stop(phase)
  PROVE  Informed'
<1> DEFINE u == [NoUpdate EXCEPT !.active = TRUE, !.phase = phase]
<1>1. /\ u \in Updates /\ u.phase = phase
  BY DEF NoUpdate, Updates, Terminal, Cancellable
<1>2. Enter(u, offer) /\ installed' = installed /\ installed \subseteq Sessions
  BY DEF Stop, Informed, Typed
<1>3. phase \notin LetIn
  BY DEF Terminal, LetIn
<1> HIDE DEF u
<1>4. u.phase \notin LetIn /\ u.phase # "committed"
  BY <1>1, <1>3 DEF LetIn
<1> QED
  BY <1>1, <1>2, <1>4, EnterInforms

LEMMA ConsumeInforms ==
  ASSUME IInv, Informed, UNCHANGED <<coordinator, history>>,
         NEW u \in Updates, offer.pending, Consume(u)
  PROVE  Informed'
<1> DEFINE w == [u EXCEPT !.phase = "accepted", !.id = offer.id,
                          !.cancelReq = FALSE]
<1>1. offer.id \in Sessions /\ target[offer.id] > dev.fw
  BY DEF IInv, TypeOK, Informed, Ahead
<1>2. w \in Updates /\ w.phase = "accepted" /\ w.id = offer.id
  BY <1>1 DEF Updates, Cancellable
<1>3. /\ Enter(w, NoOffer) /\ installed' = installed
      /\ installed \subseteq Sessions
  BY DEF Consume, Informed, Typed
<1> HIDE DEF w
<1> QED
  BY <1>1, <1>2, <1>3, NothingOffered, EnterInforms

LEMMA PollInforms ==
  ASSUME IInv, Informed, UNCHANGED <<coordinator, history>>, NEW serving,
         Poll(serving)
  PROVE  Informed'
<1>1. Typed /\ Ahead /\ Reported
  BY DEF Informed
<1>2. up \in Updates /\ installed \subseteq Sessions
  BY <1>1 DEF Typed
<1>3. CASE Arm
  <2>1. ASSUME NEW a \in BOOLEAN
        PROVE  [NoUpdate EXCEPT !.active = TRUE, !.auto = a] \in Updates
    BY DEF NoUpdate, Updates, Cancellable
  <2> DEFINE auto == offer.signed /\ direct
             u == [NoUpdate EXCEPT !.active = TRUE, !.auto = auto]
  <2>2. /\ auto \in BOOLEAN /\ offer.pending
        /\ \/ Consume(u)
           \/ Stop("cancelled")
           \/ Enter(u, offer) /\ installed' = installed
    BY <1>3 DEF Arm
  <2>3. u \in Updates /\ u.phase = "confirm"
    BY <2>1, <2>2 DEF NoUpdate
  <2> HIDE DEF auto, u
  <2>4. CASE Consume(u)
    BY <2>2, <2>3, <2>4, ConsumeInforms
  <2>5. CASE Stop("cancelled")
    BY <2>5, StopInforms DEF Terminal
  <2>6. CASE Enter(u, offer) /\ installed' = installed
    BY <1>2, <2>3, <2>6, EnterInforms DEF LetIn
  <2> QED
    BY <2>2, <2>4, <2>5, <2>6
<1>4. CASE Cancelled \/ Fail
  BY <1>4, StopInforms DEF Cancelled, Fail, Terminal
<1>5. CASE Confirm
  BY <1>2, <1>5, ConsumeInforms DEF Confirm
<1>6. CASE Advance(serving)
  <2>1. CASE /\ up.phase = "accepted" /\ installed' = installed
             /\ Enter([up EXCEPT !.phase = "readback"], offer)
    <3> DEFINE u == [up EXCEPT !.phase = "readback"]
    <3>1. u \in Updates /\ u.phase = "readback" /\ u.id = up.id
      BY <1>2 DEF Updates, Cancellable
    <3>2. up.id \in Sessions /\ target[up.id] > dev.fw
      BY <1>1, <2>1 DEF Ahead, LetIn
    <3> HIDE DEF u
    <3>3. Enter(u, offer)
      BY <2>1 DEF u
    <3> QED
      BY <1>2, <2>1, <3>1, <3>2, <3>3, EnterInforms
  <2>2. CASE /\ up.phase = "readback"
             /\ Enter([up EXCEPT !.phase = "committed"], NoOffer)
             /\ installed' = installed \cup {up.id}
    <3> DEFINE u == [up EXCEPT !.phase = "committed"]
    <3>1. u \in Updates /\ u.phase = "committed" /\ u.id = up.id
      BY <1>2 DEF Updates
    <3>2. up.id \in Sessions /\ target[up.id] > dev.fw
      BY <1>1, <2>2 DEF Ahead, LetIn
    <3> HIDE DEF u
    <3>3. Enter(u, NoOffer)
      BY <2>2 DEF u
    <3> QED
      BY <1>2, <2>2, <3>1, <3>2, <3>3, NothingOffered, EnterInforms
  <2> QED
    BY <1>6, <2>1, <2>2 DEF Advance
<1>7. CASE StatusPoll
  <2>1. /\ UNCHANGED <<target, dev, offer, up, bound, installed>>
        /\ toHost' \in
             {toHost, Put(toHost, Status(bound, ViewPhase(up), FALSE))}
    BY <1>7 DEF StatusPoll, WriteOnChange
  <2>2. up.phase = "committed" => Late'
    <3>1. up.phase = "committed" => Late
      BY <1>1, CommittedIsLate
    <3> QED
      BY <2>1, <3>1 DEF Late, history
  <2>3. Sends(bound, ViewPhase(up), FALSE)
    BY <1>1, <1>2, <2>1, <2>2, Views DEF Sends, Typed
  <2>4. /\ up.phase \in LetIn => up.id \in Sessions /\ target[up.id] > dev.fw
        /\ up.phase = "committed" => up.id \in installed
    BY <1>1 DEF Ahead
  <2> QED
    BY <1>2, <2>1, <2>3, <2>4, UpdateInforms
<1>8. CASE Leave
  BY <1>8, AsideInforms
<1> QED
  BY <1>3, <1>4, <1>5, <1>6, <1>7, <1>8 DEF Poll

\* A line is answered, with at most one status.
LEMMA LineInforms ==
  ASSUME Informed,
         UNCHANGED <<coordinator, history, target, dev, installed>>,
         bound' \in Sessions \cup {0},
         up' \in Updates, up'.phase = up.phase, up'.id = up.id,
         offer'.pending => target[offer'.id] > dev.fw,
         NEW id, NEW phase, NEW applied, Sends(id, phase, applied)
  PROVE  Informed'
<1>1. Typed /\ Ahead
  BY DEF Informed
<1>2. /\ toHost' \in Seq(Statuses) /\ Reported' /\ Told'
      /\ verdict' = verdict /\ "irreversible" \in DOMAIN session'
  BY SendsTold
<1>3. Typed'
  BY <1>1, <1>2 DEF Typed
<1>4. Ahead'
  BY <1>1 DEF Ahead
<1> QED
  BY <1>2, <1>3, <1>4 DEF Informed

\* What the device answers to an offer names the offer, and what it accepts
\* is newer than what runs.
LEMMA AnswerInforms ==
  ASSUME Informed, UNCHANGED <<coordinator, history, up>>,
         UNCHANGED <<target, dev, installed>>,
         NEW id \in Sessions, NEW result, NEW report,
         result.pending => target[result.id] > dev.fw,
         Answer(id, result, report)
  PROVE  Informed'
<1>1. Typed
  BY DEF Informed
<1>2. up' \in Updates /\ up'.phase = up.phase /\ up'.id = up.id
  BY <1>1 DEF Typed
<1>3. offer' = result
  BY DEF Answer
<1>4. CASE WriteOnChange(id, "offer-received", FALSE, "none")
  <2>1. Sends(id, "offer-received", FALSE) /\ bound' \in Sessions
    BY <1>4 DEF WriteOnChange, Sends, Phases
  <2> QED
    BY <1>2, <1>3, <2>1, LineInforms
<1>5. CASE /\ toHost' = Put(toHost, Status(id, "rejected", FALSE))
           /\ bound' = bound
  <2>1. Sends(id, "rejected", FALSE) /\ bound' \in Sessions \cup {0}
    BY <1>1, <1>5 DEF Sends, Phases, Typed
  <2> QED
    BY <1>2, <1>3, <2>1, LineInforms
<1>6. CASE toHost' = toHost /\ bound' = bound
  <2>1. Sends(id, "rejected", FALSE) /\ bound' \in Sessions \cup {0}
    BY <1>1, <1>6 DEF Sends, Phases, Typed
  <2> QED
    BY <1>2, <1>3, <2>1, LineInforms
<1> QED
  BY <1>4, <1>5, <1>6 DEF Answer

LEMMA HintNewer ==
  ASSUME NEW o, NEW id, NEW clear, NEW result,
         result = AcceptHint(o, id, clear), o \in Offers, result.pending
  PROVE  target[result.id] > dev.fw
<1>1. result # NoOffer
  BY NothingOffered
<1>2. /\ result = [o EXCEPT !.pending = TRUE, !.id = id]
      /\ target[id] > dev.fw
  BY <1>1 DEF AcceptHint
<1>3. result.id = id
  BY <1>2 DEF Offers
<1> QED
  BY <1>2, <1>3

LEMMA ReadLineInforms ==
  ASSUME IInv, Informed, UNCHANGED <<coordinator, history>>, ReadLine
  PROVE  Informed'
<1>1. Typed /\ Ahead /\ Reported /\ TypeOK
  BY DEF Informed, IInv
<1> DEFINE line == Head(toDev)
<1>2. line.id = cur /\ cur \in Sessions
  BY <1>1, OneLine DEF ReadLine, TypeOK
<1>3. UNCHANGED <<target, dev, installed>> /\ offer \in Offers
  BY <1>1 DEF ReadLine, TypeOK
<1>4. CASE OfferLine(line)
  <2>1. up' = up
    BY <1>4 DEF OfferLine
  <2>2. PICK result, report :
          /\ Answer(cur, result, report)
          /\ \/ result = NoOffer
             \/ \E o \in Offers, clear \in BOOLEAN :
                  result = AcceptHint(o, cur, clear)
    <3>1. [NoOffer EXCEPT !.window = TRUE, !.signed = TRUE] \in Offers
      BY DEF NoOffer, Offers
    <3>2. CASE SignedOffer(cur)
      BY <3>1, <3>2 DEF SignedOffer
    <3>3. CASE LegacyOffer(cur)
      BY <1>3, <3>3 DEF LegacyOffer
    <3> QED
      BY <1>2, <1>4, <3>2, <3>3 DEF OfferLine
  <2>3. result.pending => target[result.id] > dev.fw
    BY <2>2, NothingOffered, HintNewer
  <2> QED
    BY <1>2, <1>3, <2>1, <2>2, <2>3, AnswerInforms
<1>5. CASE ProbeLine(line)
  <2> DEFINE phase == IF dev.health = "monitoring" THEN "boot-health"
                      ELSE "running"
  <2>1. /\ toHost' = Put(toHost, Status(cur, phase, FALSE))
        /\ UNCHANGED <<offer, bound, up>>
    BY <1>2, <1>5 DEF ProbeLine, receiver
  <2>2. Sends(cur, phase, FALSE)
    BY <1>2, <2>1 DEF Sends, Phases
  <2> QED
    BY <1>1, <1>3, <2>1, <2>2, LineInforms DEF Typed, Ahead
<1>6. CASE CancelLine(line)
  <2>1. UNCHANGED <<offer, bound>>
    BY <1>6 DEF CancelLine, WriteOnChange
  <2>2. up' \in Updates /\ up'.phase = up.phase /\ up'.id = up.id
    <3>1. up' = up \/ up' = [up EXCEPT !.cancelReq = TRUE]
      BY <1>6 DEF CancelLine
    <3> QED
      BY <1>1, <3>1 DEF Typed, Updates
  <2>3. PICK phase \in {"cancelled", ViewPhase(up)}, applied \in BOOLEAN :
          toHost' \in {toHost, Put(toHost, Status(bound, phase, applied))}
    BY <1>6 DEF CancelLine, WriteOnChange
  <2>4. phase = "boot-committed" => Late'
    <3>1. up.phase = "committed" => Late
      BY <1>1, CommittedIsLate
    <3>2. Late => Late'
      BY <1>3 DEF Late, history
    <3> QED
      BY <1>1, <2>3, <3>1, <3>2, Views DEF Typed
  <2>5. Sends(bound, phase, applied)
    BY <1>1, <2>3, <2>4, Views DEF Sends, Typed, Phases
  <2> QED
    BY <1>1, <1>3, <2>1, <2>2, <2>5, LineInforms DEF Typed, Ahead
<1> QED
  BY <1>4, <1>5, <1>6 DEF ReadLine

\* What is kept only gets newer, so what was reported and told stays right.
LEMMA RestartInforms ==
  ASSUME Informed, UNCHANGED <<coordinator, history>>, Restart \/ Confirmed
  PROVE  Informed'
<1>1. Typed /\ Ahead /\ Reported /\ Told
  BY DEF Informed
<1>2. /\ UNCHANGED <<cur, pc, session, verdict, target, installed>>
      /\ Live' = Live /\ Late' = Late /\ toHost' \in {toHost, <<>>}
  BY DEF Restart, Reboot, Confirmed, Severed, link, coordinator, history,
         Live, Late
<1>3. /\ dev' \in Devices /\ Kept <= Kept' /\ dev'.prev <= dev'.fw
      /\ dev'.health = "monitoring" =>
           dev'.prev < dev'.fw /\ \E s \in installed : target[s] = dev'.fw
  <2>1. CASE Restart /\ up.active /\ up.phase = "committed"
    <3>1. dev' = [fw |-> target[up.id], prev |-> Kept,
                  health |-> "monitoring"]
      BY <2>1 DEF Restart, Reboot
    <3>2. /\ up.id \in Sessions /\ up.id \in installed
          /\ target[up.id] > dev.fw
      BY <1>1, <2>1 DEF Ahead, LetIn
    <3>3. Kept \in Versions /\ target[up.id] \in Versions
      BY <1>1, <3>2 DEF Kept, Typed, Devices
    <3>4. Kept' = Kept
      BY <3>1 DEF Kept
    <3>5. Kept < target[up.id] /\ Kept <= Kept' /\ Kept <= target[up.id]
      BY <1>1, <3>2, <3>4, KeptVersion
    <3> QED
      BY <3>1, <3>2, <3>3, <3>5 DEF Devices, Healths
  <2>2. CASE Restart /\ ~(up.active /\ up.phase = "committed")
    <3>1. dev' = IF dev.health = "monitoring"
                   THEN [fw |-> dev.prev, prev |-> dev.prev,
                         health |-> "rollback"]
                   ELSE [dev EXCEPT !.health = "ordinary"]
      BY <2>2 DEF Restart, Reboot
    <3>2. CASE dev.health = "monitoring"
      <4>1. dev' = [fw |-> dev.prev, prev |-> dev.prev,
                    health |-> "rollback"]
        BY <3>1, <3>2
      <4>2. Kept' = dev.prev /\ Kept = dev.prev
        BY <3>2, <4>1 DEF Kept
      <4>3. dev.prev \in Nat /\ dev' \in Devices
        BY <1>1, <4>1, KeptVersion DEF Typed, Devices, Healths
      <4> QED
        BY <4>1, <4>2, <4>3
    <3>3. CASE dev.health # "monitoring"
      <4>1. dev' = [dev EXCEPT !.health = "ordinary"]
        BY <3>1, <3>3
      <4>2. /\ dev' \in Devices /\ dev'.fw = dev.fw /\ dev'.prev = dev.prev
            /\ dev'.health = "ordinary"
        BY <1>1, <4>1 DEF Typed, Devices, Healths
      <4>3. Kept' = dev.fw /\ Kept = dev.fw
        BY <3>3, <4>2 DEF Kept
      <4> QED
        BY <1>1, <4>2, <4>3, KeptVersion
    <3> QED
      BY <3>2, <3>3
  <2>3. CASE Confirmed
    <3>1. /\ dev' \in Devices /\ dev'.fw = dev.fw /\ dev'.prev = dev.fw
          /\ dev'.health = "valid"
      BY <1>1, <2>3 DEF Confirmed, Typed, Devices, Healths
    <3>2. Kept' = dev.fw
      BY <3>1 DEF Kept
    <3> QED
      BY <1>1, <3>1, <3>2, KeptVersion
  <2> QED
    BY <2>1, <2>2, <2>3
<1>4. /\ up' \in Updates /\ bound' \in Sessions \cup {0}
      /\ offer'.pending => offer' = offer /\ dev'.fw = dev.fw
      /\ up'.phase \in LetIn => up' = up /\ dev'.fw = dev.fw
  <2>1. CASE Restart
    <3>1. up' = NoUpdate /\ bound' = 0 /\ offer' = NoOffer
      BY <2>1 DEF Restart, Reboot
    <3>2. NoUpdate \in Updates /\ NoUpdate.phase \notin LetIn
      BY DEF NoUpdate, Updates, Cancellable, LetIn
    <3> QED
      BY <3>1, <3>2, NothingOffered
  <2>2. CASE Confirmed
    <3>1. /\ UNCHANGED <<up, bound, offer>>
          /\ dev' = [dev EXCEPT !.health = "valid", !.prev = dev.fw]
      BY <2>2 DEF Confirmed, receiver
    <3>2. dev'.fw = dev.fw
      BY <1>1, <3>1 DEF Typed, Devices
    <3> QED
      BY <1>1, <3>1, <3>2 DEF Typed
  <2> QED
    BY <2>1, <2>2
<1>5. /\ toHost' \in Seq(Statuses)
      /\ Waiting(toHost') \subseteq Waiting(toHost)
  BY <1>1, <1>2, Queue DEF Typed
<1>6. Typed'
  BY <1>1, <1>2, <1>3, <1>4, <1>5 DEF Typed
<1>7. Ahead'
  BY <1>1, <1>2, <1>3, <1>4 DEF Ahead, LetIn
<1>8. Kept \in Nat /\ Kept' \in Nat
  <2>1. Kept \in Versions /\ Kept' \in Versions
    BY <1>1, <1>3 DEF Typed, Kept, Devices
  <2> QED
    BY <2>1, OtaDeviceAssumption
<1>9. Reported'
  <2>1. \A s \in Sessions : target[s] <= Kept => target[s] <= Kept'
    BY <1>1, <1>3, <1>8, KeptVersion
  <2> QED
    BY <1>1, <1>2, <2>1 DEF Reported
<1>10. Told'
  <2> SUFFICES ASSUME NEW st \in Waiting(toHost')
               PROVE  Truthful(st)'
    BY DEF Told
  <2>1. Truthful(st)
    BY <1>1, <1>5 DEF Told
  <2>2. st.version \in Nat
    <3>1. st \in Statuses
      BY <1>1, <1>5 DEF Waiting, Typed
    <3> QED
      BY <3>1, OtaDeviceAssumption DEF Statuses
  <2> QED
    BY <1>2, <1>3, <1>8, <2>1, <2>2 DEF Truthful
<1> QED
  BY <1>6, <1>7, <1>9, <1>10 DEF Informed

LEMMA DeviceInforms ==
  ASSUME IInv, Informed, Device
  PROVE  Informed'
<1>1. UNCHANGED <<coordinator, history>> /\ DeviceStep(Serving, Offering)
  BY DEF Device
<1>2. CASE ReadLine
  BY <1>1, <1>2, ReadLineInforms
<1>3. CASE Poll(Serving)
  BY <1>1, <1>3, PollInforms
<1>4. CASE Restart \/ Confirmed
  BY <1>1, <1>4, RestartInforms
<1>5. CASE \/ OpenWindow \/ Revoke \/ Interrupt \/ Unlink \/ Relink \/ Lose
           \/ \E s \in Sessions : Expire(s, Offering)
  BY <1>1, <1>5, AsideInforms
<1> QED
  BY <1>1, <1>2, <1>3, <1>4, <1>5 DEF DeviceStep

\* ---- The host and what it was told

deviceState == <<target, dev, up, bound, offer, installed>>

\* A step of the host that leaves the device alone and reads one status or
\* none.
HostStep ==
  /\ UNCHANGED <<deviceState, cur>>
  /\ toHost' = toHost \/ (toHost # <<>> /\ toHost' = Tail(toHost))
  /\ "irreversible" \in DOMAIN session'

\* run() goes on: it takes no update for irreversible but one that is.
GoesOn ==
  /\ verdict' = verdict /\ (Live' => Live)
  /\ Live' /\ session'.irreversible => Late

\* run() ends, and reports a success only of what is kept.
Ends ==
  /\ ~Live' /\ cur \in Sessions
  /\ \E v \in Verdicts : /\ verdict' = [verdict EXCEPT ![cur] = v]
                         /\ v = "success" => target[cur] <= Kept

LEMMA HostStepInforms ==
  ASSUME Informed, HostStep, GoesOn \/ Ends
  PROVE  Informed'
<1>1. Typed /\ Ahead /\ Reported /\ Told
  BY DEF Informed
<1>2. /\ UNCHANGED <<target, dev, up, bound, offer, installed, cur>>
      /\ Kept' = Kept
  BY DEF HostStep, deviceState, Kept
<1>3. Ahead'
  BY <1>1, <1>2 DEF Ahead
<1>4. /\ toHost' \in Seq(Statuses)
      /\ Waiting(toHost') \subseteq Waiting(toHost)
  <2>1. toHost \in Seq(Statuses)
    BY <1>1 DEF Typed
  <2>2. CASE toHost' = toHost
    BY <2>1, <2>2
  <2>3. CASE toHost # <<>> /\ toHost' = Tail(toHost)
    BY <2>1, <2>3, Queue
  <2> QED
    BY <2>2, <2>3 DEF HostStep
<1>5. \A st \in Waiting(toHost') : Truthful(st)
  BY <1>1, <1>4 DEF Told
<1>6. CASE GoesOn
  <2>1. verdict' = verdict /\ Late' = Late /\ (Live' => Live)
    BY <1>2, <1>6 DEF GoesOn, Late
  <2>2. Typed'
    BY <1>1, <1>2, <1>4, <2>1 DEF Typed, HostStep
  <2>3. Reported'
    BY <1>1, <1>2, <1>6, <2>1 DEF Reported, GoesOn
  <2>4. Told'
    BY <1>2, <1>5, <2>1 DEF Told, Truthful
  <2> QED
    BY <1>3, <2>2, <2>3, <2>4 DEF Informed
<1>7. CASE Ends
  <2>1. PICK v \in Verdicts : /\ verdict' = [verdict EXCEPT ![cur] = v]
                              /\ v = "success" => target[cur] <= Kept
    BY <1>7 DEF Ends
  <2>2. ~Live' /\ cur \in Sessions
    BY <1>7 DEF Ends
  <2>3. verdict' \in [Sessions -> Verdicts]
    BY <1>1, <2>1, <2>2 DEF Typed
  <2>4. Typed'
    BY <1>1, <1>2, <1>4, <2>3 DEF Typed, HostStep
  <2>5. \A s \in Sessions : s # cur => verdict'[s] = verdict[s]
    BY <1>1, <2>1, <2>2 DEF Typed
  <2>6. verdict'[cur] = v
    BY <1>1, <2>1, <2>2 DEF Typed
  <2>7. \A s \in Sessions : s > cur => s # cur
    BY <1>1, <2>2, KeptVersion
  <2>8. Reported'
    BY <1>1, <1>2, <2>1, <2>2, <2>5, <2>6, <2>7 DEF Reported
  <2>9. Told'
    BY <1>2, <1>5, <2>2 DEF Told, Truthful
  <2> QED
    BY <1>3, <2>4, <2>8, <2>9 DEF Informed
<1> QED
  BY <1>6, <1>7

\* What the host keeps of its session.
KeepsFinal(q) ==
  "irreversible" \in DOMAIN q /\ q.irreversible = session.irreversible

LEMMA EndEnds ==
  ASSUME Informed, NEW q, NEW c, NEW v \in Verdicts, cur \in Sessions,
         End(q, c, v), v = "success" => target[cur] <= Kept
  PROVE  Ends /\ "irreversible" \in DOMAIN session'
BY DEF End, Ends, Live, NewSession

LEMMA TryAgainInforms ==
  ASSUME Informed, NEW q, NEW c, KeepsFinal(q), Live, cur \in Sessions,
         TryAgain(q, c)
  PROVE  (GoesOn \/ Ends) /\ "irreversible" \in DOMAIN session'
<1>1. CASE pc' = "send" /\ session' = q /\ verdict' = verdict
  BY <1>1 DEF GoesOn, KeepsFinal, Live, Informed, Reported
<1>2. CASE End(q, c, "failed")
  BY <1>2, EndEnds DEF Verdicts
<1> QED
  BY <1>1, <1>2 DEF TryAgain

LEMMA TakeInforms ==
  ASSUME Informed, NEW st, NEW q, NEW c, KeepsFinal(q), Live,
         cur \in Sessions, Truthful(st), st.to = cur, Take(st, q, c)
  PROVE  (GoesOn \/ Ends) /\ "irreversible" \in DOMAIN session'
<1>1. session.irreversible => Late
  BY DEF Informed, Reported
<1>2. CASE \E v \in {"failed", "cancelled"} : End(q, c, v)
  BY <1>2, EndEnds DEF Verdicts
<1>3. CASE Healthy(st) /\ End(q, c, "success")
  <2>1. target[cur] <= Kept
    BY <1>3 DEF Healthy, Truthful
  <2> QED
    BY <1>3, <2>1, EndEnds DEF Verdicts
<1>4. CASE TryAgain(q, c)
  BY <1>4, TryAgainInforms
<1>5. CASE session' = q /\ pc' = pc /\ verdict' = verdict
  BY <1>1, <1>5 DEF GoesOn, KeepsFinal, Live
<1>6. CASE Progress(st, q, c)
  <2>1. /\ verdict' = verdict /\ pc' = "install"
        /\ "irreversible" \in DOMAIN session'
        /\ session'.irreversible =
             (q.irreversible \/ st.phase \in IrreversiblePhases)
    BY <1>6 DEF Progress, KeepsFinal
  <2>2. st.phase \in IrreversiblePhases => Late
    BY DEF Truthful
  <2> QED
    BY <1>1, <2>1, <2>2 DEF GoesOn, KeepsFinal, Live
<1>7. CASE Probed(st, q, c)
  <2>1. CASE /\ pc' = "send" /\ verdict' = verdict
             /\ session' = [q EXCEPT !.phase = "offer-sent",
                                     !.signed = st.version >= SignedFrom]
    <3>1. /\ "irreversible" \in DOMAIN session'
          /\ session'.irreversible = q.irreversible
      BY <2>1 DEF KeepsFinal
    <3> QED
      BY <1>1, <2>1, <3>1 DEF GoesOn, KeepsFinal, Live
  <2> QED
    BY <1>2, <1>7, <2>1 DEF Probed
<1> QED
  BY <1>2, <1>3, <1>4, <1>5, <1>6, <1>7 DEF Take, Ended

LEMMA ReceiveInforms ==
  ASSUME IInv, Informed, Receive
  PROVE  Informed'
<1> DEFINE st == Head(toHost)
           answers == session.sent /\ (st.applied \/ st.phase \in Refusals)
           q == IF answers THEN Finished(session, st.applied) ELSE session
           c == IF answers THEN Answered(call, session, st.applied) ELSE call
<1>1. Typed /\ TypeOK /\ Reported /\ Told
  BY DEF IInv, Informed
<1>2. Live /\ cur \in Sessions
  BY <1>1 DEF Receive, Receiving, Live, TypeOK
<1>3. KeepsFinal(q)
  BY <1>1 DEF KeepsFinal, Finished, Typed
<1>4. Truthful(st)
  <2>1. toHost # <<>> /\ toHost \in Seq(Statuses)
    BY <1>1 DEF Receive, Typed
  <2> QED
    BY <1>1, <2>1, Queue DEF Told
<1>5. /\ UNCHANGED <<deviceState, cur>>
      /\ toHost # <<>> /\ toHost' = Tail(toHost)
  BY DEF Receive, StillDevice, still, receiver, deviceState
<1> HIDE DEF q, c
<1>6. CASE session' \in {session, q} /\ pc' = pc /\ verdict' = verdict
  <2>1. /\ "irreversible" \in DOMAIN session'
        /\ session'.irreversible = session.irreversible
    BY <1>1, <1>3, <1>6 DEF KeepsFinal, Typed
  <2>2. HostStep /\ GoesOn
    BY <1>1, <1>5, <1>6, <2>1 DEF HostStep, GoesOn, Live, Reported
  <2> QED
    BY <2>2, HostStepInforms
<1>7. CASE st.to = cur /\ Take(st, q, c)
  <2>1. (GoesOn \/ Ends) /\ "irreversible" \in DOMAIN session'
    BY <1>2, <1>3, <1>4, <1>7, TakeInforms
  <2> QED
    BY <1>5, <2>1, HostStepInforms DEF HostStep
<1> QED
  BY <1>6, <1>7 DEF Receive, q, c

LEMMA BeginInforms ==
  ASSUME IInv, Informed, Begin
  PROVE  Informed'
<1>1. Typed /\ Ahead /\ Reported /\ TypeOK
  BY DEF IInv, Informed
<1>2. /\ cur' = cur + 1 /\ cur + 1 \in Sessions /\ toHost' = <<>>
      /\ verdict' = verdict /\ session' = NewSession
      /\ UNCHANGED <<target, dev, up, bound, offer, installed>>
      /\ Kept' = Kept
  BY DEF Begin, StillDevice, still, receiver, Kept
<1>3. "irreversible" \in DOMAIN session' /\ session'.irreversible = FALSE
  BY <1>2 DEF NewSession
<1>4. cur \in Nat /\ Sessions \subseteq Nat
  BY <1>1, OtaDeviceAssumption DEF TypeOK
<1>5. \A s \in Sessions : s > cur' \/ s = cur' => s > cur
  BY <1>2, <1>4
<1>6. toHost' \in Seq(Statuses) /\ Waiting(toHost') = {}
  BY <1>1, <1>2, Queue DEF Typed
<1>7. Typed'
  BY <1>1, <1>2, <1>3, <1>6 DEF Typed
<1>8. Ahead'
  BY <1>1, <1>2 DEF Ahead
<1>9. Reported'
  BY <1>1, <1>2, <1>3, <1>5 DEF Reported
<1> QED
  BY <1>6, <1>7, <1>8, <1>9 DEF Informed, Told

LEMMA HostInforms ==
  ASSUME IInv, Informed, Host
  PROVE  Informed'
<1>1. Typed /\ TypeOK /\ Reported
  BY DEF IInv, Informed
<1>2. KeepsFinal(session) /\ (Live /\ session.irreversible => Late)
  BY <1>1 DEF KeepsFinal, Typed, Reported
<1>3. CASE Begin \/ Receive
  BY <1>3, BeginInforms, ReceiveInforms
<1>4. CASE Cancel \/ CancelTimesOut \/ CancelReturns \/ SendCancel \/ Probe
  <2>1. /\ UNCHANGED <<deviceState, cur, pc, verdict>>
        /\ toHost' = toHost
    BY <1>4
       DEF Cancel, CancelTimesOut, CancelReturns, SendCancel, Probe,
           StillDevice, still, deviceVars, receiver, link, deviceState, history
  <2>2. KeepsFinal(session')
    BY <1>1, <1>2, <1>4
       DEF Cancel, CancelTimesOut, CancelReturns, SendCancel, Probe, Finished,
           KeepsFinal
  <2> QED
    BY <1>2, <2>1, <2>2, HostStepInforms DEF HostStep, GoesOn, KeepsFinal, Live
<1>5. CASE SendOffer \/ TimesOut \/ LinkFails
  <2>1. /\ UNCHANGED <<deviceState, cur>> /\ toHost' = toHost
    BY <1>5
       DEF SendOffer, TimesOut, LinkFails, StillDevice, still, hostAside,
           deviceVars, receiver, link, deviceState
  <2>2. Live /\ cur \in Sessions
    BY <1>1, <1>5 DEF SendOffer, TimesOut, LinkFails, Receiving, Live, TypeOK
  <2>3. CASE End(session, call, "failed")
    BY <2>1, <2>2, <2>3, EndEnds, HostStepInforms DEF Verdicts, HostStep
  <2>4. CASE TryAgain(session, call)
    BY <1>2, <2>1, <2>2, <2>4, TryAgainInforms, HostStepInforms DEF HostStep
  <2>5. CASE session' = session /\ verdict' = verdict /\ (Live' => Live)
    BY <1>1, <1>2, <2>1, <2>2, <2>5, HostStepInforms
       DEF HostStep, GoesOn, Typed
  <2> QED
    BY <1>5, <2>2, <2>3, <2>4, <2>5 DEF SendOffer, TimesOut, LinkFails, Live
<1>6. CASE Shutdown
  <2>1. /\ UNCHANGED <<deviceState, cur>> /\ toHost' = toHost
        /\ cur \in Sessions
    BY <1>1, <1>6
       DEF Shutdown, hostAside, deviceVars, receiver, link, deviceState, TypeOK
  <2>2. Ends /\ "irreversible" \in DOMAIN session'
    BY <1>6, <2>1 DEF Shutdown, Ends, Live, NewSession, Verdicts
  <2> QED
    BY <2>1, <2>2, HostStepInforms DEF HostStep
<1> QED
  BY <1>3, <1>4, <1>5, <1>6 DEF Host

LEMMA InitInforms ==
  ASSUME SystemInit
  PROVE  Informed
<1>1. PICK plan \in Plans :
        /\ target = plan.target
        /\ dev = [fw |-> plan.first, prev |-> plan.first,
                  health |-> "ordinary"]
  BY DEF SystemInit, Init
<1>2. /\ plan.first \in Versions /\ plan.target \in [Sessions -> Versions]
      /\ plan.first \in Nat
  BY OtaDeviceAssumption
<1>3. /\ toHost = <<>> /\ up = NoUpdate /\ bound = 0 /\ offer = NoOffer
      /\ installed = {} /\ pc = "over" /\ session = NewSession
      /\ verdict = [s \in Sessions |-> "open"]
  BY DEF SystemInit, Init, HostInit
<1>4. NoUpdate \in Updates /\ NoUpdate.phase = "confirm"
  BY DEF NoUpdate, Updates, Cancellable
<1>5. <<>> \in Seq(Statuses) /\ Waiting(toHost) = {}
  <2>1. <<>> \in Seq(Statuses)
    OBVIOUS
  <2> QED
    BY <1>3, <2>1, Queue
<1>6. Typed
  BY <1>1, <1>2, <1>3, <1>4, <1>5
     DEF Typed, Devices, Healths, Verdicts, NewSession
<1>7. Ahead
  BY <1>1, <1>2, <1>3, <1>4, NothingOffered DEF Ahead, LetIn
<1>8. Reported
  BY <1>3 DEF Reported, Live
<1> QED
  BY <1>5, <1>6, <1>7, <1>8 DEF Informed, Told

LEMMA StutterInforms ==
  ASSUME IInv, Informed, UNCHANGED vars
  PROVE  Informed'
<1>1. /\ UNCHANGED <<deviceState, cur, pc, session, verdict, toHost>>
  BY DEF vars, deviceVars, link, receiver, coordinator, history, deviceState
<1>2. HostStep /\ GoesOn
  BY <1>1 DEF HostStep, GoesOn, Live, Informed, Typed, Reported
<1> QED
  BY <1>2, HostStepInforms

\* What the host is told: what is let in is newer than what is kept, and a
\* status that names the present session tells of an image that is kept or of
\* one that was chosen to start (writeStatus, _receive).
THEOREM InformedAlways == Spec => []Informed
<1>1. SystemInit => IInv /\ Informed
  BY InitIInv, InitInforms
<1>2. IInv /\ Informed /\ [SystemNext]_vars => (IInv /\ Informed)'
  <2>1. IInv /\ [SystemNext]_vars => IInv'
    BY HostPreserves, DevicePreserves, StutterPreserves DEF SystemNext
  <2>2. IInv /\ Informed /\ [SystemNext]_vars => Informed'
    BY HostInforms, DeviceInforms, StutterInforms DEF SystemNext
  <2> QED
    BY <2>1, <2>2
<1> QED
  BY <1>1, <1>2, PTL DEF Spec

\* When the agent refuses a cancel as too late (cancel(), "irreversible"), an
\* image was chosen to start of which no session was told the success, even
\* when the statuses that said so were about an earlier session's update.
THEOREM RefusedCancelsAreLate == Spec => []RefusedCancelIsLate
<1>1. Informed => RefusedCancelIsLate
  BY DEF Informed, Reported, RefusedCancelIsLate, Live, Late
<1> QED
  BY <1>1, InformedAlways, PTL

\* ---- What the person at the host is told is what the device did

\* The host has heard, or is about to hear, that the device runs something
\* older than the present session's version, and so may offer it.
Offerable ==
  \/ pc \in Open
  \/ pc = "probe" /\ \E st \in Waiting(toHost) :
       st.to = cur /\ st.phase = "running" /\ st.version < target[cur]

\* An update of an earlier session may still be on its way then.  It cannot
\* follow once the version of this one runs, since a start forgets whatever
\* was let in.
Settled ==
  Offerable =>
    /\ dev.fw = target[cur] => ~offer.pending /\ up.phase \notin LetIn
    /\ Kept = target[cur] => dev.fw = target[cur]
    /\ \A st \in Waiting(toHost) :
         /\ st.to = cur /\ st.health = "valid"
         /\ st.version = target[cur]
         => Kept = target[cur]

\* The image is being checked for the last time, or is chosen.
Installing ==
  \/ up.phase = "readback" /\ ~up.cancelReq
  \/ up.phase = "committed"

\* The host hears, or has heard, that its session was cancelled.  Whichever
\* update the cancel met, no other gets as far while the host does not serve
\* its image, and what the session asked for is not what runs.
Ceasing == Live /\ \E st \in Waiting(toHost) : st.to = cur /\ st.applied
Ceased == pc = "over" /\ session.phase = "cancelled"
Stopped ==
  Ceasing \/ Ceased =>
    cur \in Sessions /\ dev.fw < target[cur] /\ ~Installing

CalledOff ==
  /\ \A s \in calledOff : s \in Sessions /\ verdict[s] = "cancelled"
  /\ Ceased => verdict[cur] = "cancelled"
  /\ Installing => up.id \notin calledOff
  /\ dev.health = "monitoring" =>
       \E s \in installed \ calledOff : target[s] = dev.fw

\* Statuses are bound to an offer that was newer than what runs, and it still
\* is; only a cancellation is the answer to a cancel that was applied.
Answers ==
  /\ bound # 0 => target[bound] > dev.fw
  /\ \A st \in Waiting(toHost) : st.applied => st.phase = "cancelled"

Faithful == Settled /\ Stopped /\ CalledOff /\ Answers

\* A step of the device in which the firmware stays: it sends at most one
\* status, lets in what was pending, and installs only for a host that waits
\* for it and was told nothing else.
Carries(id, phase, applied) ==
  /\ UNCHANGED <<coordinator, history, target, dev>>
  /\ id \in Sessions \cup {0}
  /\ Waiting(toHost') \subseteq
       Waiting(toHost) \cup {Status(id, phase, applied)}
  /\ phase = "running" => dev.health # "monitoring"
  /\ applied => /\ id \in Sessions /\ target[id] > dev.fw
                /\ phase = "cancelled" /\ ~Installing'
  /\ offer'.pending => offer.pending \/ target[cur] > dev.fw
  /\ up'.phase \in LetIn => up.phase \in LetIn \/ offer.pending
  /\ Installing' =>
       \/ Installing /\ up'.id = up.id
       \/ /\ Waiting(toHost) = {} /\ ~applied
          /\ pc \in Open /\ up'.id = cur
  /\ \/ installed' = installed
     \/ Installing /\ installed' = installed \cup {up.id}
  /\ bound' # 0 => bound' = bound \/ target[bound'] > dev.fw

LEMMA SentStatus ==
  ASSUME Typed, NEW id \in Sessions \cup {0}, NEW phase, NEW applied
  PROVE  LET st == Status(id, phase, applied)
         IN  /\ st.to = id /\ st.phase = phase /\ st.applied = applied
             /\ st.version = dev.fw /\ st.health = dev.health
BY DEF Status

LEMMA CarriesSettled ==
  ASSUME IInv, Informed, Faithful,
         NEW id, NEW phase, NEW applied, Carries(id, phase, applied)
  PROVE  Settled'
<1>1. Typed /\ Ahead /\ Told /\ Settled
  BY DEF Informed, Faithful
<1>2. UNCHANGED <<cur, pc, session, target, dev>> /\ Kept' = Kept
  BY DEF Carries, coordinator, Kept
<1> SUFFICES ASSUME Offerable'
             PROVE  /\ dev.fw = target[cur] =>
                         ~offer'.pending /\ up'.phase \notin LetIn
                    /\ Kept = target[cur] => dev.fw = target[cur]
                    /\ \A st \in Waiting(toHost') :
                         /\ st.to = cur /\ st.health = "valid"
                         /\ st.version = target[cur]
                         => Kept = target[cur]
  BY <1>2 DEF Settled
<1> DEFINE sent == Status(id, phase, applied)
<1>3. /\ sent.to = id /\ sent.phase = phase
      /\ sent.version = dev.fw /\ sent.health = dev.health
  BY <1>1, SentStatus DEF Carries
<1>4. /\ Waiting(toHost') \subseteq Waiting(toHost) \cup {sent}
      /\ phase = "running" => dev.health # "monitoring"
  BY DEF Carries
<1> HIDE DEF sent
<1>5. cur \in Sessions
  BY <1>2 DEF Offerable, Open, IInv, TypeOK
<1>6. /\ dev.fw \in Nat /\ Kept \in Nat /\ target[cur] \in Nat
      /\ Kept <= dev.fw
  BY <1>1, <1>5, KeptVersion
<1>7. dev.health # "monitoring" => Kept = dev.fw
  BY DEF Kept
<1>8. CASE Offerable
  <2>1. dev.fw = target[cur] => ~offer'.pending /\ up'.phase \notin LetIn
    BY <1>1, <1>6, <1>8 DEF Settled, Carries
  <2>2. ASSUME NEW st \in Waiting(toHost'),
               st.to = cur, st.health = "valid", st.version = target[cur]
        PROVE  Kept = target[cur]
    BY <1>1, <1>3, <1>4, <1>7, <1>8, <2>2 DEF Settled
  <2> QED
    BY <1>1, <1>8, <2>1, <2>2 DEF Settled
<1>9. CASE ~Offerable
  <2>1. PICK st \in Waiting(toHost') :
          st.to = cur /\ st.phase = "running" /\ st.version < target[cur]
    BY <1>2, <1>9 DEF Offerable
  <2>2. pc = "probe"
    BY <1>2, <1>9 DEF Offerable
  <2>3. st = sent
    BY <1>4, <1>9, <2>1, <2>2 DEF Offerable
  <2>4. dev.fw < target[cur] /\ Kept = dev.fw
    BY <1>3, <1>4, <1>7, <2>1, <2>3
  <2>5. ASSUME NEW s \in Waiting(toHost'), s.health = "valid"
        PROVE  s.version # target[cur]
    <3>1. CASE s \in Waiting(toHost)
      <4>1. s.version <= Kept
        BY <1>1, <2>5, <3>1 DEF Told, Truthful
      <4> QED
        BY <1>6, <2>4, <4>1
    <3>2. CASE s = sent
      BY <1>3, <1>6, <2>4, <3>2
    <3> QED
      BY <1>4, <3>1, <3>2
  <2> QED
    BY <1>6, <2>4, <2>5
<1> QED
  BY <1>8, <1>9

LEMMA CarriesFaithful ==
  ASSUME IInv, Informed, Faithful,
         NEW id, NEW phase, NEW applied, Carries(id, phase, applied)
  PROVE  Faithful'
<1>1. /\ Typed /\ Ahead /\ Reported /\ Stopped /\ CalledOff /\ Answers
      /\ TypeOK
  BY DEF Informed, Faithful, IInv
<1>2. /\ UNCHANGED <<cur, pc, session, target, dev, verdict, calledOff>>
      /\ Live' = Live /\ Ceased' = Ceased
  BY DEF Carries, coordinator, history, Live, Ceased
<1> DEFINE sent == Status(id, phase, applied)
<1>3. sent.to = id /\ sent.phase = phase /\ sent.applied = applied
  BY <1>1, SentStatus DEF Carries
<1>4. Waiting(toHost') \subseteq Waiting(toHost) \cup {sent}
  BY DEF Carries
<1> HIDE DEF sent
<1>5. Ceasing' => Ceasing \/ (applied /\ id = cur)
  BY <1>2, <1>3, <1>4 DEF Ceasing
<1>6. Stopped'
  <2> SUFFICES ASSUME Ceasing' \/ Ceased'
               PROVE  cur \in Sessions /\ dev.fw < target[cur] /\ ~Installing'
    BY <1>2 DEF Stopped
  <2>1. CASE applied /\ id = cur
    <3>1. cur \in Sessions /\ target[cur] > dev.fw /\ ~Installing'
      BY <2>1 DEF Carries
    <3> QED
      BY <1>1, <3>1, KeptVersion
  <2>2. CASE Ceasing \/ Ceased
    <3>1. cur \in Sessions /\ dev.fw < target[cur] /\ ~Installing
      BY <1>1, <2>2 DEF Stopped
    <3>2. ~(Waiting(toHost) = {} /\ pc \in Open)
      BY <2>2 DEF Ceasing, Ceased, Open
    <3> QED
      BY <3>1, <3>2 DEF Carries
  <2> QED
    BY <1>2, <1>5, <2>1, <2>2
<1>7. CalledOff'
  <2>1. Installing' => up'.id \notin calledOff
    <3>1. CASE Installing /\ up'.id = up.id
      BY <1>1, <3>1 DEF CalledOff
    <3>2. CASE pc \in Open /\ up'.id = cur
      <4>1. Live /\ cur \in Sessions
        BY <1>1, <3>2 DEF Open, Live, TypeOK
      <4>2. verdict[cur] = "open"
        BY <1>1, <4>1 DEF Reported
      <4> QED
        BY <1>1, <3>2, <4>2 DEF CalledOff
    <3> QED
      BY <3>1, <3>2 DEF Carries
  <2>2. installed \subseteq installed'
    BY DEF Carries
  <2> QED
    BY <1>1, <1>2, <2>1, <2>2 DEF CalledOff
<1>8. Answers'
  <2>1. applied => phase = "cancelled"
    BY DEF Carries
  <2>2. bound' # 0 => target[bound'] > dev.fw
    BY <1>1 DEF Carries, Answers
  <2> QED
    BY <1>1, <1>2, <1>3, <1>4, <2>1, <2>2 DEF Answers
<1> QED
  BY <1>6, <1>7, <1>8, CarriesSettled DEF Faithful

\* ---- The device's steps

LEMMA AsideCarries ==
  ASSUME Informed, UNCHANGED <<coordinator, history>>, NEW offering,
         \/ OpenWindow \/ Revoke \/ Interrupt \/ Leave
         \/ Unlink \/ Relink \/ Lose
         \/ \E s \in Sessions : Expire(s, offering)
  PROVE  Carries(0, "error", FALSE)
<1>1. Typed
  BY DEF Informed
<1>2. /\ UNCHANGED <<target, dev, installed, bound>>
      /\ \/ toHost' \in {toHost, <<>>}
         \/ toHost # <<>> /\ toHost' = Tail(toHost)
  BY DEF OpenWindow, Revoke, Interrupt, Leave, Unlink, Relink, Lose, Expire,
         Severed, aside, link, receiver
<1>3. Waiting(toHost') \subseteq Waiting(toHost)
  <2>1. toHost \in Seq(Statuses)
    BY <1>1 DEF Typed
  <2>2. CASE toHost' \in {toHost, <<>>}
    BY <2>1, <2>2, Queue
  <2>3. CASE toHost # <<>> /\ toHost' = Tail(toHost)
    BY <2>1, <2>3, Queue
  <2> QED
    BY <1>2, <2>2, <2>3
<1>4. offer' = offer \/ offer'.pending = FALSE
  BY NothingOffered
     DEF OpenWindow, Revoke, Interrupt, Leave, Unlink, Relink, Lose, Expire,
         aside, receiver, NoOffer
<1>5. /\ up'.phase = up.phase /\ up'.id = up.id
      /\ up.cancelReq => up'.cancelReq
  <2>1. CASE up' = up
    BY <2>1
  <2>2. CASE Interrupt
    BY <1>1, <2>2 DEF Interrupt, Typed, Updates, CancelTaken
  <2>3. CASE Leave
    BY <1>1, <2>3 DEF Leave, Typed, Updates
  <2> QED
    BY <2>1, <2>2, <2>3
       DEF OpenWindow, Revoke, Unlink, Relink, Lose, Expire
<1> QED
  BY <1>2, <1>3, <1>4, <1>5 DEF Carries, Installing

\* A status is sent at most, to the session that statuses are bound to.
LEMMA SentToBound ==
  ASSUME Typed, NEW id \in Sessions \cup {0}, NEW phase \in Phases,
         NEW applied \in BOOLEAN,
         toHost' \in {toHost, Put(toHost, Status(id, phase, applied))}
  PROVE  Waiting(toHost') \subseteq
           Waiting(toHost) \cup {Status(id, phase, applied)}
<1> DEFINE st == Status(id, phase, applied)
<1>1. st \in Statuses /\ toHost \in Seq(Statuses)
  BY DEF Status, Statuses, Typed, Devices
<1> HIDE DEF st
<1>2. toHost' \in {toHost, Put(toHost, st)}
  BY DEF st
<1>3. Waiting(toHost') \subseteq Waiting(toHost) \cup {st}
  BY <1>1, <1>2, Queue
<1> QED
  BY <1>3 DEF st

LEMMA ViewsOfUpdate ==
  ASSUME NEW u \in Updates
  PROVE  ViewPhase(u) \in Phases \ {"running"}
<1>1. u.phase \in Cancellable \cup Terminal \cup {"committed"}
  BY DEF Updates
<1> QED
  BY <1>1 DEF ViewPhase, Phases, Cancellable, Terminal

Steady == \E id, phase, applied : Carries(id, phase, applied)

LEMMA CarriesIsSteady ==
  ASSUME NEW id, NEW phase, NEW applied, Carries(id, phase, applied)
  PROVE  Steady
BY DEF Steady

LEMMA EnterCarries ==
  ASSUME Informed, UNCHANGED <<coordinator, history>>,
         NEW u \in Updates, NEW o, Enter(u, o),
         o = offer \/ o.pending = FALSE,
         u.phase \in LetIn => up.phase \in LetIn \/ offer.pending,
         (u.phase = "readback" /\ ~u.cancelReq) \/ u.phase = "committed" =>
           \/ Installing /\ u.id = up.id
           \/ Waiting(toHost) = {} /\ pc \in Open /\ u.id = cur,
         \/ installed' = installed
         \/ Installing /\ installed' = installed \cup {up.id}
  PROVE  Steady
<1>1. Typed
  BY DEF Informed
<1>2. /\ up' = u /\ UNCHANGED <<target, dev, bound>>
      /\ offer' = offer \/ offer'.pending = FALSE
      /\ toHost' \in {toHost, Put(toHost, Status(bound, ViewPhase(u), FALSE))}
  BY NothingOffered DEF Enter, WriteOnChange
<1>3. ViewPhase(u) \in Phases \ {"running"} /\ bound \in Sessions \cup {0}
  BY <1>1, ViewsOfUpdate DEF Typed
<1>4. Waiting(toHost') \subseteq
        Waiting(toHost) \cup {Status(bound, ViewPhase(u), FALSE)}
  BY <1>1, <1>2, <1>3, SentToBound
<1>5. Installing' => (u.phase = "readback" /\ ~u.cancelReq)
                     \/ u.phase = "committed"
  BY <1>2 DEF Installing
<1>6. Carries(bound, ViewPhase(u), FALSE)
  BY <1>2, <1>3, <1>4, <1>5 DEF Carries
<1> QED
  BY <1>6, CarriesIsSteady

LEMMA StopCarries ==
  ASSUME Informed, UNCHANGED <<coordinator, history>>,
         NEW phase \in Terminal, Stop(phase)
  PROVE  Steady
<1> DEFINE u == [NoUpdate EXCEPT !.active = TRUE, !.phase = phase]
<1>1. u \in Updates /\ u.phase = phase
  BY DEF NoUpdate, Updates, Terminal, Cancellable
<1>2. Enter(u, offer) /\ installed' = installed
  BY DEF Stop
<1>3. phase \notin LetIn
  BY DEF Terminal, LetIn
<1> HIDE DEF u
<1>4. /\ u.phase \notin LetIn
      /\ u.phase # "readback" /\ u.phase # "committed"
  BY <1>1, <1>3 DEF LetIn
<1> QED
  BY <1>1, <1>2, <1>4, EnterCarries

LEMMA ConsumeCarries ==
  ASSUME Informed, UNCHANGED <<coordinator, history>>,
         NEW u \in Updates, offer.pending, offer.id \in Sessions, Consume(u)
  PROVE  Steady
<1> DEFINE w == [u EXCEPT !.phase = "accepted", !.id = offer.id,
                          !.cancelReq = FALSE]
<1>1. w \in Updates /\ w.phase = "accepted"
  BY DEF Updates, Cancellable
<1>2. Enter(w, NoOffer) /\ installed' = installed
  BY DEF Consume
<1> HIDE DEF w
<1> QED
  BY <1>1, <1>2, NothingOffered, EnterCarries

\* The image is fetched while the host serves it, and after the host has read
\* what it was sent.
LEMMA AdvanceCarries ==
  ASSUME IInv, Informed, UNCHANGED <<coordinator, history>>, Advance(Serving)
  PROVE  Steady
<1>1. Typed /\ Ahead /\ up \in Updates
  BY DEF Informed, Typed
<1>2. CASE /\ up.phase = "accepted" /\ Serving = up.id /\ toHost = <<>>
           /\ Enter([up EXCEPT !.phase = "readback"], offer)
           /\ installed' = installed
  <2> DEFINE u == [up EXCEPT !.phase = "readback"]
  <2>1. u \in Updates /\ u.phase = "readback" /\ u.id = up.id
    BY <1>1 DEF Updates, Cancellable
  <2>2. up.id # 0
    BY <1>1, <1>2, OtaDeviceAssumption DEF Ahead, LetIn
  <2>3. pc \in Open /\ up.id = cur
    BY <1>2, <2>2 DEF Serving, Open
  <2>4. Waiting(toHost) = {}
    BY <1>1, <1>2, Queue DEF Typed
  <2> HIDE DEF u
  <2>5. Enter(u, offer)
    BY <1>2 DEF u
  <2> QED
    BY <1>2, <2>1, <2>3, <2>4, <2>5, EnterCarries DEF LetIn
<1>3. CASE /\ up.phase = "readback" /\ ~up.cancelReq
           /\ Enter([up EXCEPT !.phase = "committed"], NoOffer)
           /\ installed' = installed \cup {up.id}
  <2> DEFINE u == [up EXCEPT !.phase = "committed"]
  <2>1. u \in Updates /\ u.phase = "committed" /\ u.id = up.id
    BY <1>1 DEF Updates
  <2> HIDE DEF u
  <2>2. Enter(u, NoOffer)
    BY <1>3 DEF u
  <2> QED
    BY <1>3, <2>1, <2>2, NothingOffered, EnterCarries DEF LetIn, Installing
<1> QED
  BY <1>2, <1>3 DEF Advance

LEMMA StatusPollCarries ==
  ASSUME Informed, UNCHANGED <<coordinator, history>>, StatusPoll
  PROVE  Steady
<1>1. Typed /\ up \in Updates
  BY DEF Informed, Typed
<1>2. /\ UNCHANGED <<target, dev, offer, up, bound, installed>>
      /\ toHost' \in
           {toHost, Put(toHost, Status(bound, ViewPhase(up), FALSE))}
  BY DEF StatusPoll, WriteOnChange
<1>3. ViewPhase(up) \in Phases \ {"running"} /\ bound \in Sessions \cup {0}
  BY <1>1, ViewsOfUpdate DEF Typed
<1>4. Waiting(toHost') \subseteq
        Waiting(toHost) \cup {Status(bound, ViewPhase(up), FALSE)}
  BY <1>1, <1>2, <1>3, SentToBound
<1>5. Carries(bound, ViewPhase(up), FALSE)
  BY <1>2, <1>3, <1>4 DEF Carries, Installing
<1> QED
  BY <1>5, CarriesIsSteady, Zenon

LEMMA PollCarries ==
  ASSUME IInv, Informed, UNCHANGED <<coordinator, history>>, Poll(Serving)
  PROVE  Steady
<1>1. Typed /\ Ahead /\ up \in Updates
  BY DEF Informed, Typed
<1>2. offer.pending => offer.id \in Sessions
  BY DEF IInv, TypeOK
<1>3. CASE Arm
  <2>1. ASSUME NEW a \in BOOLEAN
        PROVE  LET u == [NoUpdate EXCEPT !.active = TRUE, !.auto = a]
               IN  u \in Updates /\ u.phase = "confirm"
    BY DEF NoUpdate, Updates, Cancellable
  <2> DEFINE auto == offer.signed /\ direct
             u == [NoUpdate EXCEPT !.active = TRUE, !.auto = auto]
  <2>2. /\ auto \in BOOLEAN /\ offer.pending
        /\ \/ Consume(u)
           \/ Stop("cancelled")
           \/ Enter(u, offer) /\ installed' = installed
    BY <1>3 DEF Arm
  <2>3. u \in Updates /\ u.phase = "confirm"
    BY <2>2 DEF NoUpdate, Updates, Cancellable
  <2> HIDE DEF auto, u
  <2>4. CASE Consume(u)
    BY <1>2, <2>2, <2>3, <2>4, ConsumeCarries
  <2>5. CASE Stop("cancelled")
    BY <2>5, StopCarries DEF Terminal
  <2>6. CASE Enter(u, offer) /\ installed' = installed
    BY <2>3, <2>6, EnterCarries DEF LetIn
  <2> QED
    BY <2>2, <2>4, <2>5, <2>6
<1>4. CASE Cancelled \/ Fail
  BY <1>4, StopCarries DEF Cancelled, Fail, Terminal
<1>5. CASE Confirm
  BY <1>1, <1>2, <1>5, ConsumeCarries DEF Confirm
<1>6. CASE Advance(Serving)
  BY <1>6, AdvanceCarries
<1>7. CASE StatusPoll
  BY <1>7, StatusPollCarries
<1>8. CASE Leave
  BY <1>8, AsideCarries DEF Steady
<1> QED
  BY <1>3, <1>4, <1>5, <1>6, <1>7, <1>8 DEF Poll

LEMMA AcceptedIsNewer ==
  ASSUME NEW o \in Offers, NEW id, NEW clear, AcceptHint(o, id, clear).pending
  PROVE  target[id] > dev.fw
BY NothingOffered DEF AcceptHint

LEMMA AnswerCarries ==
  ASSUME Informed, UNCHANGED <<coordinator, history, up>>,
         UNCHANGED <<target, dev, installed>>, cur \in Sessions,
         NEW result, NEW report,
         result.pending => target[cur] > dev.fw,
         Answer(cur, result, report)
  PROVE  Steady
<1>1. Typed /\ offer' = result
  BY DEF Informed, Answer
<1>2. CASE result.pending /\ WriteOnChange(cur, "offer-received", FALSE, "none")
  <2>1. Waiting(toHost') \subseteq
          Waiting(toHost) \cup {Status(cur, "offer-received", FALSE)}
    BY <1>1, <1>2, SentToBound DEF WriteOnChange, Phases
  <2>2. Carries(cur, "offer-received", FALSE)
    BY <1>1, <1>2, <2>1 DEF Carries, WriteOnChange, Installing
  <2> QED
    BY <2>2, CarriesIsSteady, Zenon
<1>3. CASE /\ toHost' \in {toHost, Put(toHost, Status(cur, "rejected", FALSE))}
           /\ bound' = bound
  <2>1. Waiting(toHost') \subseteq
          Waiting(toHost) \cup {Status(cur, "rejected", FALSE)}
    BY <1>1, <1>3, SentToBound DEF Phases
  <2>2. Carries(cur, "rejected", FALSE)
    BY <1>1, <1>3, <2>1 DEF Carries, Installing
  <2> QED
    BY <2>2, CarriesIsSteady, Zenon
<1> QED
  BY <1>2, <1>3 DEF Answer

LEMMA CancelLineCarries ==
  ASSUME IInv, Informed, Faithful, UNCHANGED <<coordinator, history>>,
         UNCHANGED <<target, dev, installed>>,
         NEW line, line.id = cur, cur \in Sessions, CancelLine(line)
  PROVE  Steady
<1>1. Typed /\ up \in Updates /\ Answers
  BY DEF Informed, Typed, Faithful
<1>2. UNCHANGED <<offer, bound>>
  BY DEF CancelLine, WriteOnChange
<1>3. CASE up' = up /\ toHost' = toHost
  <2>1. Carries(0, "error", FALSE)
    BY <1>2, <1>3 DEF Carries, Installing
  <2> QED
    BY <2>1, CarriesIsSteady, Zenon
<1>4. CASE /\ cur = bound /\ CancelTaken
           /\ up' = [up EXCEPT !.cancelReq = TRUE]
           /\ WriteOnChange(cur, "cancelled", TRUE, cadence)
  <2>1. up'.cancelReq /\ up'.phase = up.phase /\ up'.id = up.id
    BY <1>1, <1>4 DEF Updates
  <2>2. up.phase # "committed"
    BY <1>4 DEF CancelTaken, Cancellable
  <2>3. ~Installing'
    BY <2>1, <2>2 DEF Installing
  <2>4. target[cur] > dev.fw
    BY <1>1, <1>4, OtaDeviceAssumption DEF Answers
  <2>5. Waiting(toHost') \subseteq
          Waiting(toHost) \cup {Status(cur, "cancelled", TRUE)}
    BY <1>1, <1>4, SentToBound DEF WriteOnChange, Phases
  <2>6. Carries(cur, "cancelled", TRUE)
    BY <1>2, <2>1, <2>3, <2>4, <2>5 DEF Carries
  <2> QED
    BY <2>6, CarriesIsSteady, Zenon
<1>5. CASE /\ up' = up
           /\ toHost' = Put(toHost, Status(bound, ViewPhase(up), FALSE))
  <2>1. ViewPhase(up) \in Phases \ {"running"} /\ bound \in Sessions \cup {0}
    BY <1>1, ViewsOfUpdate DEF Typed
  <2>2. Waiting(toHost') \subseteq
          Waiting(toHost) \cup {Status(bound, ViewPhase(up), FALSE)}
    BY <1>1, <1>5, <2>1, SentToBound
  <2>3. Carries(bound, ViewPhase(up), FALSE)
    BY <1>2, <1>5, <2>1, <2>2 DEF Carries, Installing
  <2> QED
    BY <2>3, CarriesIsSteady, Zenon
<1> QED
  BY <1>3, <1>4, <1>5 DEF CancelLine

LEMMA ReadLineCarries ==
  ASSUME IInv, Informed, Faithful, UNCHANGED <<coordinator, history>>, ReadLine
  PROVE  Steady
<1>1. Typed /\ TypeOK
  BY DEF Informed, IInv
<1> DEFINE line == Head(toDev)
<1>2. line.id = cur /\ cur \in Sessions
  BY <1>1, OneLine DEF ReadLine, TypeOK
<1>3. UNCHANGED <<target, dev, installed>> /\ offer \in Offers
  BY <1>1 DEF ReadLine, TypeOK
<1>4. CASE OfferLine(line)
  <2>1. up' = up
    BY <1>4 DEF OfferLine
  <2>2. PICK result, report :
          /\ Answer(cur, result, report)
          /\ \/ result = NoOffer
             \/ \E o \in Offers, clear \in BOOLEAN :
                  result = AcceptHint(o, cur, clear)
    <3>1. [NoOffer EXCEPT !.window = TRUE, !.signed = TRUE] \in Offers
      BY DEF NoOffer, Offers
    <3>2. CASE SignedOffer(cur)
      BY <3>1, <3>2 DEF SignedOffer
    <3>3. CASE LegacyOffer(cur)
      BY <1>3, <3>3 DEF LegacyOffer
    <3> QED
      BY <1>2, <1>4, <3>2, <3>3 DEF OfferLine
  <2>3. result.pending => target[cur] > dev.fw
    BY <2>2, NothingOffered, AcceptedIsNewer
  <2> QED
    BY <1>2, <1>3, <2>1, <2>2, <2>3, AnswerCarries
<1>5. CASE ProbeLine(line)
  <2> DEFINE phase == IF dev.health = "monitoring" THEN "boot-health"
                      ELSE "running"
  <2>1. /\ toHost' = Put(toHost, Status(cur, phase, FALSE))
        /\ UNCHANGED <<offer, bound, up>>
    BY <1>2, <1>5 DEF ProbeLine, receiver
  <2>2. /\ phase \in Phases
        /\ phase = "running" => dev.health # "monitoring"
    BY DEF Phases
  <2> HIDE DEF phase
  <2>3. Waiting(toHost') \subseteq
          Waiting(toHost) \cup {Status(cur, phase, FALSE)}
    BY <1>1, <1>2, <2>1, <2>2, SentToBound
  <2>4. Carries(cur, phase, FALSE)
    BY <1>2, <1>3, <2>1, <2>2, <2>3 DEF Carries, Installing
  <2> QED
    BY <2>4, CarriesIsSteady, Zenon
<1>6. CASE CancelLine(line)
  <2> HIDE DEF line
  <2> QED
    BY <1>2, <1>3, <1>6, CancelLineCarries
<1> QED
  BY <1>4, <1>5, <1>6 DEF ReadLine

LEMMA DeviceCarries ==
  ASSUME IInv, Informed, Faithful, Device, ~Restart, ~Confirmed
  PROVE  Steady
<1>1. UNCHANGED <<coordinator, history>> /\ DeviceStep(Serving, Offering)
  BY DEF Device
<1>2. CASE ReadLine
  BY <1>1, <1>2, ReadLineCarries
<1>3. CASE Poll(Serving)
  BY <1>1, <1>3, PollCarries
<1>4. CASE \/ OpenWindow \/ Revoke \/ Interrupt \/ Unlink \/ Relink \/ Lose
           \/ \E s \in Sessions : Expire(s, Offering)
  <2>1. Carries(0, "error", FALSE)
    BY <1>1, <1>4, AsideCarries
  <2> QED
    BY <2>1, CarriesIsSteady, Zenon
<1> QED
  BY <1>1, <1>2, <1>3, <1>4 DEF DeviceStep

\* A restart starts the image that was chosen, goes back to the one that was
\* kept, or runs the same one again; what it keeps is what it kept before.
LEMMA Restarts ==
  ASSUME Informed, Restart
  PROVE  /\ offer'.pending = FALSE /\ up'.phase \notin LetIn /\ bound' = 0
         /\ UNCHANGED <<target, installed>> /\ toHost' \in {toHost, <<>>}
         /\ Kept' = Kept
         /\ \/ /\ up.phase = "committed" /\ dev'.fw = target[up.id]
            \/ /\ dev'.health # "monitoring" /\ dev'.fw = Kept
<1>1. Typed /\ Ahead
  BY DEF Informed
<1>2. /\ up' = NoUpdate /\ offer' = NoOffer /\ bound' = 0
      /\ UNCHANGED <<target, installed>> /\ toHost' \in {toHost, <<>>}
  BY DEF Restart, Reboot, Severed
<1>3. NoUpdate.phase \notin LetIn
  BY DEF NoUpdate, LetIn
<1>4. CASE up.active /\ up.phase = "committed"
  <2>1. dev' = [fw |-> target[up.id], prev |-> Kept,
                health |-> "monitoring"]
    BY <1>4 DEF Restart, Reboot
  <2>2. Kept' = Kept /\ dev'.fw = target[up.id]
    BY <2>1 DEF Kept
  <2> QED
    BY <1>2, <1>3, <1>4, <2>2, NothingOffered
<1>5. CASE ~(up.active /\ up.phase = "committed")
  <2>1. dev' = IF dev.health = "monitoring"
                 THEN [fw |-> dev.prev, prev |-> dev.prev,
                       health |-> "rollback"]
                 ELSE [dev EXCEPT !.health = "ordinary"]
    BY <1>5 DEF Restart, Reboot
  <2>2. dev'.health # "monitoring" /\ dev'.fw = Kept
    BY <1>1, <2>1 DEF Kept, Typed, Devices
  <2>3. Kept' = Kept
    BY <2>2 DEF Kept
  <2> QED
    BY <1>2, <1>3, <2>2, <2>3, NothingOffered
<1> QED
  BY <1>4, <1>5

LEMMA RestartFaithful ==
  ASSUME Informed, Faithful, UNCHANGED <<coordinator, history>>, Restart
  PROVE  Faithful'
<1>1. /\ Typed /\ Ahead /\ Settled /\ Stopped /\ CalledOff /\ Answers
  BY DEF Informed, Faithful
<1>2. /\ UNCHANGED <<cur, pc, session, verdict, calledOff>>
      /\ Live' = Live /\ Ceased' = Ceased
  BY DEF coordinator, history, Live, Ceased
<1>3. /\ offer'.pending = FALSE /\ up'.phase \notin LetIn /\ bound' = 0
      /\ UNCHANGED <<target, installed>> /\ toHost' \in {toHost, <<>>}
      /\ Kept' = Kept
      /\ \/ /\ up.phase = "committed" /\ dev'.fw = target[up.id]
         \/ /\ dev'.health # "monitoring" /\ dev'.fw = Kept
  BY Restarts
<1>4. Waiting(toHost') \subseteq Waiting(toHost)
  BY <1>1, <1>3, Queue DEF Typed
<1>5. ~Installing' /\ (Offerable' => Offerable) /\ (Ceasing' => Ceasing)
  BY <1>2, <1>3, <1>4 DEF Installing, LetIn, Offerable, Ceasing
<1>6. Settled'
  <2>1. ASSUME Offerable', Kept = target[cur]
        PROVE  dev'.fw = target[cur]
    BY <1>1, <1>3, <1>5, <2>1 DEF Settled, LetIn
  <2> QED
    BY <1>1, <1>2, <1>3, <1>4, <1>5, <2>1 DEF Settled
<1>7. Stopped'
  <2> SUFFICES ASSUME Ceasing' \/ Ceased'
               PROVE  cur \in Sessions /\ dev'.fw < target[cur]
    BY <1>2, <1>3, <1>5 DEF Stopped
  <2>1. cur \in Sessions /\ dev.fw < target[cur] /\ ~Installing
    BY <1>1, <1>2, <1>5 DEF Stopped
  <2>2. dev'.fw = Kept
    BY <1>3, <2>1 DEF Installing
  <2> QED
    BY <1>1, <2>1, <2>2, KeptVersion
<1>8. CalledOff'
  <2>1. ASSUME dev'.health = "monitoring"
        PROVE  \E s \in installed \ calledOff : target[s] = dev'.fw
    <3>1. up.phase = "committed" /\ dev'.fw = target[up.id]
      BY <1>3, <2>1
    <3>2. up.id \in installed /\ up.id \notin calledOff
      BY <1>1, <3>1 DEF Ahead, CalledOff, Installing
    <3> QED
      BY <3>1, <3>2
  <2> QED
    BY <1>1, <1>2, <1>3, <1>5, <2>1 DEF CalledOff
<1>9. Answers'
  BY <1>1, <1>3, <1>4 DEF Answers
<1> QED
  BY <1>6, <1>7, <1>8, <1>9 DEF Faithful

LEMMA ConfirmedFaithful ==
  ASSUME Informed, Faithful, UNCHANGED <<coordinator, history>>, Confirmed
  PROVE  Faithful'
<1>1. /\ Typed /\ Ahead /\ Settled /\ Stopped /\ CalledOff /\ Answers
  BY DEF Informed, Faithful
<1>2. /\ UNCHANGED <<cur, pc, session, verdict, calledOff, target, installed,
                     offer, up, bound, toHost>>
      /\ Live' = Live /\ Ceased' = Ceased
  BY DEF coordinator, history, Live, Ceased, Confirmed, link, receiver
<1>3. dev'.fw = dev.fw /\ dev'.health = "valid" /\ Kept' = dev.fw
  BY <1>1 DEF Confirmed, Typed, Devices, Kept
<1>4. Offerable' = Offerable /\ Ceasing' = Ceasing /\ Installing' = Installing
  BY <1>2 DEF Offerable, Ceasing, Installing, Live
<1>5. Settled'
  BY <1>1, <1>2, <1>3, <1>4 DEF Settled
<1>6. Stopped' /\ Answers'
  BY <1>1, <1>2, <1>3, <1>4 DEF Stopped, Answers
<1>7. CalledOff'
  BY <1>1, <1>2, <1>3, <1>4 DEF CalledOff
<1> QED
  BY <1>5, <1>6, <1>7 DEF Faithful

LEMMA DeviceFaithful ==
  ASSUME IInv, Informed, Faithful, Device
  PROVE  Faithful'
<1>1. CASE Restart \/ Confirmed
  BY <1>1, RestartFaithful, ConfirmedFaithful DEF Device
<1>2. CASE ~Restart /\ ~Confirmed
  <2>1. PICK id, phase, applied : Carries(id, phase, applied)
    BY <1>2, DeviceCarries DEF Steady
  <2> QED
    BY <2>1, CarriesFaithful
<1> QED
  BY <1>1, <1>2

\* ---- The host's steps

\* What a step of the host reads of the device and leaves of it.
Reads ==
  /\ UNCHANGED <<deviceState, cur, calledOff>>
  /\ Waiting(toHost') \subseteq Waiting(toHost)

\* run() goes on with what it knew.
Going ==
  /\ Reads /\ verdict' = verdict
  /\ (Offerable' => Offerable) /\ (Live' => Live) /\ (Ceased' => Ceased)

\* run() ends: with a success when the version is kept, with a cancellation
\* when it was told of one.
Closing(v) ==
  /\ Reads /\ Live /\ ~Live' /\ cur \in Sessions
  /\ verdict' = [verdict EXCEPT ![cur] = v]
  /\ v = "success" => Kept = target[cur]
  /\ Ceased' => v = "cancelled" /\ Ceasing
Closed == \E v \in Verdicts \ {"open"} : Closing(v)

\* cancel() returns TRUE.
Calling ==
  /\ UNCHANGED <<deviceState, cur, verdict, pc, session, toHost>>
  /\ Ceased /\ calledOff' = calledOff \cup {cur}

LEMMA ReadsLittle ==
  ASSUME Reads, Live' => Live
  PROVE  /\ UNCHANGED <<target, dev, up, bound, offer, installed, cur,
                        calledOff>>
         /\ Kept' = Kept /\ Installing' = Installing /\ (Ceasing' => Ceasing)
BY DEF Reads, deviceState, Kept, Installing, Ceasing

LEMMA GoingFaithful ==
  ASSUME Faithful, Going
  PROVE  Faithful'
<1>1. /\ Settled /\ Stopped /\ CalledOff /\ Answers
      /\ Waiting(toHost') \subseteq Waiting(toHost)
  BY DEF Faithful, Going, Reads
<1>2. /\ UNCHANGED <<target, dev, up, bound, offer, installed, cur, calledOff,
                     verdict>>
      /\ Kept' = Kept /\ Installing' = Installing /\ (Ceasing' => Ceasing)
      /\ (Offerable' => Offerable) /\ (Ceased' => Ceased)
  BY ReadsLittle DEF Going
<1>3. Settled'
  BY <1>1, <1>2 DEF Settled
<1>4. Stopped' /\ CalledOff' /\ Answers'
  BY <1>1, <1>2 DEF Stopped, CalledOff, Answers
<1> QED
  BY <1>3, <1>4 DEF Faithful

LEMMA ClosingFaithful ==
  ASSUME Informed, Faithful, NEW v \in Verdicts \ {"open"}, Closing(v)
  PROVE  Faithful' /\ verdict[cur] = "open"
<1>1. /\ Typed /\ Reported /\ Stopped /\ CalledOff /\ Answers
      /\ Waiting(toHost') \subseteq Waiting(toHost)
  BY DEF Informed, Faithful, Closing, Reads
<1>2. /\ UNCHANGED <<target, dev, up, bound, offer, installed, cur, calledOff>>
      /\ Installing' = Installing
  BY ReadsLittle DEF Closing
<1>3. /\ ~Offerable' /\ ~Ceasing' /\ cur \in Sessions
      /\ Ceased' => v = "cancelled" /\ Ceasing
  BY DEF Closing, Offerable, Ceasing, Live, Open
<1>4. verdict[cur] = "open"
  BY <1>1, <1>3 DEF Closing, Reported
<1>5. verdict' = [verdict EXCEPT ![cur] = v] /\ verdict'[cur] = v
  BY <1>1, <1>3 DEF Closing, Typed
<1>6. Settled' /\ Stopped' /\ Answers'
  BY <1>1, <1>2, <1>3 DEF Settled, Stopped, Answers
<1>7. CalledOff'
  <2>1. \A s \in calledOff : s # cur
    BY <1>1, <1>4 DEF CalledOff
  <2>2. \A s \in Sessions : s # cur => verdict'[s] = verdict[s]
    BY <1>1, <1>5 DEF Typed
  <2> QED
    BY <1>1, <1>2, <1>3, <1>5, <2>1, <2>2 DEF CalledOff
<1> QED
  BY <1>4, <1>6, <1>7 DEF Faithful

LEMMA CallingFaithful ==
  ASSUME Informed, Faithful, Calling
  PROVE  /\ Faithful' /\ cur \in Sessions
         /\ verdict[cur] = "cancelled" /\ Kept # target[cur]
<1>1. /\ Typed /\ Ahead /\ Settled /\ Stopped /\ CalledOff /\ Answers
  BY DEF Informed, Faithful
<1>2. /\ UNCHANGED <<target, dev, up, bound, offer, installed, cur, verdict,
                     pc, session, toHost>>
      /\ Kept' = Kept /\ Installing' = Installing /\ Ceasing' = Ceasing
      /\ Ceased' = Ceased /\ Offerable' = Offerable /\ Ceased
      /\ calledOff' = calledOff \cup {cur}
  BY DEF Calling, deviceState, Kept, Installing, Ceasing, Ceased, Offerable,
         Live
<1>3. cur \in Sessions /\ dev.fw < target[cur] /\ ~Installing
  BY <1>1, <1>2 DEF Stopped
<1>4. verdict[cur] = "cancelled" /\ Kept # target[cur] /\ dev.fw # target[cur]
  BY <1>1, <1>2, <1>3, KeptVersion DEF CalledOff
<1>5. Settled' /\ Stopped' /\ Answers'
  BY <1>1, <1>2 DEF Settled, Stopped, Answers
<1>6. CalledOff'
  BY <1>1, <1>2, <1>3, <1>4 DEF CalledOff
<1> QED
  BY <1>3, <1>4, <1>5, <1>6 DEF Faithful

LEMMA BeginFaithful ==
  ASSUME Informed, Faithful, Begin
  PROVE  Faithful'
<1>1. Typed /\ CalledOff /\ Answers
  BY DEF Informed, Faithful
<1>2. /\ UNCHANGED <<target, dev, up, bound, offer, installed, verdict,
                     calledOff>>
      /\ pc' = "probe" /\ toHost' = <<>>
  BY DEF Begin, StillDevice, still, receiver
<1>3. Waiting(toHost') = {}
  BY <1>1, <1>2, Queue DEF Typed
<1>4. ~Offerable' /\ ~Ceasing' /\ ~Ceased' /\ Installing' = Installing
  BY <1>2, <1>3 DEF Offerable, Ceasing, Ceased, Installing, Open
<1> QED
  BY <1>1, <1>2, <1>3, <1>4
     DEF Faithful, Settled, Stopped, CalledOff, Answers

LEMMA EndCloses ==
  ASSUME Reads, Live, cur \in Sessions, NEW q, NEW c,
         NEW v \in Verdicts \ {"open"}, End(q, c, v),
         v = "success" => Kept = target[cur],
         v = "cancelled" => Ceasing
  PROVE  Closed
<1>1. /\ verdict' = [verdict EXCEPT ![cur] = v] /\ ~Live'
      /\ session'.phase = "cancelled" => v = "cancelled"
  BY DEF End, Live, NewSession
<1>2. Closing(v)
  BY <1>1 DEF Closing, Ceased
<1> QED
  BY <1>2 DEF Closed

LEMMA TryAgainFaithful ==
  ASSUME Reads, cur \in Sessions, pc = "offer", NEW q, NEW c, TryAgain(q, c)
  PROVE  Going \/ Closed
<1>1. CASE pc' = "send" /\ verdict' = verdict
  BY <1>1 DEF Going, Offerable, Open, Live, Ceased
<1>2. CASE End(q, c, "failed")
  BY <1>2, EndCloses DEF Verdicts, Live
<1> QED
  BY <1>1, <1>2 DEF TryAgain

LEMMA TakeFaithful ==
  ASSUME Faithful, Reads, cur \in Sessions, pc \in {"probe", "offer", "install"},
         NEW st \in Waiting(toHost), st.to = cur,
         st.phase = "cancelled" => st.applied,
         NEW q, NEW c, Take(st, q, c)
  PROVE  Going \/ Closed
<1>1. Live
  BY DEF Live
<1>2. CASE End(q, c, "failed")
  BY <1>1, <1>2, EndCloses DEF Verdicts
<1>3. CASE st.phase = "cancelled" /\ End(q, c, "cancelled")
  <2>1. Ceasing
    BY <1>1, <1>3 DEF Ceasing
  <2> QED
    BY <1>1, <1>3, <2>1, EndCloses DEF Verdicts
<1>4. CASE pc # "probe" /\ Healthy(st) /\ End(q, c, "success")
  <2>1. Kept = target[cur]
    BY <1>4 DEF Faithful, Settled, Offerable, Open, Healthy
  <2> QED
    BY <1>1, <1>4, <2>1, EndCloses DEF Verdicts
<1>5. CASE pc = "offer" /\ TryAgain(q, c)
  BY <1>5, TryAgainFaithful
<1>6. CASE pc' = pc /\ verdict' = verdict
  BY <1>1, <1>6 DEF Going, Offerable, Live, Ceased, Reads, deviceState
<1>7. CASE pc # "probe" /\ Progress(st, q, c)
  <2>1. verdict' = verdict /\ pc' = "install" /\ pc \in Open
    BY <1>7 DEF Progress, Open
  <2> QED
    BY <1>1, <2>1 DEF Going, Offerable, Live, Ceased
<1>8. CASE pc = "probe" /\ Probed(st, q, c)
  <2>1. CASE /\ st.phase = "running" /\ target[cur] > st.version
             /\ pc' = "send" /\ verdict' = verdict
    <3>1. Offerable
      BY <1>8, <2>1 DEF Offerable
    <3> QED
      BY <1>1, <2>1, <3>1 DEF Going, Live, Ceased
  <2> QED
    BY <1>2, <1>8, <2>1 DEF Probed
<1> QED
  BY <1>2, <1>3, <1>4, <1>5, <1>6, <1>7, <1>8 DEF Take, Ended

LEMMA ReceiveFaithful ==
  ASSUME IInv, Informed, Faithful, Receive
  PROVE  Going \/ Closed
<1> DEFINE st == Head(toHost)
           answers == session.sent /\ (st.applied \/ st.phase \in Refusals)
           q == IF answers THEN Finished(session, st.applied) ELSE session
           c == IF answers THEN Answered(call, session, st.applied) ELSE call
<1>1. Typed /\ TypeOK
  BY DEF IInv, Informed
<1>2. /\ pc \in {"probe", "offer", "install"} /\ toHost # <<>>
      /\ toHost' = Tail(toHost) /\ UNCHANGED <<deviceState, cur, calledOff>>
  BY DEF Receive, Receiving, StillDevice, still, receiver, deviceState
<1>3. cur \in Sessions /\ Live
  BY <1>1, <1>2 DEF TypeOK, Live
<1>4. st \in Waiting(toHost) /\ Reads
  BY <1>1, <1>2, Queue DEF Typed, Reads
<1> HIDE DEF q, c
<1>5. CASE pc' = pc /\ verdict' = verdict
  BY <1>2, <1>3, <1>4, <1>5
     DEF Going, Offerable, Live, Ceased, Reads, deviceState
<1>6. CASE /\ st.to = cur /\ (st.phase = "cancelled" => st.applied)
           /\ Take(st, q, c)
  <2> HIDE DEF st
  <2> QED
    BY <1>2, <1>3, <1>4, <1>6, TakeFaithful
<1> QED
  BY <1>5, <1>6 DEF Receive, q, c

LEMMA HostFaithful ==
  ASSUME IInv, Informed, Faithful, Host
  PROVE  Going \/ Closed \/ Calling \/ Begin
<1>1. Typed /\ TypeOK
  BY DEF IInv, Informed
<1>2. CASE Begin \/ Receive
  BY <1>2, ReceiveFaithful
<1>3. CASE Cancel \/ CancelTimesOut \/ CancelReturns \/ SendCancel \/ Probe
  <2>1. /\ UNCHANGED <<deviceState, cur, pc, verdict, toHost>>
    BY <1>3
       DEF Cancel, CancelTimesOut, CancelReturns, SendCancel, Probe,
           StillDevice, still, deviceVars, receiver, link, deviceState, history
  <2>2. CASE calledOff' = calledOff /\ (Ceased' => Ceased)
    BY <2>1, <2>2 DEF Going, Reads, Offerable, Live, deviceState
  <2>3. CASE Ceased /\ calledOff' = calledOff \cup {cur} /\ session' = session
    BY <2>1, <2>3 DEF Calling
  <2>4. CASE Cancel
    BY <2>2, <2>3, <2>4 DEF Cancel, Ceased
  <2>5. CASE CancelReturns
    BY <2>3, <2>5 DEF CancelReturns, Ceased
  <2>6. CASE CancelTimesOut \/ SendCancel \/ Probe
    BY <2>2, <2>6
       DEF CancelTimesOut, SendCancel, Probe, Ceased, Receiving, history
  <2> QED
    BY <1>3, <2>4, <2>5, <2>6
<1>4. CASE SendOffer \/ TimesOut \/ LinkFails \/ Shutdown
  <2>1. Reads
    BY <1>4
       DEF SendOffer, TimesOut, LinkFails, Shutdown, StillDevice, still,
           hostAside, deviceVars, receiver, link, deviceState, Reads
  <2>2. Live /\ cur \in Sessions
    BY <1>1, <1>4
       DEF SendOffer, TimesOut, LinkFails, Shutdown, Receiving, Live, TypeOK
  <2>3. CASE End(session, call, "failed")
    BY <2>1, <2>2, <2>3, EndCloses DEF Verdicts
  <2>4. CASE pc = "offer" /\ TryAgain(session, call)
    BY <2>1, <2>2, <2>4, TryAgainFaithful
  <2>5. CASE /\ pc' = pc \/ (pc = "send" /\ pc' = "offer")
             /\ verdict' = verdict
    <3>1. \/ Offerable /\ pc' # "over"
          \/ pc' = pc /\ (Offerable' => Offerable)
      BY <1>4, <2>1, <2>5
         DEF Offerable, Open, Reads, deviceState
    <3> QED
      BY <2>1, <2>2, <2>5, <3>1 DEF Going, Live, Ceased
  <2>6. CASE Shutdown
    <3>1. Closing("stopped")
      BY <2>1, <2>2, <2>6 DEF Shutdown, Closing, Live, Ceased
    <3> QED
      BY <3>1 DEF Closed, Verdicts
  <2> QED
    BY <1>4, <2>3, <2>4, <2>5, <2>6 DEF SendOffer, TimesOut, LinkFails
<1> QED
  BY <1>2, <1>3, <1>4 DEF Host

LEMMA InitFaithful ==
  ASSUME SystemInit
  PROVE  Faithful
<1>1. /\ toHost = <<>> /\ up = NoUpdate /\ bound = 0 /\ pc = "over"
      /\ session = NewSession /\ calledOff = {}
      /\ dev.health = "ordinary"
  BY DEF SystemInit, Init, HostInit
<1>2. Waiting(toHost) = {}
  <2>1. <<>> \in Seq(Statuses)
    OBVIOUS
  <2> QED
    BY <1>1, <2>1, Queue
<1>3. ~Offerable /\ ~Ceasing /\ ~Ceased /\ ~Installing
  BY <1>1, <1>2
     DEF Offerable, Ceasing, Ceased, Installing, Open, NewSession, NoUpdate
<1> QED
  BY <1>1, <1>2, <1>3 DEF Faithful, Settled, Stopped, CalledOff, Answers

promised == <<Kept, target, verdict, installed, calledOff>>

LEMMA StutterFaithful ==
  ASSUME Faithful, UNCHANGED vars
  PROVE  Faithful' /\ UNCHANGED promised
<1>1. Going /\ UNCHANGED <<dev, installed>>
  BY DEF vars, deviceVars, link, receiver, coordinator, history, Going, Reads,
         deviceState, Offerable, Live, Ceased
<1> QED
  BY <1>1, GoingFaithful, ReadsLittle DEF Going, promised, Reads

\* A step of the device keeps the promise: it installs the image of a session
\* that was not called off, or goes on with one.
LEMMA DeviceKeepsPromise ==
  ASSUME IInv, Informed, Faithful, Device
  PROVE  Promise!Next \/ UNCHANGED promised
<1>1. UNCHANGED <<coordinator, history>> /\ CalledOff /\ Ahead /\ Typed
  BY DEF Device, Faithful, Informed
<1>2. CASE Restart
  BY <1>1, <1>2, Restarts DEF promised, history
<1>3. CASE Confirmed
  <2>1. PICK s \in installed \ calledOff : target[s] = dev.fw
    BY <1>1, <1>3 DEF Confirmed, CalledOff
  <2>2. Kept' = dev.fw /\ UNCHANGED <<target, verdict, installed, calledOff>>
    BY <1>1, <1>3 DEF Confirmed, Typed, Devices, Kept, history
  <2>3. Promise!Keep(s) /\ s \in Sessions
    BY <1>1, <2>1, <2>2 DEF Promise!Keep, Typed
  <2> QED
    BY <2>3 DEF Promise!Next
<1>4. CASE ~Restart /\ ~Confirmed
  <2>1. PICK id, phase, applied : Carries(id, phase, applied)
    BY <1>4, DeviceCarries DEF Steady
  <2>2. UNCHANGED <<Kept, target, verdict, calledOff>>
    BY <2>1 DEF Carries, Kept, history
  <2>3. CASE installed' = installed
    BY <2>2, <2>3 DEF promised
  <2>4. CASE Installing /\ installed' = installed \cup {up.id}
    <3>1. up.id \in Sessions /\ up.id \notin calledOff
      BY <1>1, <2>4 DEF Ahead, LetIn, Installing, CalledOff
    <3>2. Promise!Install(up.id)
      BY <2>2, <2>4, <3>1 DEF Promise!Install
    <3> QED
      BY <3>1, <3>2 DEF Promise!Next
  <2> QED
    BY <2>1, <2>3, <2>4 DEF Carries
<1> QED
  BY <1>2, <1>3, <1>4

\* So does a step of the host: it reports what the device did.
LEMMA HostKeepsPromise ==
  ASSUME IInv, Informed, Faithful, Host
  PROVE  Faithful' /\ (Promise!Next \/ UNCHANGED promised)
<1>1. CASE Going
  BY <1>1, GoingFaithful, ReadsLittle DEF Going, promised
<1>2. CASE Closed
  <2>1. PICK v \in Verdicts \ {"open"} : Closing(v)
    BY <1>2 DEF Closed
  <2>2. Faithful' /\ verdict[cur] = "open"
    BY <2>1, ClosingFaithful
  <2>3. UNCHANGED <<Kept, target, installed, calledOff>>
    BY <2>1, ReadsLittle DEF Closing
  <2>4. Promise!Report(cur, v) /\ cur \in Sessions
    BY <2>1, <2>2, <2>3 DEF Closing, Promise!Report
  <2> QED
    BY <2>2, <2>4 DEF Promise!Next
<1>3. CASE Calling
  <2>1. /\ Faithful' /\ cur \in Sessions
        /\ verdict[cur] = "cancelled" /\ Kept # target[cur]
    BY <1>3, CallingFaithful
  <2>2. Promise!CallOff(cur)
    BY <1>3, <2>1 DEF Calling, deviceState, Kept, Promise!CallOff
  <2> QED
    BY <2>1, <2>2 DEF Promise!Next
<1>4. CASE Begin
  <2>1. UNCHANGED promised
    BY <1>4 DEF Begin, StillDevice, still, receiver, Kept, promised
  <2> QED
    BY <1>4, <2>1, BeginFaithful
<1> QED
  BY <1>1, <1>2, <1>3, <1>4, HostFaithful

LEMMA StepKeepsPromise ==
  ASSUME IInv, Informed, Faithful, [SystemNext]_vars
  PROVE  Faithful' /\ (Promise!Next \/ UNCHANGED promised)
BY DeviceFaithful, DeviceKeepsPromise, HostKeepsPromise, StutterFaithful
   DEF SystemNext

\* What the coordinator believes of the device is so, and a cancel that was
\* answered with "applied" left nothing behind that could still install the
\* session's image (ota_coordination.py run(), otaStatusCancel, otaUpdatePoll).
THEOREM FaithfulAlways == Spec => []Faithful
<1>1. SystemInit => Faithful
  BY InitFaithful
<1>2. IInv /\ Informed /\ Faithful /\ [SystemNext]_vars => Faithful'
  BY StepKeepsPromise
<1> QED
  BY <1>1, <1>2, Invariant, InformedAlways, PTL DEF Spec

\* The device and the coordinator together do what is promised of an update:
\* no success is reported unless the device keeps the version asked for, no
\* image of a session starts or stays after its cancel was answered with
\* "applied", and no report is taken back.
THEOREM ReportIsImplemented == Spec => ImplementsReport
<1>1. SystemInit => Promise!Init
  BY DEF SystemInit, Init, HostInit, Promise!Init
<1>2. IInv /\ Informed /\ Faithful /\ [SystemNext]_vars
        => [Promise!Next]_(Promise!reportVars)
  BY StepKeepsPromise DEF promised, Promise!reportVars
<1> QED
  BY <1>1, <1>2, Invariant, InformedAlways, FaithfulAlways, PTL
     DEF Spec, ImplementsReport, Promise!Spec
=============================================================================

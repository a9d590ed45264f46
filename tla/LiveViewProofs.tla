---------------------------- MODULE LiveViewProofs ----------------------------
(***************************************************************************)
(* Proofs about the dashboard of one run, for any number of overlapping    *)
(* pushes and any writers and bounds: it leaves the log to the engines, so *)
(* that what EventLogProofs shows holds beside it too; and                 *)
(* SentOnceInOrder.                                                        *)
(***************************************************************************)
EXTENDS LiveView, EventLogProofs

-----------------------------------------------------------------------------
(* The log *)

LEMMA ViewStepOfLog == [ViewNext]_<<vars, size, viewVars>> => [Next]_vars
BY DEF ViewNext, Engine, Refresh, Answer, Connect, PushRead, PushSend, vars

\* The dashboard reads: whatever the engines do while it is open, they could
\* do without it, and the log they write is the log of EventLog.
THEOREM ViewLeavesLog == ViewSpec => Spec
<1>1. ViewInit => Init
  BY DEF ViewInit
<1>2. QED
  BY <1>1, ViewStepOfLog, PTL DEF ViewSpec, Spec

\* While no write is cut or refused, the log that the dashboard reads is
\* readable whenever it reads it, between the bytes of a write too.
THEOREM ViewReadable == NoFaults => (ViewSpec => []AlwaysReadable)
BY ViewLeavesLog, Recoverable, PTL

\* And it is the log that the store promises.
THEOREM ViewDurable == NoFaults => (ViewSpec => ImplementsDurableLog)
BY ViewLeavesLog, StoreIsDurable, PTL

-----------------------------------------------------------------------------
(* The connection *)

\* offset tells how much has been sent, and that was the file's beginning:
\* every read under way, of whatever age, is a length of the file, so that
\* what is sent next begins where the last sending ended.
SentInv ==
  /\ size \in Nat
  /\ offset \in Nat
  /\ reads \subseteq Nat
  /\ sent \in Seq(Nat)
  /\ Len(sent) = offset
  /\ \A i \in 1..Len(sent) : sent[i] = i

LEMMA UnitFacts ==
  ASSUME NEW from \in Nat, NEW to \in Nat, to > from
  PROVE  /\ Units(from, to) \in Seq(Nat)
         /\ Len(Units(from, to)) = to - from
         /\ \A i \in 1..(to - from) : Units(from, to)[i] = from + i
<1>1. to - from \in Nat /\ \A i \in 1..(to - from) : from + i \in Nat
  OBVIOUS
<1> QED
  BY <1>1 DEF Units

LEMMA JoinFacts ==
  ASSUME NEW s \in Seq(Nat), NEW t \in Seq(Nat)
  PROVE  /\ s \o t \in Seq(Nat)
         /\ Len(s \o t) = Len(s) + Len(t)
         /\ \A i \in 1..(Len(s) + Len(t)) :
              (s \o t)[i] = IF i <= Len(s) THEN s[i] ELSE t[i - Len(s)]
OBVIOUS

LEMMA SentInvInit == ViewInit => SentInv
BY DEF ViewInit, SentInv

LEMMA SentInvNext == SentInv /\ [ViewNext]_<<vars, size, viewVars>> => SentInv'
<1> SUFFICES ASSUME SentInv, [ViewNext]_<<vars, size, viewVars>>
             PROVE  SentInv'
  OBVIOUS
<1>1. CASE Engine
  BY <1>1 DEF Engine, viewVars, SentInv
<1>2. CASE Refresh \/ Answer
  BY <1>2 DEF Refresh, Answer, SentInv
<1>3. CASE Connect
  <2>1. <<>> \in Seq(Nat) /\ Len(<<>>) = 0
    OBVIOUS
  <2> QED
    BY <1>3, <2>1 DEF Connect, SentInv
<1>4. CASE PushRead
  BY <1>4 DEF PushRead, SentInv
<1>5. CASE PushSend
  <2>1. PICK length \in reads :
          /\ reads' = reads \ {length}
          /\ IF length > offset
               THEN sent' = sent \o Units(offset, length) /\ offset' = length
               ELSE UNCHANGED <<sent, offset>>
    BY <1>5 DEF PushSend
  <2>2. length \in Nat /\ size' = size /\ reads' \subseteq Nat
    BY <1>5, <2>1 DEF PushSend, SentInv
  <2>3. CASE length > offset
    <3>1. /\ Units(offset, length) \in Seq(Nat)
          /\ Len(Units(offset, length)) = length - offset
          /\ \A i \in 1..(length - offset) : Units(offset, length)[i] = offset + i
      BY <2>2, <2>3, UnitFacts DEF SentInv
    <3>2. sent' = sent \o Units(offset, length) /\ offset' = length
      BY <2>1, <2>3
    <3>3. /\ sent' \in Seq(Nat)
          /\ Len(sent') = Len(sent) + Len(Units(offset, length))
          /\ \A i \in 1..(Len(sent) + Len(Units(offset, length))) :
               sent'[i] = IF i <= Len(sent) THEN sent[i]
                          ELSE Units(offset, length)[i - Len(sent)]
      BY <3>1, <3>2, JoinFacts DEF SentInv
    <3>4. Len(sent') = length
      BY <2>2, <3>1, <3>3 DEF SentInv
    <3>5. ASSUME NEW i \in 1..Len(sent')
          PROVE  sent'[i] = i
      <4>1. CASE i <= offset
        BY <2>2, <3>1, <3>3, <3>4, <4>1 DEF SentInv
      <4>2. CASE i > offset
        <5>1. i - offset \in 1..(length - offset)
          BY <2>2, <3>4, <4>2 DEF SentInv
        <5>2. Units(offset, length)[i - offset] = offset + (i - offset)
          BY <3>1, <5>1
        <5>3. offset + (i - offset) = i /\ Len(sent) = offset /\ ~(i <= Len(sent))
          BY <2>2, <3>4, <4>2 DEF SentInv
        <5>4. i \in 1..(Len(sent) + Len(Units(offset, length)))
          BY <3>3
        <5> QED
          BY <3>3, <5>2, <5>3, <5>4
      <4> QED
        BY <2>2, <3>4, <4>1, <4>2 DEF SentInv
    <3> QED
      BY <2>2, <3>2, <3>3, <3>4, <3>5 DEF SentInv
  <2>4. CASE ~(length > offset)
    BY <2>1, <2>2, <2>4 DEF SentInv
  <2> QED
    BY <2>3, <2>4
<1>6. CASE UNCHANGED <<vars, size, viewVars>>
  BY <1>6 DEF viewVars, SentInv
<1> QED
  BY <1>1, <1>2, <1>3, <1>4, <1>5, <1>6 DEF ViewNext

\* However many pushes overlap, and in whatever order their reads come back, a
\* connection gets every unit of text once and in order.
THEOREM SentInOrder == ViewSpec => []SentOnceInOrder
<1>1. SentInv => SentOnceInOrder
  BY DEF SentInv, SentOnceInOrder
<1>2. QED
  BY <1>1, SentInvInit, SentInvNext, PTL DEF ViewSpec

=============================================================================

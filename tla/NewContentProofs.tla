--------------------------- MODULE NewContentProofs ---------------------------
(***************************************************************************)
(* Proofs about NewContent: no item is announced twice, the stored times   *)
(* pass over nothing and never go back, for any limit of the queries and   *)
(* any lead of the device's clock.                                         *)
(***************************************************************************)
EXTENDS NewContentInvariant, WellFoundedInduction, TLAPS

Stamps == 0 .. MaxTime + Ahead

-----------------------------------------------------------------------------
(* Lemmas about the operators.                                             *)

\* Largest finds the newest document of an answer.
LEMMA LargestIs ==
    ASSUME NEW S \in SUBSET Times, S # {}
    PROVE  Largest(S) \in S /\ \A t \in S : t <= Largest(S)
<1>. DEFINE T == {MaxTime - s : s \in S}
            R == {p \in Nat \X Nat : p[1] < p[2]}
<1>0. MaxTime \in Nat
    BY TimeAssumption
<1>1. IsWellFoundedOn(R, Nat)
    BY NatLessThanWellFounded DEF OpToRel
<1>2. T \subseteq Nat /\ T # {}
  <2>1. \A s \in S : MaxTime - s \in Nat
    BY <1>0 DEF Times
  <2>2. PICK s \in S : TRUE
    OBVIOUS
  <2>3. MaxTime - s \in T
    OBVIOUS
  <2>. QED BY <2>1, <2>3
<1>3. \E x \in T : \A y \in T : <<y, x>> \notin R
  <2>. HIDE DEF T, R
  <2>. QED BY <1>1, <1>2, WFMin
<1>4. PICK s \in S : \A t \in S : <<MaxTime - t, MaxTime - s>> \notin R
    BY <1>3
<1>5. ASSUME NEW t \in S PROVE t <= s
  <2>1. ~ (MaxTime - t < MaxTime - s)
    BY <1>2, <1>4
  <2>2. t \in Int /\ s \in Int /\ MaxTime \in Int
    BY TimeAssumption DEF Times
  <2>. QED BY <2>1, <2>2
<1>. QED BY <1>5 DEF Largest

LEMMA NewestSubset ==
    ASSUME NEW S
    PROVE  Newest(S) \subseteq S
BY DEF Newest

\* What is stored is a time, and of a nonempty answer its newest document.
LEMMA NextSeenIs ==
    ASSUME TypeOK, NEW k \in Kinds, found[k] # None
    PROVE  /\ NextSeen(k) \in Stamps
           /\ found[k] # {} => /\ NextSeen(k) \in found[k]
                               /\ \A s \in found[k] : s <= NextSeen(k)
           /\ found[k] = {} /\ seen[k] # None => NextSeen(k) = seen[k]
<1>1. found[k] \in SUBSET Times
    BY DEF TypeOK
<1>2. CASE found[k] # {}
  <2>1. Largest(found[k]) \in found[k] /\ \A s \in found[k] : s <= Largest(found[k])
    BY <1>1, <1>2, LargestIs
  <2>. QED BY <1>1, <1>2, <2>1, TimeAssumption DEF NextSeen, Stamps, Times
<1>3. CASE found[k] = {}
    BY <1>3 DEF TypeOK, NextSeen, Stamps
<1>. QED BY <1>2, <1>3

LEMMA KindsAre == "audio" \in Kinds /\ "magazine" \in Kinds /\ "audio" # "magazine"
BY DEF Kinds

-----------------------------------------------------------------------------
(* The initial state                                                       *)

LEMMA InitHolds == Init => IInv
<1>. SUFFICES ASSUME Init PROVE IInv
    OBVIOUS
<1>1. TypeOK
  <2>1. 0 \in 0 .. MaxTime /\ 0 \in 0 .. MaxTime + Ahead
    BY TimeAssumption
  <2>2. \A T : {} \in SUBSET T
    OBVIOUS
  <2>. QED BY <2>1, <2>2 DEF Init, TypeOK
<1>2. StampInv /\ LastInv /\ ShownInv /\ CheckInv /\ FoundInv /\ AnswerInv
    BY DEF Init, StampInv, LastInv, ShownInv, CheckInv, FoundInv, AnswerInv,
           Stored, Kinds
<1>3. NeverSkipped
    BY DEF Init, NeverSkipped
<1>. QED BY <1>1, <1>2, <1>3 DEF IInv

-----------------------------------------------------------------------------
(* One lemma per action.                                                   *)

LEMMA PublishStep ==
    ASSUME IInv, NEW k \in Kinds, Publish(k)
    PROVE  IInv'
<1>. USE TimeAssumption DEF IInv
<1>0. /\ time' = time + 1 /\ time \in Nat /\ time' \in Times /\ time' \in 0 .. MaxTime
      /\ stamps' = [stamps EXCEPT ![k] = @ \cup {time + 1}]
      /\ \A j \in Kinds : stamps'[j] \subseteq stamps[j] \cup {time + 1}
      /\ UNCHANGED <<gone, last, check, mounted, history>>
    BY DEF Publish, TypeOK, Times
<1>1. TypeOK'
    BY <1>0 DEF TypeOK, check, history
<1>2. StampInv'
    BY <1>0 DEF StampInv, TypeOK, Times
<1>3. LastInv'
    BY <1>0 DEF LastInv, TypeOK, history
<1>4. ShownInv' /\ CheckInv'
    BY <1>0 DEF ShownInv, CheckInv, Stored, NextSeen, check, history
<1>5. FoundInv'
    BY <1>0 DEF FoundInv, After, TypeOK, check, Times
<1>6. AnswerInv'
  <2>. SUFFICES ASSUME NEW j \in Kinds, found[j] # None,
                       NEW s \in stamps'[j] \ gone[j], NEW f \in found[j],
                       After(j, s), s <= f
                PROVE  s \in found[j] \cup lost[j]
    BY <1>0 DEF AnswerInv, After, check, history
  <2>1. f <= time /\ f \in Times
    BY DEF FoundInv, TypeOK
  <2>2. s # time + 1
    BY <1>0, <2>1 DEF Times
  <2>. QED BY <1>0, <2>2 DEF AnswerInv
<1>7. NeverSkipped'
  <2>. SUFFICES ASSUME NEW j \in Kinds, NEW s \in stamps'[j] \ gone[j],
                       last[j] # None, base[j] < s, s <= last[j]
                PROVE  s \in shown[j] \cup lost[j] \cup Counted(j)
    BY <1>0 DEF NeverSkipped, Counted, check, history
  <2>1. last[j] <= time \/ last[j] = base[j]
    BY DEF LastInv
  <2>2. last[j] \in Nat /\ base[j] \in Nat
    BY DEF LastInv, TypeOK
  <2>3. s # time + 1
    BY <1>0, <2>1, <2>2
  <2>. QED BY <1>0, <2>3 DEF NeverSkipped
<1>. QED BY <1>1, <1>2, <1>3, <1>4, <1>5, <1>6, <1>7

LEMMA WithdrawStep ==
    ASSUME IInv, NEW k \in Kinds, Withdraw(k)
    PROVE  IInv'
<1>. USE DEF IInv
<1>0. /\ UNCHANGED <<time, stamps, last, check, mounted, history>>
      /\ gone' \in [Kinds -> SUBSET Times]
      /\ \A j \in Kinds : gone[j] \subseteq gone'[j]
    BY DEF Withdraw, TypeOK
<1>1. TypeOK'
    BY <1>0 DEF TypeOK, check, history
<1>2. StampInv' /\ LastInv' /\ ShownInv' /\ CheckInv' /\ FoundInv'
    BY <1>0 DEF StampInv, LastInv, ShownInv, CheckInv, FoundInv, Stored,
                NextSeen, After, check, history
<1>3. AnswerInv'
    BY <1>0 DEF AnswerInv, After, check, history
<1>4. NeverSkipped'
    BY <1>0 DEF NeverSkipped, Counted, check, history
<1>. QED BY <1>1, <1>2, <1>3, <1>4

LEMMA StartStep ==
    ASSUME IInv, Start
    PROVE  IInv'
<1>. USE TimeAssumption DEF IInv
<1>0. /\ step = "idle" /\ step' = "query" /\ seen' = last /\ now' = time + Ahead
      /\ found' = [k \in Kinds |-> None] /\ mounted' = TRUE
      /\ UNCHANGED <<store, last, history>>
    BY DEF Start
<1>1. TypeOK'
    BY <1>0 DEF TypeOK, store, history
<1>2. StampInv' /\ LastInv' /\ ShownInv' /\ FoundInv' /\ AnswerInv'
    BY <1>0 DEF StampInv, LastInv, ShownInv, FoundInv, AnswerInv, store, history
<1>3. CheckInv'
    BY <1>0 DEF CheckInv, ShownInv, Stored, store, history
<1>4. NeverSkipped'
    BY <1>0 DEF NeverSkipped, CheckInv, Counted, store, history
<1>. QED BY <1>1, <1>2, <1>3, <1>4

LEMMA AnswerStep ==
    ASSUME IInv, NEW k \in Kinds, Answer(k)
    PROVE  IInv'
<1>. USE TimeAssumption DEF IInv
<1>0. /\ step = "query" /\ found[k] = None
      /\ UNCHANGED <<store, last, step, seen, now, mounted, shown, base>>
    BY DEF Answer
<1>1. PICK asOf \in 0 .. time, out \in SUBSET gone[k] :
        LET match == {s \in stamps[k] \ out : s <= asOf /\ After(k, s)}
        IN  /\ found' = [found EXCEPT ![k] = Newest(match)]
            /\ lost' = [lost EXCEPT ![k] = @ \cup (match \ Newest(match))]
    BY DEF Answer
<1>. DEFINE match == {s \in stamps[k] \ out : s <= asOf /\ After(k, s)}
            F == Newest(match)
<1>2. /\ F \subseteq match /\ match \subseteq Times
      /\ found' = [found EXCEPT ![k] = F]
      /\ lost' = [lost EXCEPT ![k] = @ \cup (match \ F)]
    BY <1>1, NewestSubset DEF TypeOK
<1>. HIDE DEF F
<1>3. TypeOK'
  <2>. HIDE DEF match
  <2>. QED BY <1>0, <1>2 DEF TypeOK, store
<1>4. StampInv' /\ LastInv' /\ ShownInv'
    BY <1>0 DEF StampInv, LastInv, ShownInv, store
<1>5. found'[k] = F /\ F # None /\ \A j \in Kinds \ {k} : found'[j] = found[j]
  <2>1. F \in SUBSET Times
    BY <1>2
  <2>. QED BY <1>2, <2>1 DEF TypeOK
<1>6. CheckInv'
    BY <1>0, <1>5 DEF CheckInv, Stored, NextSeen, store
<1>7. FoundInv'
  <2>1. \A s \in F : s <= time /\ After(k, s)
    BY <1>2 DEF StampInv
  <2>. QED BY <1>0, <1>5, <2>1 DEF FoundInv, After, store
<1>8. \A j \in Kinds : lost[j] \subseteq lost'[j]
    BY <1>2 DEF TypeOK
<1>9. AnswerInv'
  <2>. SUFFICES ASSUME NEW j \in Kinds, found'[j] # None,
                       NEW s \in stamps[j] \ gone[j], NEW f \in found'[j],
                       After(j, s), s <= f
                PROVE  s \in found'[j] \cup lost'[j]
    BY <1>0 DEF AnswerInv, After, store
  <2>1. CASE j # k
    BY <1>5, <1>8, <2>1 DEF AnswerInv
  <2>2. CASE j = k
    <3>1. f \in match
      BY <1>2, <1>5, <2>2
    <3>2. s \in Times /\ f \in Times /\ asOf \in Int
      BY <1>2, <3>1 DEF TypeOK
    <3>3. s <= asOf
      BY <3>1, <3>2 DEF Times
    <3>4. s \in match
      BY <2>2, <3>3
    <3>5. lost'[k] = lost[k] \cup (match \ F)
      <4>. HIDE DEF match
      <4>. QED BY <1>2 DEF TypeOK
    <3>. HIDE DEF match
    <3>. QED BY <1>5, <2>2, <3>4, <3>5
  <2>. QED BY <2>1, <2>2
<1>10. NeverSkipped'
  <2>1. \A j \in Kinds : Counted(j) \subseteq Counted(j)'
    BY <1>0, <1>5 DEF Counted
  <2>. QED BY <1>0, <1>8, <2>1 DEF NeverSkipped, store
<1>. QED BY <1>3, <1>4, <1>6, <1>7, <1>9, <1>10

LEMMA AnsweredStep ==
    ASSUME IInv, Answered
    PROVE  IInv'
<1>. USE DEF IInv
<1>0. /\ step = "query" /\ step' = "audio" /\ \A k \in Kinds : found[k] # None
      /\ UNCHANGED <<store, last, seen, now, found, mounted, history>>
    BY DEF Answered
<1>1. TypeOK'
    BY <1>0 DEF TypeOK, store, history
<1>2. StampInv' /\ LastInv' /\ ShownInv' /\ FoundInv' /\ AnswerInv' /\ NeverSkipped'
    BY <1>0 DEF StampInv, LastInv, ShownInv, FoundInv, AnswerInv, NeverSkipped,
                After, Counted, store, history
<1>3. CheckInv'
    BY <1>0 DEF CheckInv, Stored, NextSeen, store, history
<1>. QED BY <1>1, <1>2, <1>3

LEMMA QueryFailedStep ==
    ASSUME IInv, QueryFailed
    PROVE  IInv'
<1>. USE DEF IInv
<1>0. /\ step = "query" /\ step' = "idle" /\ found' = [k \in Kinds |-> None]
      /\ UNCHANGED <<store, last, seen, now, mounted, history>>
    BY DEF QueryFailed
<1>1. TypeOK'
    BY <1>0 DEF TypeOK, store, history
<1>2. StampInv' /\ LastInv' /\ ShownInv' /\ FoundInv' /\ AnswerInv'
    BY <1>0 DEF StampInv, LastInv, ShownInv, FoundInv, AnswerInv, store, history
<1>3. CheckInv'
    BY <1>0 DEF CheckInv, Stored, store, history
\* What the check found is newer than anything it could have passed over.
<1>4. NeverSkipped'
  <2>. SUFFICES ASSUME NEW k \in Kinds, NEW s \in stamps[k] \ gone[k],
                       last[k] # None, base[k] < s, s <= last[k]
                PROVE  s \in shown[k] \cup lost[k]
    BY <1>0 DEF NeverSkipped, Counted, store, history
  <2>1. s \notin Counted(k)
    <3>1. last[k] = seen[k]
      BY <1>0 DEF CheckInv, Stored
    <3>2. s \in Nat /\ last[k] \in Nat
      BY DEF TypeOK, Times
    <3>. QED BY <3>1, <3>2 DEF FoundInv, After, Counted
  <2>. QED BY <2>1 DEF NeverSkipped
<1>. QED BY <1>1, <1>2, <1>3, <1>4

LEMMA StoreStep ==
    ASSUME IInv, NEW k \in Kinds, NEW next \in {"magazine", "show"}, Store(k, next),
           k = "audio" <=> next = "magazine"
    PROVE  IInv'
<1>. USE TimeAssumption DEF IInv
<1>0. /\ step = k /\ step' = next /\ k # "idle" /\ k \in {"audio", "magazine"}
      /\ last' = [last EXCEPT ![k] = NextSeen(k)]
      /\ base' = IF base[k] = None THEN [base EXCEPT ![k] = NextSeen(k)] ELSE base
      /\ UNCHANGED <<store, seen, now, found, mounted, shown, lost>>
    BY DEF Store, Kinds
<1>1. /\ found[k] # None /\ last[k] = seen[k]
      /\ \A s \in shown[k] : seen[k] # None /\ s <= seen[k]
    BY <1>0 DEF CheckInv, Stored
<1>2. /\ NextSeen(k) \in Stamps
      /\ found[k] # {} => /\ NextSeen(k) \in found[k]
                          /\ \A s \in found[k] : s <= NextSeen(k)
      /\ found[k] = {} /\ seen[k] # None => NextSeen(k) = seen[k]
    BY <1>1, NextSeenIs
<1>3. NextSeen(k) \in Nat /\ NextSeen(k) # None
    BY <1>2 DEF Stamps
<1>4. /\ last'[k] = NextSeen(k) /\ \A j \in Kinds \ {k} : last'[j] = last[j]
      /\ base'[k] = IF base[k] = None THEN NextSeen(k) ELSE base[k]
      /\ \A j \in Kinds \ {k} : base'[j] = base[j]
    BY <1>0 DEF TypeOK
<1>5. TypeOK'
  <2>1. next \in {"idle", "query", "audio", "magazine", "show"}
    OBVIOUS
  <2>. QED BY <1>0, <1>2, <2>1 DEF TypeOK, store, Stamps
\* The stored time moves forward.
<1>6. last[k] # None => last[k] \in Nat /\ last[k] <= NextSeen(k)
  <2>. SUFFICES ASSUME last[k] # None
                PROVE  last[k] \in Nat /\ last[k] <= NextSeen(k)
    OBVIOUS
  <2>1. last[k] \in Nat
    BY DEF TypeOK
  <2>2. CASE found[k] = {}
    BY <1>1, <1>2, <2>1, <2>2
  <2>3. CASE found[k] # {}
    BY <1>1, <1>2, <1>3, <2>1, <2>3 DEF FoundInv, After
  <2>. QED BY <2>1, <2>2, <2>3
<1>7. base[k] # None => base[k] \in Nat
    BY DEF TypeOK
<1>8. StampInv'
    BY <1>0 DEF StampInv, store
<1>9. LastInv'
  <2>1. time' = time
    BY <1>0 DEF store
  <2>2. found[k] # {} => NextSeen(k) <= time
    BY <1>1, <1>2 DEF FoundInv
  <2>3. found[k] = {} /\ base[k] # None => NextSeen(k) = last[k]
    BY <1>1, <1>2 DEF LastInv
  <2>. QED BY <1>3, <1>4, <1>6, <1>7, <2>1, <2>2, <2>3 DEF LastInv
<1>10. ShownInv'
  <2>. SUFFICES ASSUME NEW s \in shown[k]
                PROVE  s <= NextSeen(k)
    BY <1>0, <1>3, <1>4 DEF ShownInv
  <2>1. s \in Nat /\ last[k] # None /\ s <= last[k]
    BY DEF ShownInv, TypeOK, Times
  <2>. QED BY <1>3, <1>6, <2>1
<1>11. CheckInv'
  <2>1. \A j \in Kinds : NextSeen(j)' = NextSeen(j)
    BY <1>0 DEF NextSeen
  <2>. QED BY <1>0, <1>1, <1>4, <2>1 DEF CheckInv, Stored, Kinds
<1>12. FoundInv' /\ AnswerInv'
    BY <1>0 DEF FoundInv, AnswerInv, After, store
\* What comes to lie below the stored time is in the answer or beyond its
\* limit.
<1>13. NeverSkipped'
  <2>. SUFFICES ASSUME NEW s \in stamps[k] \ gone[k],
                       base'[k] < s, s <= NextSeen(k)
                PROVE  s \in shown[k] \cup lost[k] \cup Counted(k)
    BY <1>0, <1>4 DEF NeverSkipped, Counted, store
  <2>1. s \in Nat
    BY DEF TypeOK, Times
  <2>2. base[k] # None /\ base'[k] = base[k]
    BY <1>3, <1>4, <2>1
  <2>3. last[k] # None /\ seen[k] # None /\ last[k] \in Nat
    BY <1>1, <1>6, <2>2 DEF LastInv
  <2>4. CASE s <= last[k]
    BY <2>2, <2>3, <2>4 DEF NeverSkipped
  <2>5. CASE ~ (s <= last[k])
    <3>1. After(k, s)
      BY <1>1, <2>1, <2>3, <2>5 DEF After
    <3>2. found[k] # {}
      BY <1>1, <1>2, <2>3, <2>5
    <3>. QED BY <1>1, <1>2, <3>1, <3>2 DEF AnswerInv, Counted
  <2>. QED BY <2>4, <2>5
<1>. QED BY <1>5, <1>8, <1>9, <1>10, <1>11, <1>12, <1>13

LEMMA ShowStep ==
    ASSUME IInv, Show
    PROVE  IInv'
<1>. USE TimeAssumption DEF IInv
<1>0. /\ step = "show" /\ step' = "idle" /\ found' = [k \in Kinds |-> None]
      /\ \A k \in Kinds : found[k] # None
      /\ UNCHANGED <<store, last, seen, now, mounted, base>>
    BY DEF Show, CheckInv
\* What the check counted goes to one history or the other.
<1>1. /\ shown' \in [Kinds -> SUBSET Times] /\ lost' \in [Kinds -> SUBSET Times]
      /\ \A k \in Kinds : /\ shown[k] \subseteq shown'[k]
                          /\ shown'[k] \subseteq shown[k] \cup found[k]
                          /\ shown'[k] \cup lost'[k]
                               = shown[k] \cup lost[k] \cup found[k]
    BY <1>0 DEF Show, TypeOK
<1>2. TypeOK'
    BY <1>0, <1>1 DEF TypeOK, store
<1>3. StampInv' /\ LastInv' /\ FoundInv' /\ AnswerInv'
    BY <1>0 DEF StampInv, LastInv, FoundInv, AnswerInv, store
<1>4. ShownInv'
  <2>. SUFFICES ASSUME NEW k \in Kinds, NEW s \in shown'[k]
                PROVE  last[k] # None /\ s <= last[k]
    BY <1>0 DEF ShownInv
  <2>1. CASE s \in shown[k]
    BY <2>1 DEF ShownInv
  <2>2. CASE s \in found[k]
    <3>1. last[k] = NextSeen(k)
      BY <1>0 DEF CheckInv, Stored
    <3>2. NextSeen(k) \in Stamps /\ s <= NextSeen(k)
      BY <1>0, <2>2, NextSeenIs
    <3>. QED BY <3>1, <3>2 DEF Stamps
  <2>. QED BY <1>1, <2>1, <2>2
<1>5. CheckInv'
    BY <1>0 DEF CheckInv, Stored
<1>6. NeverSkipped'
    BY <1>0, <1>1 DEF NeverSkipped, Counted, store
<1>. QED BY <1>2, <1>3, <1>4, <1>5, <1>6

LEMMA DisposeStep ==
    ASSUME IInv, Dispose
    PROVE  IInv'
<1>. USE DEF IInv
<1>0. mounted' = FALSE /\ UNCHANGED <<store, last, check, history>>
    BY DEF Dispose
<1>1. TypeOK'
    BY <1>0 DEF TypeOK, store, check, history
<1>2. /\ StampInv' /\ LastInv' /\ ShownInv' /\ CheckInv' /\ FoundInv'
      /\ AnswerInv' /\ NeverSkipped'
    BY <1>0 DEF StampInv, LastInv, ShownInv, CheckInv, FoundInv, AnswerInv,
                NeverSkipped, Stored, NextSeen, After, Counted, store, check, history
<1>. QED BY <1>1, <1>2

LEMMA KillStep ==
    ASSUME IInv, Kill
    PROVE  IInv'
<1>. USE DEF IInv
<1>0. /\ step' = "idle" /\ mounted' = FALSE /\ found' = [k \in Kinds |-> None]
      /\ lost' = [k \in Kinds |-> lost[k] \cup Counted(k)]
      /\ UNCHANGED <<store, last, seen, now, shown, base>>
    BY DEF Kill
<1>1. \A k \in Kinds : Counted(k) \in SUBSET Times
    BY DEF TypeOK, Counted
<1>2. /\ lost' \in [Kinds -> SUBSET Times]
      /\ \A k \in Kinds : lost'[k] = lost[k] \cup Counted(k)
    BY <1>0, <1>1 DEF TypeOK
<1>3. TypeOK'
    BY <1>0, <1>2 DEF TypeOK, store
<1>4. StampInv' /\ LastInv' /\ ShownInv' /\ CheckInv' /\ FoundInv' /\ AnswerInv'
    BY <1>0 DEF StampInv, LastInv, ShownInv, CheckInv, FoundInv, AnswerInv,
                Stored, store
<1>5. NeverSkipped'
    BY <1>0, <1>2 DEF NeverSkipped, store
<1>. QED BY <1>3, <1>4, <1>5

LEMMA StutterStep ==
    ASSUME IInv, UNCHANGED vars
    PROVE  IInv'
BY DEF IInv, TypeOK, StampInv, LastInv, ShownInv, CheckInv, FoundInv, AnswerInv,
       NeverSkipped, Stored, NextSeen, After, Counted, vars, store, check, history

-----------------------------------------------------------------------------
(* Theorems                                                                *)

LEMMA NextHolds == IInv /\ [Next]_vars => IInv'
<1>. SUFFICES ASSUME IInv, [Next]_vars PROVE IInv'
    OBVIOUS
<1>1. ASSUME NEW k \in Kinds, Publish(k) \/ Withdraw(k) \/ Answer(k) PROVE IInv'
    BY <1>1, PublishStep, WithdrawStep, AnswerStep
<1>2. CASE Start \/ Answered \/ QueryFailed
    BY <1>2, StartStep, AnsweredStep, QueryFailedStep
<1>3. CASE Store("audio", "magazine")
    BY <1>3, StoreStep, KindsAre
<1>4. CASE Store("magazine", "show")
    BY <1>4, StoreStep, KindsAre
<1>5. CASE Show \/ Dispose \/ Kill
    BY <1>5, ShowStep, DisposeStep, KillStep
<1>6. CASE UNCHANGED vars
    BY <1>6, StutterStep
<1>. QED BY <1>1, <1>2, <1>3, <1>4, <1>5, <1>6 DEF Next

\* The inductive invariant holds throughout, however launches are cut short.
THEOREM CheckInductive == Spec => []IInv
<1>. QED BY InitHolds, NextHolds, PTL DEF Spec

\* No popup of NewContentService.check counts what an earlier one counted.
THEOREM NothingRepeated == Spec => []NoRepeat
<1>1. IInv => NoRepeat
  <2>. SUFFICES ASSUME IInv, step = "show", NEW k \in Kinds,
                       NEW s \in found[k], s \in shown[k]
                PROVE  FALSE
    BY DEF NoRepeat
  <2>1. found[k] # None /\ seen[k] # None /\ s <= seen[k]
    BY DEF IInv, CheckInv, Stored
  <2>2. s > seen[k] /\ s \in Int /\ seen[k] \in Int
    BY <2>1 DEF IInv, TypeOK, FoundInv, After, Times
  <2>. QED BY <2>1, <2>2
<1>. QED BY <1>1, CheckInductive, PTL

\* The stored times pass over no item that the checks did not count, but for
\* the limit of a query.
THEOREM NothingSkipped == Spec => []NeverSkipped
<1>1. IInv => NeverSkipped
    BY DEF IInv
<1>. QED BY <1>1, CheckInductive, PTL

\* The stored times only move forward, even when an answer is that of a cache.
THEOREM TimesAdvance == Spec => LastOnlyAdvances
<1>. DEFINE Advance == \A k \in Kinds : last[k] # None => last'[k] >= last[k]
<1>1. IInv /\ [Next]_vars => [Advance]_vars
  <2>. SUFFICES ASSUME IInv, Next PROVE Advance
    OBVIOUS
  <2>1. ASSUME last' = last PROVE Advance
    BY <2>1 DEF IInv, TypeOK
  <2>2. ASSUME NEW k \in Kinds, NEW next, Store(k, next) PROVE Advance
    <3>. SUFFICES ASSUME last[k] # None PROVE NextSeen(k) >= last[k]
      BY <2>2 DEF Store, IInv, TypeOK
    <3>1. found[k] # None /\ last[k] = seen[k]
      BY <2>2 DEF IInv, CheckInv, Stored, Store, Kinds
    <3>2. /\ NextSeen(k) \in Stamps
          /\ found[k] # {} => NextSeen(k) \in found[k]
          /\ found[k] = {} => NextSeen(k) = seen[k]
      BY <3>1, NextSeenIs DEF IInv
    <3>3. last[k] \in Int /\ NextSeen(k) \in Int
      BY <3>2, TimeAssumption DEF IInv, TypeOK, Stamps
    <3>. QED BY <3>1, <3>2, <3>3 DEF IInv, FoundInv, After
  <2>3. CASE Store("audio", "magazine") \/ Store("magazine", "show")
    BY <2>2, <2>3, KindsAre
  <2>4. ASSUME ~ Store("audio", "magazine"), ~ Store("magazine", "show")
        PROVE  last' = last
    BY <2>4 DEF Next, Publish, Withdraw, Answer, Start, Answered, QueryFailed,
                Show, Dispose, Kill, vars
  <2>. QED BY <2>1, <2>3, <2>4
<1>2. Spec => [][Advance]_vars
  <2>. HIDE DEF Advance
  <2>. QED BY <1>1, CheckInductive, PTL DEF Spec
<1>. QED BY <1>2 DEF LastOnlyAdvances

=============================================================================

---------------------- MODULE EventCoordinationProofs ----------------------
(***************************************************************************)
(* Proofs about the coordination of triggers.  EventCoordination: its      *)
(* types, that a run starts only in its event's turn, and that windows     *)
(* hold their limit, for any width, limit, deadline and number of events.  *)
(* FailureStreak: triggers are paused only on a streak that happened, for  *)
(* any number of runs, failures kept and outcomes folded at a time.        *)
(***************************************************************************)
EXTENDS EventCoordination, FailureStreak, SequenceTheorems, FiniteSetTheorems,
        WellFoundedInduction, TLAPS

\* What every held event keeps, so that its start is in time: the deadline of
\* its burst, and a debounced one is due when the key has been quiet, or never.
Patient ==
    {e \in EventRecord :
        /\ e.deadline = e.first + PendingTicks
        /\ policy = "debounce" =>
              /\ e.due >= e.deadline \/ e.due >= e.at + Width
              /\ e.waiting => e.since >= e.at + Width}

CoordinationInv ==
    /\ CoordinationTypeOK
    /\ held \in Seq(Patient)
    /\ held # <<>> => MayHold

-----------------------------------------------------------------------------
(* Least, and sequences                                                    *)

LEMMA LeastOfTwo ==
    ASSUME NEW a \in Int, NEW b \in Int
    PROVE  /\ Least({a, b}) \in {a, b}
           /\ Least({a, b}) <= a /\ Least({a, b}) <= b
<1>1. \E x \in {a, b} : \A y \in {a, b} : x <= y
    <2>1. CASE a <= b BY <2>1
    <2>2. CASE b <= a BY <2>2
    <2> QED BY <2>1, <2>2
<1> QED BY <1>1 DEF Least

LEMMA LeastOfThree ==
    ASSUME NEW a \in Int, NEW b \in Int, NEW c \in Int
    PROVE  /\ Least({a, b, c}) \in {a, b, c}
           /\ Least({a, b, c}) <= a /\ Least({a, b, c}) <= b /\ Least({a, b, c}) <= c
<1>1. \E x \in {a, b, c} : \A y \in {a, b, c} : x <= y
    <2>1. CASE a <= b /\ a <= c BY <2>1
    <2>2. CASE b <= a /\ b <= c BY <2>2
    <2>3. CASE c <= a /\ c <= b BY <2>3
    <2> QED BY <2>1, <2>2, <2>3
<1> QED BY <1>1 DEF Least

LEMMA WithoutKeeps ==
    ASSUME NEW S, held \in Seq(S), NEW i \in DOMAIN held
    PROVE  Without(i) \in Seq(S)
<1>1. i \in 1..Len(held) /\ Len(held) \in Nat
    BY LenProperties
<1>2. \A k \in 1..Len(held) : held[k] \in S
    BY ElementOfSeq
<1>3. SubSeq(held, 1, i - 1) \in Seq(S)
    <2>1. \A k \in 1..(i - 1) : held[k] \in S BY <1>1, <1>2
    <2> QED BY <1>1, <2>1, SubSeqProperties
<1>4. SubSeq(held, i + 1, Len(held)) \in Seq(S)
    <2>1. \A k \in (i + 1)..Len(held) : held[k] \in S BY <1>1, <1>2
    <2> QED BY <1>1, <2>1, SubSeqProperties
<1> QED BY <1>3, <1>4, ConcatProperties DEF Without

LEMMA WithoutFirst ==
    ASSUME NEW S, held \in Seq(S), held # <<>>
    PROVE  Without(1) = Tail(held)
<1>1. SubSeq(held, 1, 1 - 1) = <<>> BY SubSeqEmpty
<1>2. Tail(held) = SubSeq(held, 1 + 1, Len(held)) BY TailIsSubSeq
<1>3. Tail(held) \in Seq(S) BY HeadTailProperties
<1>4. <<>> \o Tail(held) = Tail(held) BY <1>3, ConcatEmptySeq
<1> QED BY <1>1, <1>2, <1>4 DEF Without

-----------------------------------------------------------------------------
(* The steps                                                               *)

\* The policy is fixed, so patience is.
LEMMA PatienceStays ==
    ASSUME policy' = policy PROVE Patient' = Patient
<1> QED BY DEF Patient

\* The window of a key, as a decision sees it, has its types.
LEMMA WindowTypes ==
    ASSUME CoordinationTypeOK
    PROVE  /\ LoadedWindow \in [start : Nat, used : Nat, expires : Nat, exists : BOOLEAN]
           /\ ChargedWindow \in [start : Nat, used : Nat, expires : Nat, exists : BOOLEAN]
           /\ DueAt \in Nat
<1>1. CurrentWindow \in [start : Nat, used : Nat]
    BY DEF CoordinationTypeOK, CurrentWindow
<1>2. Width \in Nat
    BY CoordinationAssumption
<1>3. LoadedWindow \in [start : Nat, used : Nat, expires : Nat, exists : BOOLEAN]
    BY <1>2 DEF LoadedWindow, CoordinationTypeOK
<1>4. ChargedWindow \in [start : Nat, used : Nat, expires : Nat, exists : BOOLEAN]
    BY <1>1, <1>2 DEF ChargedWindow
<1>5. DueAt \in Nat
    BY <1>1, <1>2 DEF DueAt, CoordinationTypeOK
<1> QED BY <1>3, <1>4, <1>5

\* A start keeps the types of what it writes.
LEMMA StartTypes ==
    ASSUME CoordinationTypeOK, Start
    PROVE  /\ window' \in [start : Nat, used : Nat, expires : Nat, exists : BOOLEAN]
           /\ starts' \in Seq(Nat)
<1>1. window' \in [start : Nat, used : Nat, expires : Nat, exists : BOOLEAN]
    BY WindowTypes DEF Start
<1>2. starts' \in Seq(Nat)
    <2> DEFINE all == Append(starts, moment)
    <2>1. all \in Seq(Nat) /\ all # <<>>
        BY AppendProperties DEF CoordinationTypeOK
    <2>2. Tail(all) \in Seq(Nat)
        BY <2>1, HeadTailProperties
    <2>3. starts' = all \/ starts' = Tail(all)
        BY DEF Start
    <2> QED BY <2>1, <2>2, <2>3
<1> QED BY <1>1, <1>2

LEMMA StartEventKeeps ==
    ASSUME CoordinationInv, StartEvent PROVE CoordinationInv'
<1>1. CoordinationTypeOK'
    BY StartTypes DEF StartEvent, Received, CoordinationInv, CoordinationTypeOK
<1>2. held' \in Seq(Patient')
    BY PatienceStays DEF StartEvent, Received, CoordinationInv
<1>3. (held # <<>> => MayHold)'
    BY DEF StartEvent, Received, CoordinationInv, MayHold
<1> QED BY <1>1, <1>2, <1>3 DEF CoordinationInv

LEMMA SkipEventKeeps ==
    ASSUME CoordinationInv, SkipEvent PROVE CoordinationInv'
<1>1. CoordinationTypeOK'
    BY WindowTypes DEF SkipEvent, Received, CoordinationInv, CoordinationTypeOK
<1>2. held' \in Seq(Patient')
    BY PatienceStays DEF SkipEvent, Received, CoordinationInv
<1>3. (held # <<>> => MayHold)'
    BY DEF SkipEvent, Received, CoordinationInv, MayHold
<1> QED BY <1>1, <1>2, <1>3 DEF CoordinationInv

LEMMA HoldEventKeeps ==
    ASSUME CoordinationInv, HoldEvent PROVE CoordinationInv'
<1> DEFINE replaces == policy = "debounce" /\ held # <<>>
           event == [at |-> moment, version |-> published,
                     first |-> IF replaces THEN held[1].first ELSE moment,
                     due |-> Least({DueAt, Deadline}), deadline |-> Deadline,
                     waiting |-> FALSE, since |-> 0, found |-> FALSE]
<1>0. moment \in Nat /\ published \in Nat /\ Width \in Nat /\ PendingTicks \in Nat
    BY CoordinationAssumption DEF CoordinationInv, CoordinationTypeOK
<1>1. replaces => held[1] \in Patient
    <2> SUFFICES ASSUME replaces PROVE held[1] \in Patient
        OBVIOUS
    <2>1. 1 \in 1..Len(held)
        BY EmptySeq DEF CoordinationInv
    <2> QED BY <2>1, ElementOfSeq DEF CoordinationInv
<1>2. /\ Deadline \in Nat /\ event.first \in Nat
      /\ Deadline = event.first + PendingTicks
    <2>1. CASE replaces
        BY <1>0, <1>1, <2>1 DEF Deadline, Patient, EventRecord
    <2>2. CASE ~replaces
        BY <1>0, <2>2 DEF Deadline
    <2> QED BY <2>1, <2>2
<1>3. DueAt \in Nat
    BY WindowTypes DEF CoordinationInv
<1>4. event.due \in {DueAt, Deadline}
    <2>1. DueAt \in Int /\ Deadline \in Int
        BY <1>2, <1>3
    <2>2. Least({DueAt, Deadline}) \in {DueAt, Deadline}
        BY <2>1, LeastOfTwo
    <2> QED BY <2>2
<1>5. event \in EventRecord
    BY <1>0, <1>2, <1>3, <1>4 DEF EventRecord
<1>6. event \in Patient
    <2>1. policy = "debounce" => DueAt = event.at + Width
        BY DEF DueAt
    <2>2. event.deadline = event.first + PendingTicks /\ ~event.waiting
        BY <1>2
    <2>3. policy = "debounce" => event.due >= event.deadline \/ event.due >= event.at + Width
        BY <1>0, <1>2, <1>3, <1>4, <2>1
    <2> QED BY <1>5, <2>2, <2>3 DEF Patient
<1>7. held' = IF replaces THEN <<event>> ELSE Append(held, event)
    BY DEF HoldEvent
<1>8. held' \in Seq(Patient)
    <2>1. <<event>> \in Seq(Patient)
        BY <1>6
    <2>2. Append(held, event) \in Seq(Patient)
        BY <1>6, AppendProperties DEF CoordinationInv
    <2> QED BY <1>7, <2>1, <2>2
<1>9. CoordinationTypeOK'
    <2>1. Patient \subseteq EventRecord
        BY DEF Patient
    <2>2. held' \in Seq(EventRecord)
        BY <1>8, <2>1, SeqMonotonic
    <2>3. window' \in [start : Nat, used : Nat, expires : Nat, exists : BOOLEAN]
        BY WindowTypes DEF HoldEvent, CoordinationInv
    <2> HIDE DEF replaces, event
    <2>4. received' \in Nat /\ UNCHANGED <<moment, policy, accepting, published, starts>>
        BY DEF HoldEvent, Received, CoordinationInv, CoordinationTypeOK
    <2> QED BY <2>2, <2>3, <2>4 DEF CoordinationInv, CoordinationTypeOK
<1>10. (held # <<>> => MayHold)'
    BY DEF HoldEvent, Received, MayHold
<1> QED BY <1>8, <1>9, <1>10, PatienceStays DEF CoordinationInv, HoldEvent, Received

\* An event that is changed in its place, or leaves, leaves the others patient.
LEMMA HeldChanges ==
    ASSUME CoordinationInv, NEW i \in DOMAIN held,
           /\ UNCHANGED <<moment, policy, accepting, published, received>>
           /\ window' \in [start : Nat, used : Nat, expires : Nat, exists : BOOLEAN]
           /\ starts' \in Seq(Nat),
           \/ held' = Without(i)
           \/ \E e \in Patient : held' = [held EXCEPT ![i] = e]
    PROVE  CoordinationInv'
<1>1. held' \in Seq(Patient)
    <2>1. CASE held' = Without(i)
        BY <2>1, WithoutKeeps DEF CoordinationInv
    <2>2. ASSUME NEW e \in Patient, held' = [held EXCEPT ![i] = e]
          PROVE  held' \in Seq(Patient)
        <3>1. i \in 1..Len(held) BY LenProperties DEF CoordinationInv
        <3> QED BY <2>2, <3>1, ExceptSeq DEF CoordinationInv
    <2> QED BY <2>1, <2>2
<1>2. held' \in Seq(EventRecord)
    <2>1. Patient \subseteq EventRecord BY DEF Patient
    <2> QED BY <1>1, <2>1, SeqMonotonic
<1>3. held # <<>>
    <2>1. i \in 1..Len(held) BY LenProperties DEF CoordinationInv
    <2> QED BY <2>1, EmptySeq
<1>4. CoordinationTypeOK'
    BY <1>2 DEF CoordinationInv, CoordinationTypeOK
<1>5. (held # <<>> => MayHold)'
    BY <1>3 DEF CoordinationInv, MayHold
<1> QED BY <1>1, <1>4, <1>5, PatienceStays DEF CoordinationInv

\* An event of the sequence, with what is known of it.
LEMMA HeldEvent ==
    ASSUME CoordinationInv, NEW i \in DOMAIN held
    PROVE  /\ held[i] \in Patient /\ held[i] \in EventRecord
           /\ held[i].at \in Nat /\ held[i].first \in Nat /\ held[i].due \in Nat
           /\ held[i].deadline \in Nat /\ held[i].since \in Nat
           /\ held[i].waiting \in BOOLEAN
           /\ held[i].deadline = held[i].first + PendingTicks
           /\ policy = "debounce" =>
                 /\ held[i].due >= held[i].deadline
                    \/ held[i].due >= held[i].at + Width
                 /\ held[i].waiting => held[i].since >= held[i].at + Width
<1>1. i \in 1..Len(held) BY LenProperties DEF CoordinationInv
<1>2. held[i] \in Patient BY <1>1, ElementOfSeq DEF CoordinationInv
<1>3. held[i] \in EventRecord BY <1>2 DEF Patient
<1> QED BY <1>2, <1>3 DEF Patient, EventRecord

\* The constants and the clock are numbers.
LEMMA Numbers ==
    ASSUME CoordinationInv
    PROVE  /\ moment \in Nat /\ Width \in Nat
           /\ PendingTicks \in Nat /\ CapacityTicks \in Nat
<1> QED BY CoordinationAssumption DEF CoordinationInv, CoordinationTypeOK

LEMMA DiscoverKeeps ==
    ASSUME CoordinationInv, Discover PROVE CoordinationInv'
<1> DEFINE e == [held[1] EXCEPT !.found = TRUE]
<1>1. 1 \in DOMAIN held
    <2>1. Len(held) \in Nat \ {0}
        BY EmptySeq DEF Discover, CoordinationInv
    <2> QED BY <2>1, LenProperties DEF CoordinationInv
<1>2. e \in Patient
    BY <1>1, HeldEvent DEF Patient, EventRecord
<1>3. held' = [held EXCEPT ![1] = e]
    BY DEF Discover
<1> HIDE DEF e
<1> QED BY <1>1, <1>2, <1>3, HeldChanges DEF Discover, CoordinationInv, CoordinationTypeOK

LEMMA RestFailedKeeps ==
    ASSUME CoordinationInv, NEW i \in DOMAIN held, RestFailed(i)
    PROVE  CoordinationInv'
<1> DEFINE old == held[i]
           due == Least({moment + RestTicks, old.deadline})
           e == [old EXCEPT !.due = due]
<1>1. old \in Patient /\ old \in EventRecord /\ moment \in Nat /\ Width \in Nat
    BY HeldEvent, CoordinationAssumption DEF CoordinationInv, CoordinationTypeOK
<1>2. due = moment + 1 \/ due = old.deadline
    <2>1. moment + 1 \in Int /\ old.deadline \in Int
        BY <1>1 DEF EventRecord
    <2>2. Least({moment + 1, old.deadline}) \in {moment + 1, old.deadline}
        BY <2>1, LeastOfTwo
    <2> QED BY <2>2 DEF RestTicks
<1>3. due <= old.deadline
    <2>1. moment + 1 \in Int /\ old.deadline \in Int
        BY <1>1 DEF EventRecord
    <2>2. Least({moment + 1, old.deadline}) <= old.deadline
        BY <2>1, LeastOfTwo
    <2> QED BY <2>2 DEF RestTicks
<1>4. old.due <= moment /\ held' = [held EXCEPT ![i] = e]
    BY DEF RestFailed
<1> HIDE DEF due
<1>5. e \in EventRecord
    BY <1>1, <1>2 DEF EventRecord
<1>6. policy = "debounce" => due >= old.deadline \/ due >= old.at + Width
    BY <1>1, <1>2, <1>4 DEF Patient, EventRecord
<1>7. e \in Patient
    BY <1>1, <1>5, <1>6 DEF Patient, EventRecord
<1> HIDE DEF e
<1> QED BY <1>4, <1>7, HeldChanges DEF RestFailed, CoordinationInv, CoordinationTypeOK

\* What a release makes of the event when the window is full again.
LEMMA PutOff ==
    ASSUME CoordinationInv, NEW i \in DOMAIN held, policy = "delay"
    PROVE  [held[i] EXCEPT !.due = Least({DueAt} \cup GivesUpAt(held[i]))] \in Patient
<1> DEFINE due == Least({DueAt} \cup GivesUpAt(held[i]))
<1>1. /\ DueAt \in Int /\ held[i].deadline \in Int
      /\ held[i].since + CapacityTicks \in Int
      /\ DueAt \in Nat /\ held[i].since + CapacityTicks \in Nat
    <2>1. CoordinationTypeOK
        BY DEF CoordinationInv
    <2>2. DueAt \in Nat
        BY <2>1, WindowTypes
    <2>3. held[i].deadline \in Nat /\ held[i].since \in Nat /\ CapacityTicks \in Nat
        BY HeldEvent, Numbers
    <2> QED BY <2>2, <2>3
<1>2. due \in Nat
    <2>1. CASE held[i].waiting
        <3>1. Least({DueAt, held[i].deadline, held[i].since + CapacityTicks})
                  \in {DueAt, held[i].deadline, held[i].since + CapacityTicks}
            BY <1>1, LeastOfThree
        <3>2. {DueAt} \cup GivesUpAt(held[i])
                  = {DueAt, held[i].deadline, held[i].since + CapacityTicks}
            BY <2>1 DEF GivesUpAt
        <3> QED BY <1>1, <3>1, <3>2, HeldEvent
    <2>2. CASE ~held[i].waiting
        <3>1. Least({DueAt, held[i].deadline}) \in {DueAt, held[i].deadline}
            BY <1>1, LeastOfTwo
        <3>2. {DueAt} \cup GivesUpAt(held[i]) = {DueAt, held[i].deadline}
            BY <2>2 DEF GivesUpAt
        <3> QED BY <1>1, <3>1, <3>2, HeldEvent
    <2> QED BY <2>1, <2>2
<1> HIDE DEF due
<1>3. [held[i] EXCEPT !.due = due] \in EventRecord
    BY <1>2, HeldEvent DEF EventRecord
<1>4. [held[i] EXCEPT !.due = due] \in Patient
    BY <1>3, HeldEvent DEF Patient, EventRecord
<1> QED BY <1>4 DEF due

\* What a release makes of the event when the queue is full: it can only have
\* been tried after its key was quiet.
LEMMA WaitsForQueue ==
    ASSUME CoordinationInv, NEW i \in DOMAIN held,
           ~Refused(held[i]), held[i].due <= moment,
           NEW since, since = (IF held[i].waiting THEN held[i].since ELSE moment)
    PROVE  [held[i] EXCEPT !.waiting = TRUE, !.since = since,
                !.due = Least({moment + QueueTicks, held[i].deadline,
                               since + CapacityTicks})] \in Patient
<1> DEFINE due == Least({moment + QueueTicks, held[i].deadline, since + CapacityTicks})
           e == [held[i] EXCEPT !.waiting = TRUE, !.since = since, !.due = due]
<1>1. since \in Nat
    BY HeldEvent, Numbers
<1>2. due \in {moment + 1, held[i].deadline, since + CapacityTicks}
    <2>1. /\ moment + 1 \in Int /\ held[i].deadline \in Int
          /\ since + CapacityTicks \in Int
        BY <1>1, HeldEvent, Numbers
    <2>2. Least({moment + 1, held[i].deadline, since + CapacityTicks})
              \in {moment + 1, held[i].deadline, since + CapacityTicks}
        BY <2>1, LeastOfThree
    <2> QED BY <2>2 DEF QueueTicks
<1> HIDE DEF due
<1>3. moment < held[i].deadline
    <2>1. ~(moment >= held[i].deadline) BY DEF Refused, GivesUpAt
    <2> QED BY <2>1, HeldEvent, Numbers
<1>4. policy = "debounce" => moment >= held[i].at + Width
    BY <1>3, HeldEvent, Numbers
<1>5. policy = "debounce" => since >= held[i].at + Width
    BY <1>4, HeldEvent
<1>6. due \in Nat
    BY <1>1, <1>2, HeldEvent, Numbers
<1>7. policy = "debounce" => due >= held[i].deadline \/ due >= held[i].at + Width
    BY <1>1, <1>2, <1>4, <1>5, HeldEvent, Numbers
<1>8. e \in EventRecord
    BY <1>1, <1>6, HeldEvent DEF EventRecord
<1>9. /\ e.due = due /\ e.since = since /\ e.at = held[i].at
      /\ e.first = held[i].first /\ e.deadline = held[i].deadline
    BY HeldEvent DEF EventRecord
<1> HIDE DEF e
<1>10. e \in Patient
    BY <1>5, <1>7, <1>8, <1>9, HeldEvent DEF Patient
<1> QED BY <1>10 DEF e, due

LEMMA ReleaseKeeps ==
    ASSUME CoordinationInv, NEW i \in DOMAIN held,
           NEW answer \in {"accepted", "not accepted", "queue full"},
           Release(i, answer)
    PROVE  CoordinationInv'
<1> DEFINE putOff == [held[i] EXCEPT !.due = Least({DueAt} \cup GivesUpAt(held[i]))]
           since == IF held[i].waiting THEN held[i].since ELSE moment
           waits == [held[i] EXCEPT !.waiting = TRUE, !.since = since,
                         !.due = Least({moment + QueueTicks, held[i].deadline,
                                        since + CapacityTicks})]
<1>0. UNCHANGED <<moment, policy, accepting, published, received>>
    BY DEF Release
<1>1. /\ window \in [start : Nat, used : Nat, expires : Nat, exists : BOOLEAN]
      /\ starts \in Seq(Nat)
    BY DEF CoordinationInv, CoordinationTypeOK
<1>2. \/ held' = Without(i) /\ (UNCHANGED <<window, starts>> \/ Start)
      \/ /\ policy = "delay" /\ UNCHANGED <<window, starts>>
         /\ held' = [held EXCEPT ![i] = putOff]
      \/ /\ ~Refused(held[i]) /\ held[i].due <= moment
         /\ UNCHANGED <<window, starts>>
         /\ held' = [held EXCEPT ![i] = waits]
    BY DEF Release
<1>3. CASE held' = Without(i) /\ (UNCHANGED <<window, starts>> \/ Start)
    <2>1. /\ window' \in [start : Nat, used : Nat, expires : Nat, exists : BOOLEAN]
          /\ starts' \in Seq(Nat)
        BY <1>1, <1>3, StartTypes DEF CoordinationInv
    <2> QED BY <1>0, <1>3, <2>1, HeldChanges
<1>4. CASE /\ policy = "delay" /\ UNCHANGED <<window, starts>>
           /\ held' = [held EXCEPT ![i] = putOff]
    <2>1. putOff \in Patient
        BY <1>4, PutOff
    <2> HIDE DEF putOff
    <2> QED BY <1>0, <1>1, <1>4, <2>1, HeldChanges
<1>5. CASE /\ ~Refused(held[i]) /\ held[i].due <= moment
           /\ UNCHANGED <<window, starts>>
           /\ held' = [held EXCEPT ![i] = waits]
    <2>1. waits \in Patient
        BY <1>5, WaitsForQueue
    <2> HIDE DEF waits
    <2> QED BY <1>0, <1>1, <1>5, <2>1, HeldChanges
<1> QED BY <1>2, <1>3, <1>4, <1>5

\* A step of what happens around the events leaves them as they are.
LEMMA AroundKeeps ==
    ASSUME CoordinationInv, RetainWindow \/ ChangeAccepting \/ Publish \/ TimePasses
    PROVE  CoordinationInv'
<1>1. UNCHANGED <<held, policy>>
    BY DEF RetainWindow, ChangeAccepting, Publish, TimePasses
<1>2. CoordinationTypeOK'
    <2>1. CASE RetainWindow
        BY <2>1 DEF RetainWindow, NoWindow, CoordinationInv, CoordinationTypeOK
    <2>2. CASE ChangeAccepting
        <3>1. accepting' \in BOOLEAN
            BY <2>2 DEF ChangeAccepting
        <3>2. UNCHANGED <<moment, policy, window, held, published, received, starts>>
            BY <2>2 DEF ChangeAccepting
        <3> QED BY <3>1, <3>2 DEF CoordinationInv, CoordinationTypeOK
    <2>3. CASE Publish
        BY <2>3 DEF Publish, CoordinationInv, CoordinationTypeOK
    <2>4. CASE TimePasses
        BY <2>4 DEF TimePasses, CoordinationInv, CoordinationTypeOK
    <2> QED BY <2>1, <2>2, <2>3, <2>4
<1> QED BY <1>1, <1>2, PatienceStays DEF CoordinationInv, MayHold

LEMMA CoordinationStepKeeps ==
    CoordinationInv /\ [CoordinationNext]_coordinationVars => CoordinationInv'
<1> SUFFICES ASSUME CoordinationInv, [CoordinationNext]_coordinationVars
             PROVE  CoordinationInv'
    OBVIOUS
<1>1. CASE UNCHANGED coordinationVars
    BY <1>1, PatienceStays
       DEF coordinationVars, CoordinationInv, CoordinationTypeOK, MayHold
<1>2. CASE CoordinationNext
    BY <1>2, StartEventKeeps, SkipEventKeeps, HoldEventKeeps, DiscoverKeeps,
       ReleaseKeeps, RestFailedKeeps, AroundKeeps
       DEF CoordinationNext
<1> QED BY <1>1, <1>2

LEMMA CoordinationInvBegins == CoordinationInit => CoordinationInv
<1> SUFFICES ASSUME CoordinationInit PROVE CoordinationInv
    OBVIOUS
<1>1. held \in Seq(EventRecord) /\ held \in Seq(Patient) /\ starts \in Seq(Nat)
    BY EmptySeq DEF CoordinationInit
<1>2. CoordinationTypeOK
    BY <1>1 DEF CoordinationInit, CoordinationTypeOK, NoWindow
<1> QED BY <1>1, <1>2 DEF CoordinationInv, CoordinationInit

LEMMA CoordinationSafe == CoordinationSpec => []CoordinationInv
<1> QED BY CoordinationInvBegins, CoordinationStepKeeps, PTL DEF CoordinationSpec

\* An event that is not refused when it is due is in time.
LEMMA InTime ==
    ASSUME CoordinationInv, NEW i \in DOMAIN held,
           ~Refused(held[i]), held[i].due <= moment
    PROVE  /\ held # <<>>
           /\ accepting /\ held[i].version = published
           /\ moment - held[i].first < PendingTicks
           /\ held[i].waiting => moment - held[i].since < CapacityTicks
           /\ policy = "debounce" => moment - held[i].at >= Width
<1>1. held # <<>>
    <2>1. i \in 1..Len(held) BY LenProperties DEF CoordinationInv
    <2> QED BY <2>1, EmptySeq
<1>2. accepting /\ held[i].version = published
    BY DEF Refused
<1>3. /\ ~(moment >= held[i].deadline)
      /\ held[i].waiting => ~(moment >= held[i].since + CapacityTicks)
    BY DEF Refused, GivesUpAt
<1>4. moment < held[i].deadline
    BY <1>3, HeldEvent, Numbers
<1>5. moment - held[i].first < PendingTicks
    BY <1>4, HeldEvent, Numbers
<1>6. held[i].waiting => moment - held[i].since < CapacityTicks
    BY <1>3, HeldEvent, Numbers
<1>7. policy = "debounce" => moment - held[i].at >= Width
    BY <1>4, HeldEvent, Numbers
<1> QED BY <1>1, <1>2, <1>5, <1>6, <1>7

\* A release starts the run of the first held event, and in time.
LEMMA ReleaseInTurn ==
    ASSUME CoordinationInv, NEW i \in DOMAIN held,
           NEW answer \in {"accepted", "not accepted", "queue full"},
           Release(i, answer), starts' # starts
    PROVE  /\ held' = Tail(held)
           /\ accepting /\ held[1].version = published
           /\ moment - held[1].first < PendingTicks
           /\ held[1].waiting => moment - held[1].since < CapacityTicks
           /\ policy = "debounce" => moment - held[1].at >= Width
<1>1. /\ ~Refused(held[i]) /\ held[i].due <= moment /\ i = 1
      /\ held' = Without(i)
    BY DEF Release
<1>2. held' = Tail(held)
    BY <1>1, InTime, WithoutFirst DEF CoordinationInv
<1> QED BY <1>1, <1>2, InTime

-----------------------------------------------------------------------------
(* Windows                                                                 *)

\* The starts fit a window that began at a moment and has had so many of them:
\* those before it came before it, and those before the window that preceded it
\* came more than a window before it, as that one had no more than the limit.
Fits(start, used) ==
    \A j \in DOMAIN starts :
        /\ starts[j] < start + Width
        /\ j <= Len(starts) - used => starts[j] < start
        /\ j <= Len(starts) - used - Limit => starts[j] + Width < start

\* Why WindowsHold is kept: the starts fit the key's row, and without a row a
\* window that would begin now.
WindowInv ==
    policy # "debounce" =>
        /\ window.exists =>
              /\ window.start <= moment /\ window.expires = window.start + Width
              /\ window.used <= Limit
              /\ Fits(window.start, window.used)
        /\ ~window.exists => Fits(moment, 0)

LEMMA WindowNumbers ==
    ASSUME CoordinationInv
    PROVE  /\ moment \in Nat /\ Width \in Nat \ {0} /\ Limit \in Nat \ {0}
           /\ window \in [start : Nat, used : Nat, expires : Nat, exists : BOOLEAN]
           /\ window.start \in Nat /\ window.used \in Nat /\ window.expires \in Nat
           /\ starts \in Seq(Nat) /\ Len(starts) \in Nat
           /\ DOMAIN starts = 1..Len(starts)
           /\ \A j \in DOMAIN starts : starts[j] \in Nat
<1>1. starts \in Seq(Nat)
    BY DEF CoordinationInv, CoordinationTypeOK
<1>2. Len(starts) \in Nat /\ DOMAIN starts = 1..Len(starts) /\ starts \in [1..Len(starts) -> Nat]
    BY <1>1, LenProperties
<1>3. Limit \in Nat \ {0}
    BY CoordinationAssumption DEF Limit
<1> QED BY <1>1, <1>2, <1>3, CoordinationAssumption DEF CoordinationInv, CoordinationTypeOK

\* The window that a decision sees is one that the starts fit.
LEMMA CurrentFits ==
    ASSUME CoordinationInv, WindowInv, policy # "debounce"
    PROVE  /\ CurrentWindow.start \in Nat /\ CurrentWindow.used \in Nat
           /\ CurrentWindow.start <= moment /\ moment < CurrentWindow.start + Width
           /\ Fits(CurrentWindow.start, CurrentWindow.used)
<1>1. CASE ~window.exists
    BY <1>1, WindowNumbers DEF CurrentWindow, WindowInv
<1>2. CASE window.exists /\ moment >= window.start + Width
    <2>1. Fits(moment, 0)
        <3> SUFFICES ASSUME NEW j \in DOMAIN starts
                     PROVE  /\ starts[j] < moment + Width
                            /\ j <= Len(starts) - 0 => starts[j] < moment
                            /\ j <= Len(starts) - 0 - Limit => starts[j] + Width < moment
            BY DEF Fits
        <3>1. /\ j \in Nat /\ starts[j] \in Nat
              /\ Len(starts) \in Nat /\ Limit \in Nat /\ moment \in Nat /\ Width \in Nat
              /\ window.start \in Nat /\ window.used \in Nat
            BY WindowNumbers
        <3>2. /\ starts[j] < window.start + Width /\ window.used <= Limit
              /\ j <= Len(starts) - window.used => starts[j] < window.start
            BY <1>2 DEF WindowInv, Fits
        <3> QED BY <1>2, <3>1, <3>2
    <2> QED BY <1>2, <2>1, WindowNumbers DEF CurrentWindow
<1>3. CASE window.exists /\ ~(moment >= window.start + Width)
    BY <1>3, WindowNumbers DEF CurrentWindow, WindowInv
<1> QED BY <1>1, <1>2, <1>3

\* A start that the limit allows fits as well, and is more than a window after
\* the start that was 2 * Limit before it.
LEMMA StartFits ==
    ASSUME CoordinationInv, WindowInv, WindowsHold, Start, policy # "debounce", ~Excess,
           policy' = policy, moment' = moment
    PROVE  WindowInv' /\ WindowsHold'
<1> DEFINE from == CurrentWindow.start
           used == CurrentWindow.used
           all == Append(starts, moment)
           N == Len(starts)
<1>1. /\ from \in Nat /\ used \in Nat /\ from <= moment /\ moment < from + Width
      /\ Fits(from, used)
    BY CurrentFits
<1>2. used < Limit
    BY <1>1, WindowNumbers DEF Excess
<1>3. Limit' = Limit
    BY DEF Limit
<1>4. /\ all \in Seq(Nat) /\ all # <<>> /\ Len(all) = N + 1 /\ DOMAIN all = 1..(N + 1)
      /\ \A i \in 1..N : all[i] = starts[i]
      /\ all[N + 1] = moment
    <2>1. moment \in Nat /\ starts \in Seq(Nat)
        BY WindowNumbers
    <2>2. all \in Seq(Nat) /\ all # <<>> /\ Len(all) = N + 1
          /\ \A i \in 1..N : all[i] = starts[i]
          /\ all[N + 1] = moment
        BY <2>1, AppendProperties
    <2> QED BY <2>2, LenProperties
<1>5. starts' = IF N + 1 > 2 * Limit + 1 THEN Tail(all) ELSE all
    BY <1>4 DEF Start
<1>6. /\ window'.start = from /\ window'.used = used + 1
      /\ window'.expires = from + Width /\ window'.exists
    BY DEF Start, ChargedWindow
<1> HIDE DEF from, used, all
<1>7. \A j \in 1..(N + 1) :
          /\ all[j] \in Nat
          /\ all[j] < from + Width
          /\ j <= N - used => all[j] < from
          /\ j <= N - used - Limit => all[j] + Width < from
    <2> TAKE j \in 1..(N + 1)
    <2>0. /\ N \in Nat /\ Limit \in Nat \ {0} /\ moment \in Nat /\ Width \in Nat
          /\ DOMAIN starts = 1..N /\ \A i \in 1..N : starts[i] \in Nat
        BY WindowNumbers
    <2>1. CASE j = N + 1
        BY <1>1, <1>4, <2>0, <2>1
    <2>2. CASE j \in 1..N
        <3>1. all[j] = starts[j] /\ starts[j] \in Nat
            BY <1>4, <2>0, <2>2
        <3>2. /\ starts[j] < from + Width
              /\ j <= N - used => starts[j] < from
              /\ j <= N - used - Limit => starts[j] + Width < from
            BY <1>1, <2>0, <2>2 DEF Fits
        <3> QED BY <3>1, <3>2
    <2> QED BY <2>0, <2>1, <2>2
<1>8. \A j \in 1..(N + 1) : j + 2 * Limit \in 1..(N + 1)
          => all[j + 2 * Limit] - all[j] > Width
    <2> TAKE j \in 1..(N + 1)
    <2> HAVE j + 2 * Limit \in 1..(N + 1)
    <2>1. CASE j + 2 * Limit = N + 1
        <3>1. j <= N - used - Limit
            BY <1>1, <1>2, <2>1, WindowNumbers
        <3>2. all[j] + Width < from /\ all[j] \in Nat
            BY <1>7, <3>1
        <3>3. all[j + 2 * Limit] = moment
            BY <1>4, <2>1
        <3>4. from \in Nat /\ from <= moment /\ moment \in Nat /\ Width \in Nat
            BY <1>1, WindowNumbers
        <3> QED BY <3>2, <3>3, <3>4
    <2>2. CASE j + 2 * Limit # N + 1
        <3>1. j \in 1..N /\ j + 2 * Limit \in 1..N
            BY <2>2, WindowNumbers
        <3>2. all[j] = starts[j] /\ all[j + 2 * Limit] = starts[j + 2 * Limit]
            BY <1>4, <3>1
        <3> QED BY <3>1, <3>2, WindowNumbers DEF WindowsHold
    <2> QED BY <2>1, <2>2
\* Whether or not the earliest start is dropped, nothing changes for the others.
<1>9. PICK k \in {0, 1} :
          /\ Len(starts') = N + 1 - k /\ DOMAIN starts' = 1..(N + 1 - k)
          /\ \A j \in 1..(N + 1 - k) : starts'[j] = all[j + k]
    <2>1. CASE N + 1 > 2 * Limit + 1
        <3>1. /\ Tail(all) \in Seq(Nat) /\ Len(Tail(all)) = N
              /\ \A i \in 1..N : Tail(all)[i] = all[i + 1]
            BY <1>4, HeadTailProperties, WindowNumbers
        <3>2. DOMAIN Tail(all) = 1..N
            BY <3>1, LenProperties
        <3>3. starts' = Tail(all) /\ N + 1 - 1 = N
            BY <1>5, <2>1, WindowNumbers
        <3> QED BY <3>1, <3>2, <3>3
    <2>2. CASE ~(N + 1 > 2 * Limit + 1)
        <3>1. starts' = all
            BY <1>5, <2>2
        <3>2. N \in Nat /\ N + 1 - 0 = N + 1
            BY WindowNumbers
        <3>3. \A j \in 1..(N + 1) : j + 0 = j
            OBVIOUS
        <3> QED BY <1>4, <3>1, <3>2, <3>3
    <2> QED BY <2>1, <2>2
<1>10. Fits(window.start, window.used)'
    <2>1. \A j \in 1..(N + 1 - k) :
              /\ starts'[j] < from + Width
              /\ j <= N + 1 - k - (used + 1) => starts'[j] < from
              /\ j <= N + 1 - k - (used + 1) - Limit => starts'[j] + Width < from
        <3> TAKE j \in 1..(N + 1 - k)
        <3>0. N \in Nat /\ Limit \in Nat /\ k \in {0, 1} /\ used \in Nat
            BY <1>1, <1>9, WindowNumbers
        <3>1. j + k \in 1..(N + 1)
            BY <3>0
        <3>2. starts'[j] = all[j + k]
            BY <1>9
        <3>3. /\ all[j + k] < from + Width
              /\ j + k <= N - used => all[j + k] < from
              /\ j + k <= N - used - Limit => all[j + k] + Width < from
            BY <1>7, <3>1
        <3>4. /\ j <= N + 1 - k - (used + 1) => j + k <= N - used
              /\ j <= N + 1 - k - (used + 1) - Limit => j + k <= N - used - Limit
            BY <3>0
        <3> QED BY <3>2, <3>3, <3>4
    <2>2. \A j \in DOMAIN starts' :
              /\ starts'[j] < window'.start + Width
              /\ j <= Len(starts') - window'.used => starts'[j] < window'.start
              /\ j <= Len(starts') - window'.used - Limit'
                     => starts'[j] + Width < window'.start
        <3>1. N \in Nat /\ Limit \in Nat /\ k \in {0, 1} /\ used \in Nat
            BY <1>1, <1>9, WindowNumbers
        <3>2. /\ DOMAIN starts' = 1..(N + 1 - k) /\ Len(starts') = N + 1 - k
              /\ window'.start = from /\ window'.used = used + 1 /\ Limit' = Limit
            BY <1>3, <1>6, <1>9
        <3> TAKE j \in DOMAIN starts'
        <3>3. j \in 1..(N + 1 - k)
            BY <3>2
        <3>4. /\ starts'[j] < from + Width
              /\ j <= N + 1 - k - (used + 1) => starts'[j] < from
              /\ j <= N + 1 - k - (used + 1) - Limit => starts'[j] + Width < from
            BY <2>1, <3>3
        <3>5. /\ Len(starts') - window'.used = N + 1 - k - (used + 1)
              /\ Len(starts') - window'.used - Limit' = N + 1 - k - (used + 1) - Limit
            BY <3>1, <3>2
        <3>6. window'.start = from
            BY <3>2
        <3> HIDE DEF N
        <3> QED BY <3>4, <3>5, <3>6
    <2> QED BY <2>2, Zenon DEF Fits
<1>11. WindowInv'
    <2>1. window'.used <= Limit'
        BY <1>1, <1>2, <1>3, <1>6, WindowNumbers
    <2>2. window'.start <= moment' /\ window'.expires = window'.start + Width
        BY <1>1, <1>6
    <2> QED BY <1>6, <1>10, <2>1, <2>2 DEF WindowInv
<1>12. WindowsHold'
    <2> SUFFICES ASSUME NEW j \in DOMAIN starts', j + 2 * Limit \in DOMAIN starts'
                 PROVE  starts'[j + 2 * Limit] - starts'[j] > Width
        BY <1>3 DEF WindowsHold
    <2>1. N \in Nat /\ Limit \in Nat /\ k \in {0, 1}
        BY <1>9, WindowNumbers
    <2>2. /\ j \in 1..(N + 1 - k) /\ j + 2 * Limit \in 1..(N + 1 - k)
          /\ starts'[j] = all[j + k] /\ starts'[j + 2 * Limit] = all[j + 2 * Limit + k]
        BY <1>9
    <2>3. /\ j + k \in 1..(N + 1) /\ (j + k) + 2 * Limit \in 1..(N + 1)
          /\ (j + k) + 2 * Limit = j + 2 * Limit + k
        BY <2>1, <2>2
    <2> QED BY <1>8, <2>2, <2>3
<1> QED BY <1>11, <1>12

\* Rows that only come or go fit as well.
LEMMA LoadedFits ==
    ASSUME CoordinationInv, WindowInv, WindowsHold, window' = LoadedWindow,
           UNCHANGED <<policy, moment, starts>>
    PROVE  WindowInv' /\ WindowsHold'
<1>1. WindowsHold'
    BY DEF WindowsHold, Limit
<1>2. CASE window.exists
    <2>1. UNCHANGED <<policy, moment, starts, window>>
        BY <1>2 DEF LoadedWindow
    <2> QED BY <1>1, <2>1 DEF WindowInv, Fits, Limit
<1>3. CASE ~window.exists
    <2>1. window' = [start |-> moment, used |-> 0, expires |-> moment + Width, exists |-> TRUE]
        BY <1>3 DEF LoadedWindow
    <2>2. policy # "debounce" => Fits(moment, 0)'
        BY <1>3 DEF WindowInv, Fits, Limit
    <2>3. moment <= moment /\ 0 <= Limit
        BY WindowNumbers
    <2>4. Limit' = Limit
        BY DEF Limit
    <2>5. /\ window'.start = moment /\ window'.used = 0
          /\ window'.expires = moment + Width /\ window'.exists
        BY <2>1
    <2>6. Fits(window.start, window.used)' <=> Fits(moment, 0)'
        BY <2>5 DEF Fits
    <2> QED BY <1>1, <2>2, <2>3, <2>4, <2>5, <2>6 DEF WindowInv
<1> QED BY <1>1, <1>2, <1>3

LEMMA RetainedFits ==
    ASSUME CoordinationInv, WindowInv, RetainWindow
    PROVE  WindowInv'
<1> SUFFICES ASSUME policy # "debounce" PROVE Fits(moment, 0)'
    BY DEF RetainWindow, NoWindow, WindowInv
<1> SUFFICES ASSUME NEW j \in DOMAIN starts
             PROVE  /\ starts[j] < moment + Width
                    /\ j <= Len(starts) - 0 => starts[j] < moment
                    /\ j <= Len(starts) - 0 - Limit => starts[j] + Width < moment
    BY DEF Fits, RetainWindow, Limit
<1>1. /\ j \in Nat /\ starts[j] \in Nat
      /\ Len(starts) \in Nat /\ Limit \in Nat /\ moment \in Nat /\ Width \in Nat
      /\ window.start \in Nat /\ window.used \in Nat
    BY WindowNumbers
<1>2. /\ window.exists /\ window.start + Width <= moment
    BY DEF RetainWindow, WindowInv
<1>3. /\ starts[j] < window.start + Width /\ window.used <= Limit
      /\ j <= Len(starts) - window.used => starts[j] < window.start
    BY <1>2 DEF WindowInv, Fits
<1> QED BY <1>1, <1>2, <1>3

LEMMA LaterFits ==
    ASSUME CoordinationInv, WindowInv, TimePasses
    PROVE  WindowInv'
<1>1. moment' = moment + 1 /\ UNCHANGED <<policy, window, starts>> /\ Limit' = Limit
    BY DEF TimePasses, Limit
<1>2. CASE window.exists
    <2>1. window.start <= moment => window.start <= moment + 1
        BY WindowNumbers
    <2> QED BY <1>1, <1>2, <2>1 DEF WindowInv, Fits
<1>3. CASE ~window.exists
    <2> SUFFICES ASSUME policy # "debounce", NEW j \in DOMAIN starts
                 PROVE  /\ starts[j] < moment + 1 + Width
                        /\ j <= Len(starts) - 0 => starts[j] < moment + 1
                        /\ j <= Len(starts) - 0 - Limit => starts[j] + Width < moment + 1
        BY <1>1, <1>3 DEF WindowInv, Fits
    <2>1. /\ j \in Nat /\ starts[j] \in Nat /\ moment \in Nat /\ Width \in Nat
        BY WindowNumbers
    <2>2. /\ starts[j] < moment + Width
          /\ j <= Len(starts) - 0 => starts[j] < moment
          /\ j <= Len(starts) - 0 - Limit => starts[j] + Width < moment
        BY <1>3 DEF WindowInv, Fits
    <2> QED BY <2>1, <2>2
<1> QED BY <1>2, <1>3

LEMMA SomethingHeld ==
    ASSUME CoordinationInv, NEW i \in DOMAIN held PROVE held # <<>>
<1>1. i \in 1..Len(held) BY LenProperties DEF CoordinationInv
<1> QED BY <1>1, EmptySeq

\* Every start is one that the limit allows.
LEMMA StartsAreAllowed ==
    ASSUME CoordinationInv,
           \/ StartEvent
           \/ \E i \in DOMAIN held : \E answer \in {"accepted", "not accepted", "queue full"} :
                 Release(i, answer)
    PROVE  /\ UNCHANGED <<policy, moment>>
           /\ UNCHANGED <<window, starts>> \/ (Start /\ (policy # "debounce" => ~Excess))
<1>1. CASE StartEvent
    BY <1>1 DEF StartEvent, Received, StartsNow
<1>2. ASSUME NEW i \in DOMAIN held,
             NEW answer \in {"accepted", "not accepted", "queue full"},
             Release(i, answer)
      PROVE  /\ UNCHANGED <<policy, moment>>
             /\ UNCHANGED <<window, starts>> \/ (Start /\ (policy # "debounce" => ~Excess))
    <2>1. held # <<>>
        BY <1>2, SomethingHeld
    <2>2. policy \in {"debounce", "delay"}
        BY <2>1 DEF CoordinationInv, MayHold
    <2>3. UNCHANGED <<policy, moment>>
        BY <1>2, Zenon DEF Release
    <2>4. UNCHANGED <<window, starts>> \/ (~(policy = "delay" /\ Excess) /\ Start)
        BY <1>2, Zenon DEF Release
    <2> QED BY <2>2, <2>3, <2>4
<1> QED BY <1>1, <1>2

LEMMA WindowsStepKeeps ==
    CoordinationInv /\ WindowInv /\ WindowsHold /\ [CoordinationNext]_coordinationVars
        => WindowInv' /\ WindowsHold'
<1> SUFFICES ASSUME CoordinationInv, WindowInv, WindowsHold,
                    [CoordinationNext]_coordinationVars
             PROVE  WindowInv' /\ WindowsHold'
    OBVIOUS
<1>1. CASE UNCHANGED <<policy, starts, window, moment>>
    BY <1>1 DEF WindowInv, WindowsHold, Fits, Limit
<1>2. CASE SkipEvent \/ HoldEvent
    BY <1>2, LoadedFits DEF SkipEvent, HoldEvent, Received
<1>3. CASE \/ StartEvent
           \/ \E i \in DOMAIN held : \E answer \in {"accepted", "not accepted", "queue full"} :
                 Release(i, answer)
    <2>1. CASE policy = "debounce"
        BY <1>3, <2>1, StartsAreAllowed DEF WindowInv, WindowsHold
    <2>2. CASE policy # "debounce"
        BY <1>1, <1>3, <2>2, StartsAreAllowed, StartFits
    <2> QED BY <2>1, <2>2
<1>4. CASE RetainWindow
    <2>1. WindowsHold'
        BY <1>4 DEF RetainWindow, WindowsHold, Limit
    <2> QED BY <1>4, <2>1, RetainedFits
<1>5. CASE TimePasses
    <2>1. WindowsHold'
        BY <1>5 DEF TimePasses, WindowsHold, Limit
    <2> QED BY <1>5, <2>1, LaterFits
<1>6. CASE Discover \/ (\E i \in DOMAIN held : RestFailed(i)) \/ ChangeAccepting \/ Publish
    BY <1>1, <1>6 DEF Discover, RestFailed, ChangeAccepting, Publish
<1> QED BY <1>1, <1>2, <1>3, <1>4, <1>5, <1>6 DEF CoordinationNext, coordinationVars

LEMMA WindowsBegin == CoordinationInit => WindowInv /\ WindowsHold
<1> SUFFICES ASSUME CoordinationInit PROVE WindowInv /\ WindowsHold
    OBVIOUS
<1>1. DOMAIN starts = {}
    BY DEF CoordinationInit
<1> QED BY <1>1 DEF CoordinationInit, WindowInv, WindowsHold, Fits, NoWindow

-----------------------------------------------------------------------------
(* Theorems                                                                *)

\* Every variable of a key, its window and its held events keeps its type,
\* whatever is received, released, refused or deleted (core/triggers/coordination).
THEOREM CoordinationTypeCorrect == CoordinationSpec => []CoordinationTypeOK
<1>1. CoordinationInv => CoordinationTypeOK BY DEF CoordinationInv
<1> QED BY <1>1, CoordinationSafe, PTL

\* For every width, limit and deadline and any number of events: a run starts
\* only when no earlier event of its key is held, of the version published now,
\* before its event is to be given up, and a debounced one when the key has
\* been quiet, however often releases failed, waited for the queue or were put
\* off (coordinateEvent, releaseCoordinatedEvent, restFailedCoordinatedEvent).
THEOREM EveryStartInTurn == CoordinationSpec => StartsInTurn
<1> DEFINE InTurn ==
        starts' # starts =>
            \/ held = <<>>
            \/ /\ held' = Tail(held)
               /\ accepting /\ held[1].version = published
               /\ moment - held[1].first < PendingTicks
               /\ held[1].waiting => moment - held[1].since < CapacityTicks
               /\ policy = "debounce" => moment - held[1].at >= Width
<1>1. CoordinationInv /\ [CoordinationNext]_coordinationVars => [InTurn]_coordinationVars
    <2> SUFFICES ASSUME CoordinationInv, CoordinationNext, starts' # starts
                 PROVE  InTurn
        BY DEF coordinationVars
    <2>1. CASE StartEvent
        <3>1. StartsNow(held # <<>>) /\ (held # <<>> => MayHold)
            BY <2>1 DEF StartEvent, CoordinationInv
        <3>2. held = <<>>
            BY <3>1 DEF StartsNow, MayHold
        <3> QED BY <3>2
    <2>2. ASSUME NEW i \in DOMAIN held,
                 NEW answer \in {"accepted", "not accepted", "queue full"},
                 Release(i, answer)
          PROVE  InTurn
        BY <2>2, ReleaseInTurn
    <2>3. CASE SkipEvent \/ HoldEvent \/ Discover
        BY <2>3 DEF SkipEvent, HoldEvent, Discover
    <2>4. ASSUME NEW i \in DOMAIN held, RestFailed(i) PROVE InTurn
        BY <2>4 DEF RestFailed
    <2>5. CASE RetainWindow \/ ChangeAccepting \/ Publish \/ TimePasses
        BY <2>5 DEF RetainWindow, ChangeAccepting, Publish, TimePasses
    <2> QED BY <2>1, <2>2, <2>3, <2>4, <2>5 DEF CoordinationNext
<1> QED BY <1>1, CoordinationSafe, PTL DEF CoordinationSpec, StartsInTurn

\* For every width and limit and any number of events: of the runs that a
\* deduplicated or throttled key starts, the next after 2 * Limit comes more than
\* a window after the first of them, though events that are held, skipped or
\* refused make or keep the key's row, and retention deletes it
\* (decideEventCoordination, loadEventWindow, chargeEventWindow).
THEOREM EveryWindowHolds == CoordinationSpec => []WindowsHold
<1>1. CoordinationInit => WindowInv /\ WindowsHold
    BY WindowsBegin
<1>2. CoordinationInv /\ (WindowInv /\ WindowsHold) /\ [CoordinationNext]_coordinationVars
          => (WindowInv /\ WindowsHold)'
    BY WindowsStepKeeps
<1> QED BY <1>1, <1>2, CoordinationSafe, PTL DEF CoordinationSpec

-----------------------------------------------------------------------------
(* The failure streak (FailureStreak).                                     *)

\* Some number under a bound is the greatest of its kind.
LEMMA GreatestNumber ==
    ASSUME NEW bound \in Nat, NEW S, S \subseteq 0 .. bound, S # {}
    PROVE  \E m \in S : \A n \in S : n <= m
<1> DEFINE Less == {p \in Nat \X Nat : p[1] < p[2]}
           T == {k \in Nat : \E n \in S : k = bound - n}
<1>1. IsWellFoundedOn(Less, Nat)
  BY NatLessThanWellFounded, Zenon DEF OpToRel
<1>2. T \subseteq Nat
  OBVIOUS
<1>3. T # {}
  <2>1. PICK n \in S : TRUE
    OBVIOUS
  <2>2. bound - n \in Nat
    OBVIOUS
  <2> QED BY <2>1, <2>2
<1>4. PICK k \in T : \A j \in T : <<j, k>> \notin Less
  <2> HIDE DEF Less, T
  <2>1. \A U : U \subseteq Nat /\ U # {} => \E x \in U : \A y \in U : ~(<<y, x>> \in Less)
    BY <1>1, WFMin, Zenon
  <2>2. \E x \in T : \A y \in T : ~(<<y, x>> \in Less)
    BY <1>2, <1>3, <2>1, Zenon
  <2> QED BY <2>2, Zenon
<1>5. PICK m \in S : k = bound - m
  OBVIOUS
<1>6. ASSUME NEW n \in S PROVE n <= m
  <2>1. bound - n \in T
    OBVIOUS
  <2>2. ~(bound - n < k)
    BY <1>4, <2>1
  <2> QED BY <1>5, <2>2
<1> QED BY <1>6

LEMMA LatestFacts ==
    ASSUME NEW bound \in Nat, NEW S, S \subseteq 0 .. bound
    PROVE  /\ Latest(S) \in S \cup {0} /\ Latest(S) \in 0 .. bound
           /\ \A t \in S : t <= Latest(S)
<1>1. S \cup {0} \subseteq 0 .. bound /\ S \cup {0} # {}
  OBVIOUS
<1>2. \E m \in S \cup {0} : \A n \in S \cup {0} : n <= m
  BY <1>1, GreatestNumber
<1>3. \E m \in S \cup {0} : \A n \in S \cup {0} : m >= n
  BY <1>1, <1>2
<1>4. Latest(S) = CHOOSE x \in S \cup {0} : \A y \in S \cup {0} : x >= y
  BY DEF Latest, Max
<1>5. Latest(S) \in S \cup {0} /\ \A y \in S \cup {0} : Latest(S) >= y
  BY <1>3, <1>4
<1> QED BY <1>1, <1>5

\* Sets of positions are finite.
LEMMA PositionsFinite ==
    ASSUME NEW S, S \subseteq Times
    PROVE  IsFiniteSet(S) /\ Cardinality(S) \in Nat
<1>1. IsFiniteSet(Times)
  BY StreakAssumption, FS_Interval DEF Times
<1>2. IsFiniteSet(S)
  BY <1>1, FS_Subset
<1> QED BY <1>2, FS_CardinalityType

\* The newest of a set are among the newest of any part that has them; all
\* of a small set are its newest, and a large one has MaxKept of them.
LEMMA NewestOfPart ==
    ASSUME NEW S, S \subseteq Times, NEW T, T \subseteq S, NEW t \in Newest(S), t \in T
    PROVE  t \in Newest(T)
<1> DEFINE later(U) == {u \in U : u >= t}
<1>1. IsFiniteSet(later(S)) /\ Cardinality(later(S)) \in Nat
  BY PositionsFinite
<1>2. later(T) \subseteq later(S)
  OBVIOUS
<1>3. Cardinality(later(T)) <= Cardinality(later(S)) /\ Cardinality(later(T)) \in Nat
  BY <1>1, <1>2, FS_Subset, FS_CardinalityType
<1>4. Cardinality(later(S)) <= MaxKept
  BY DEF Newest
<1>5. Cardinality(later(T)) <= MaxKept
  <2> HIDE DEF later
  <2> QED BY <1>1, <1>3, <1>4, StreakAssumption
<1> QED BY <1>5 DEF Newest

LEMMA NewestMany ==
    ASSUME NEW S, S \subseteq Times
    PROVE  /\ Cardinality(S) <= MaxKept => Newest(S) = S
           /\ Cardinality(S) >= MaxKept => Cardinality(Newest(S)) >= MaxKept
<1>1. IsFiniteSet(S) /\ Cardinality(S) \in Nat /\ MaxKept \in Nat
  BY PositionsFinite, StreakAssumption
<1>2. Newest(S) \subseteq S /\ IsFiniteSet(Newest(S)) /\ Cardinality(Newest(S)) \in Nat
  BY PositionsFinite DEF Newest
<1>3. ASSUME Cardinality(S) <= MaxKept, NEW t \in S PROVE t \in Newest(S)
  <2> DEFINE later == {u \in S : u >= t}
  <2>1. later \subseteq S
    OBVIOUS
  <2>2. Cardinality(later) <= Cardinality(S) /\ Cardinality(later) \in Nat
    BY <1>1, <2>1, FS_Subset, FS_CardinalityType
  <2>3. Cardinality(later) <= MaxKept
    <3> HIDE DEF later
    <3> QED BY <1>1, <1>3, <2>2
  <2> QED BY <2>3 DEF Newest
<1>4. ASSUME Cardinality(S) >= MaxKept, Cardinality(Newest(S)) < MaxKept PROVE FALSE
  <2> DEFINE older == S \ Newest(S)
  <2>1. older # {}
    <3>1. Newest(S) # S
      BY <1>1, <1>2, <1>4
    <3> QED BY <1>2, <3>1
  <2>2. older \subseteq 0 .. MaxTime /\ MaxTime \in Nat
    <3>1. Times \subseteq 0 .. MaxTime /\ MaxTime \in Nat
      BY StreakAssumption DEF Times
    <3> QED BY <3>1
  <2>3. PICK t \in older : \A n \in older : n <= t
    <3> HIDE DEF older
    <3> QED BY <2>1, <2>2, GreatestNumber
  <2> DEFINE later == {u \in S : u >= t}
  <2>4. later \subseteq Newest(S) \cup {t}
    <3> SUFFICES ASSUME NEW u \in S, u >= t, u # t, u \notin Newest(S) PROVE FALSE
      OBVIOUS
    <3>1. u <= t
      BY <2>3
    <3>2. u \in Nat /\ t \in Nat
      BY <2>2
    <3> QED BY <3>1, <3>2
  <2>5. /\ IsFiniteSet(Newest(S) \cup {t})
        /\ Cardinality(Newest(S) \cup {t}) = Cardinality(Newest(S)) + 1
    BY <1>2, <2>3, FS_AddElement
  <2>6. Cardinality(later) <= Cardinality(Newest(S) \cup {t}) /\ Cardinality(later) \in Nat
    BY <2>4, <2>5, FS_Subset, FS_CardinalityType
  <2>7. Cardinality(later) <= MaxKept
    <3> HIDE DEF later, older
    <3> QED BY <1>1, <1>2, <1>4, <2>5, <2>6
  <2>8. t \in Newest(S)
    BY <2>3, <2>7 DEF Newest
  <2> QED BY <2>3, <2>8
<1>5. Cardinality(S) <= MaxKept => Newest(S) = S
  BY <1>2, <1>3
<1>6. Cardinality(S) >= MaxKept => Cardinality(Newest(S)) >= MaxKept
  BY <1>1, <1>2, <1>4
<1> QED BY <1>5, <1>6

\* The folded failures that the streak still counts: after the resume and
\* after the last success.
FoldedFailures == {t \in Times : outcome[t] = "folded_failure"}
Standing ==
    {t \in FoldedFailures : t > streak.resumed /\ t > streak.success}

\* What a streak row says of them.  Its mark is a success, and no folded
\* one is later; the newest failures are kept; the old counter is carried
\* over until there is a success or a resume; and the count is theirs.
OutcomeKinds == {"none", "failing", "succeeding", "failure", "success",
                 "folded_failure", "folded_success"}
StreakRecord == [count : Nat, legacy : Nat, resumed : Nat, success : Nat,
                 failures : SUBSET Times]
Counting(legacy, n) == Latest({legacy, AtMost(legacy + n, MaxKept)})

StreakInv ==
    /\ now \in 0 .. MaxTime
    /\ outcome \in [Times -> OutcomeKinds]
    /\ streak \in StreakRecord /\ streak.resumed <= now /\ streak.success <= now
    /\ streak.failures \subseteq FoldedFailures
    /\ workflow \in [pause : Nat, threshold : Thresholds, enabled : BOOLEAN, changes : Nat]
    /\ \A t \in Times : t > now => outcome[t] = "none"
    /\ streak.success # 0 => streak.success \in Successes
    /\ \A t \in Times : outcome[t] = "folded_success" /\ t > streak.resumed
                           => t <= streak.success
    /\ Newest(Standing) \subseteq streak.failures
    /\ streak.legacy = IF streak.success = 0 /\ streak.resumed = 0 THEN Legacy ELSE 0
    /\ streak.count = Counting(streak.legacy, Cardinality(Standing))

\* A count stays within what it counts, and says all of it up to MaxKept.
LEMMA CountingFacts ==
    ASSUME NEW legacy \in Nat, NEW n \in Nat
    PROVE  /\ Counting(legacy, n) \in Nat
           /\ Counting(legacy, n) <= legacy + n
           /\ AtMost(Counting(legacy, n), MaxKept) = AtMost(legacy + n, MaxKept)
<1> DEFINE least == AtMost(legacy + n, MaxKept)
           count == Counting(legacy, n)
<1>1. /\ MaxKept \in Nat /\ least \in Nat /\ least <= legacy + n /\ least <= MaxKept
      /\ least \in {legacy + n, MaxKept}
  BY StreakAssumption DEF AtMost
<1>2. legacy + least \in Nat /\ {legacy, least} \subseteq 0 .. (legacy + least)
  <2> HIDE DEF least
  <2> QED BY <1>1
<1>3. count \in {legacy, least, 0} /\ legacy <= count /\ least <= count
  <2> HIDE DEF least
  <2>1. Latest({legacy, least}) \in {legacy, least} \cup {0}
        /\ \A t \in {legacy, least} : t <= Latest({legacy, least})
    BY <1>2, LatestFacts
  <2> QED BY <2>1 DEF Counting, least
<1>4. count \in Nat /\ count <= legacy + n
  <2> HIDE DEF least, count
  <2> QED BY <1>1, <1>3
<1>5. AtMost(count, MaxKept) = least
  <2>1. count = least \/ (count = legacy /\ least <= legacy)
    <3> HIDE DEF least, count
    <3> QED BY <1>1, <1>3
  <2>2. CASE count = least
    <3> HIDE DEF count
    <3> QED BY <1>1, <2>2 DEF AtMost
  <2>3. CASE count = legacy /\ least <= legacy
    <3> HIDE DEF count
    <3> QED BY <1>1, <2>3 DEF AtMost
  <2> QED BY <2>1, <2>2, <2>3
<1> QED BY <1>4, <1>5

\* The true streak is what the row carries over and the failures after its
\* mark, when no success that counts is later than the mark.
LEMMA TrueCount ==
    StreakInv /\ (\A t \in Successes : t > streak.resumed => t <= streak.success)
    => TrueStreak = streak.legacy + Cardinality({t \in Failures : /\ t > streak.resumed
                                                                 /\ t > streak.success})
<1> SUFFICES ASSUME StreakInv, \A t \in Successes : t > streak.resumed => t <= streak.success
             PROVE  TrueStreak = streak.legacy
                                 + Cardinality({t \in Failures : /\ t > streak.resumed
                                                                 /\ t > streak.success})
  OBVIOUS
<1> DEFINE counted == {t \in Times : t > streak.resumed}
           success == Latest(Successes \cap counted)
<1>1. /\ streak.resumed \in Nat /\ streak.success \in Nat /\ MaxTime \in Nat
      /\ Times \subseteq 0 .. MaxTime /\ 0 \notin Times
  BY StreakAssumption DEF StreakInv, StreakRecord, Times
<1>2. Successes \cap counted \subseteq 0 .. MaxTime
  BY <1>1
<1>3. /\ success \in (Successes \cap counted) \cup {0} /\ success \in Nat
      /\ \A t \in Successes \cap counted : t <= success
  BY <1>1, <1>2, LatestFacts
<1>4. success = streak.success \/ (success = 0 /\ streak.success <= streak.resumed)
  <2>1. CASE streak.success \in counted
    <3>1. streak.success \in Successes
      BY <1>1, <2>1 DEF StreakInv
    <3>2. streak.success <= success
      BY <1>3, <2>1, <3>1
    <3>3. success = 0 \/ success <= streak.success
      BY <1>3
    <3> HIDE DEF success
    <3> QED BY <1>1, <1>3, <2>1, <3>2, <3>3
  <2>2. CASE streak.success \notin counted
    <3>1. streak.success <= streak.resumed
      <4>1. streak.success = 0 \/ streak.success \in Times
        BY DEF StreakInv, Successes
      <4> QED BY <1>1, <2>2, <4>1
    <3>2. success = 0
      <4> SUFFICES ASSUME success # 0 PROVE FALSE
        OBVIOUS
      <4>1. success \in Successes /\ success > streak.resumed
        BY <1>3
      <4>2. success <= streak.success
        BY <4>1
      <4> HIDE DEF success
      <4> QED BY <1>1, <1>3, <3>1, <4>1, <4>2
    <3> QED BY <3>1, <3>2
  <2> QED BY <2>1, <2>2
<1> HIDE DEF success
<1>5. {t \in Failures \cap counted : t > success}
        = {t \in Failures : t > streak.resumed /\ t > streak.success}
  <2>1. Failures \subseteq Times
    BY DEF Failures
  <2>2. ASSUME NEW t \in Times, t > streak.resumed
        PROVE  t > success <=> t > streak.success
    BY <1>1, <1>3, <1>4, <2>2
  <2> QED BY <2>1, <2>2
<1>6. streak.legacy = IF success = 0 /\ streak.resumed = 0 THEN Legacy ELSE 0
  <2>1. streak.success = 0 /\ streak.resumed = 0 <=> success = 0 /\ streak.resumed = 0
    BY <1>1, <1>3, <1>4
  <2> QED BY <2>1 DEF StreakInv
<1> QED BY <1>5, <1>6 DEF TrueStreak, success

\* A count is never more than the true streak once no success that counts
\* is later than the mark; with nothing pending it is that, up to MaxKept.
LEMMA CountWithin ==
    StreakInv /\ (\A t \in Successes : t > streak.resumed => t <= streak.success)
    => streak.count \in Nat /\ TrueStreak \in Nat /\ streak.count <= TrueStreak
<1> SUFFICES ASSUME StreakInv, \A t \in Successes : t > streak.resumed => t <= streak.success
             PROVE  streak.count \in Nat /\ TrueStreak \in Nat /\ streak.count <= TrueStreak
  OBVIOUS
<1> DEFINE true == {t \in Failures : t > streak.resumed /\ t > streak.success}
<1>1. TrueStreak = streak.legacy + Cardinality(true)
  BY TrueCount
<1>2. Standing \subseteq true /\ true \subseteq Times
  BY DEF Standing, FoldedFailures, Failures
<1>3. /\ Cardinality(Standing) \in Nat /\ Cardinality(true) \in Nat
      /\ Cardinality(Standing) <= Cardinality(true)
  <2> HIDE DEF true
  <2>1. Standing \subseteq Times
    BY <1>2
  <2> QED BY <1>2, <2>1, PositionsFinite, FS_Subset
<1>4. streak.legacy \in Nat /\ streak.count = Counting(streak.legacy, Cardinality(Standing))
  BY DEF StreakInv, StreakRecord
<1> HIDE DEF true
<1>5. streak.count \in Nat /\ streak.count <= streak.legacy + Cardinality(Standing)
  BY <1>3, <1>4, CountingFacts
<1> QED BY <1>1, <1>3, <1>4, <1>5

LEMMA CountComplete ==
    StreakInv /\ Pending = {} => AtMost(streak.count, MaxKept) = AtMost(TrueStreak, MaxKept)
<1> SUFFICES ASSUME StreakInv, Pending = {}
             PROVE  AtMost(streak.count, MaxKept) = AtMost(TrueStreak, MaxKept)
  OBVIOUS
<1>1. \A t \in Successes : t > streak.resumed => t <= streak.success
  BY DEF StreakInv, Successes, Pending
<1>2. {t \in Failures : t > streak.resumed /\ t > streak.success} = Standing
  BY DEF Standing, FoldedFailures, Failures, Pending
<1>3. TrueStreak = streak.legacy + Cardinality(Standing)
  BY <1>1, <1>2, TrueCount
<1>4. Cardinality(Standing) \in Nat
  <2>1. Standing \subseteq Times
    BY DEF Standing, FoldedFailures
  <2> QED BY <2>1, PositionsFinite
<1>5. streak.legacy \in Nat /\ streak.count = Counting(streak.legacy, Cardinality(Standing))
  BY DEF StreakInv, StreakRecord
<1> QED BY <1>3, <1>4, <1>5, CountingFacts

LEMMA StreakStarts == StreakInit => StreakInv
<1> SUFFICES ASSUME StreakInit PROVE StreakInv
  OBVIOUS
<1>1. \A t \in Times : outcome[t] = "none"
  BY DEF StreakInit
<1>2. Standing = {} /\ FoldedFailures = {}
  BY <1>1 DEF Standing, FoldedFailures
<1>3. Newest(Standing) = {}
  BY <1>2 DEF Newest
<1>4. Legacy \in Nat /\ MaxKept \in Nat /\ Cardinality(Standing) = 0
  BY <1>2, StreakAssumption, FS_EmptySet
<1>5. Counting(Legacy, 0) = Legacy
  <2>1. AtMost(Legacy + 0, MaxKept) \in 0 .. Legacy
    BY <1>4 DEF AtMost
  <2> DEFINE S == {Legacy, AtMost(Legacy + 0, MaxKept)}
  <2>2. S \subseteq 0 .. Legacy /\ Legacy \in S
    BY <1>4, <2>1
  <2>3. Latest(S) \in 0 .. Legacy /\ Legacy <= Latest(S)
    <3> HIDE DEF S
    <3> QED BY <1>4, <2>2, LatestFacts
  <2>4. Latest(S) = Legacy
    <3> HIDE DEF S
    <3> QED BY <1>4, <2>3
  <2> QED BY <2>4 DEF Counting
<1>6. /\ streak.count = Legacy /\ streak.legacy = Legacy /\ streak.resumed = 0
      /\ streak.success = 0 /\ streak.failures = {} /\ now = 0 /\ streak \in StreakRecord
  BY <1>4 DEF StreakInit, StreakRecord
<1>7. outcome \in [Times -> OutcomeKinds] /\ MaxTime \in Nat
  BY StreakAssumption DEF StreakInit, OutcomeKinds
<1>8. workflow \in [pause : Nat, threshold : Thresholds, enabled : BOOLEAN, changes : Nat]
  BY DEF StreakInit
<1> QED
  BY <1>1, <1>3, <1>4, <1>5, <1>6, <1>7, <1>8 DEF StreakInv

\* A step that folds nothing, marks nothing and forgets no failure that is
\* among the newest keeps what the row says.
LEMMA Unfolded ==
    ASSUME StreakInv,
           now' \in now .. MaxTime, outcome' \in [Times -> OutcomeKinds],
           workflow' \in [pause : Nat, threshold : Thresholds, enabled : BOOLEAN, changes : Nat],
           \A t \in Times : t > now' => outcome'[t] = "none",
           Successes \subseteq Successes',
           FoldedFailures' = FoldedFailures,
           \A t \in Times : outcome'[t] = "folded_success" <=> outcome[t] = "folded_success",
           NEW kept, kept \subseteq streak.failures,
           streak' = [streak EXCEPT !.failures = kept], Newest(Standing) \subseteq kept
    PROVE  StreakInv'
<1>1. /\ streak' \in StreakRecord /\ streak'.count = streak.count
      /\ streak'.legacy = streak.legacy /\ streak'.resumed = streak.resumed
      /\ streak'.success = streak.success /\ streak'.failures = kept
  BY DEF StreakInv, StreakRecord
<1>2. Standing' = Standing
  BY <1>1 DEF Standing
<1>3. now' \in 0 .. MaxTime /\ streak'.resumed <= now' /\ streak'.success <= now'
  BY <1>1, StreakAssumption DEF StreakInv, StreakRecord
<1>4. /\ streak'.success # 0 => streak'.success \in Successes'
      /\ streak'.failures \subseteq FoldedFailures'
      /\ \A t \in Times : outcome'[t] = "folded_success" /\ t > streak'.resumed
                             => t <= streak'.success
  BY <1>1 DEF StreakInv
<1>5. Newest(Standing') \subseteq streak'.failures
  BY <1>1, <1>2
<1>6. /\ streak'.legacy = IF streak'.success = 0 /\ streak'.resumed = 0 THEN Legacy ELSE 0
      /\ streak'.count = Counting(streak'.legacy, Cardinality(Standing'))
  BY <1>1, <1>2 DEF StreakInv
<1> QED
  BY <1>1, <1>3, <1>4, <1>5, <1>6 DEF StreakInv, Newest, Counting, Latest, AtMost

LEMMA FailuresStay == StreakInv => Newest(Standing) \subseteq streak.failures
BY DEF StreakInv

LEMMA CommitKeeps ==
    ASSUME StreakInv, NEW t \in Times, CommitOutcome(t) PROVE StreakInv'
<1>1. /\ outcome[t] \in {"failing", "succeeding"} /\ UNCHANGED <<now, streak, workflow>>
      /\ outcome' = [outcome EXCEPT ![t] = IF outcome[t] = "failing" THEN "failure"
                                           ELSE "success"]
  BY DEF CommitOutcome
<1>2. /\ outcome'[t] \in {"failure", "success"}
      /\ \A u \in Times : u # t => outcome'[u] = outcome[u]
      /\ outcome' \in [Times -> OutcomeKinds]
  BY <1>1 DEF StreakInv, OutcomeKinds
<1>3. /\ Successes \subseteq Successes' /\ FoldedFailures' = FoldedFailures
      /\ \A u \in Times : outcome'[u] = "folded_success" <=> outcome[u] = "folded_success"
  BY <1>1, <1>2 DEF Successes, FoldedFailures
<1>4. \A u \in Times : u > now' => outcome'[u] = "none"
  BY <1>1, <1>2 DEF StreakInv
<1>5. /\ now' \in now .. MaxTime /\ streak' = [streak EXCEPT !.failures = streak.failures]
      /\ workflow' = workflow
  BY <1>1 DEF StreakInv, StreakRecord
<1> QED
  BY <1>2, <1>3, <1>4, <1>5, FailuresStay, Unfolded DEF StreakInv

LEMMA EndKeeps ==
    ASSUME StreakInv, NEW kind \in {"failing", "succeeding"}, RunEnded(kind) PROVE StreakInv'
<1> DEFINE t == now + 1
<1>1. /\ t \in Times /\ outcome[t] = "none" /\ now' = t /\ UNCHANGED <<streak, workflow>>
      /\ outcome' = [outcome EXCEPT ![t] = kind]
  BY StreakAssumption DEF RunEnded, StreakInv, Times
<1>2. /\ outcome'[t] = kind /\ \A u \in Times : u # t => outcome'[u] = outcome[u]
      /\ outcome' \in [Times -> OutcomeKinds]
  BY <1>1 DEF StreakInv, OutcomeKinds
<1>3. /\ Successes \subseteq Successes' /\ FoldedFailures' = FoldedFailures
      /\ \A u \in Times : outcome'[u] = "folded_success" <=> outcome[u] = "folded_success"
  <2> HIDE DEF t
  <2> QED BY <1>1, <1>2 DEF Successes, FoldedFailures
<1>4. \A u \in Times : u > now' => outcome'[u] = "none"
  BY <1>1, <1>2, StreakAssumption DEF StreakInv, Times
<1>5. now' \in now .. MaxTime
  BY <1>1, StreakAssumption DEF StreakInv, Times
<1>6. streak' = [streak EXCEPT !.failures = streak.failures] /\ workflow' = workflow
  BY <1>1 DEF StreakInv, StreakRecord
<1> QED
  BY <1>2, <1>3, <1>4, <1>5, <1>6, FailuresStay, Unfolded DEF StreakInv

LEMMA RetainKeeps ==
    ASSUME StreakInv, NEW t \in Times, RetainFailures(t) PROVE StreakInv'
<1> DEFINE kept == streak.failures \ {t}
<1>1. /\ t <= streak.resumed \/ t <= streak.success \/ t \notin Newest(streak.failures)
      /\ t \in streak.failures /\ streak' = [streak EXCEPT !.failures = kept]
      /\ UNCHANGED <<now, outcome, workflow>>
  BY DEF RetainFailures
<1>2. t \notin Newest(Standing)
  <2> SUFFICES ASSUME t \in Newest(Standing) PROVE FALSE
    OBVIOUS
  <2> DEFINE part == {u \in streak.failures : u > streak.resumed /\ u > streak.success}
  <2>1. /\ t \in Standing /\ t > streak.resumed /\ t > streak.success
        /\ streak.resumed \in Nat /\ streak.success \in Nat /\ t \in Nat
    BY StreakAssumption DEF Newest, Standing, StreakInv, StreakRecord, Times
  <2>2. t \notin Newest(streak.failures)
    BY <1>1, <2>1
  <2>3. part \subseteq Standing /\ Standing \subseteq Times /\ t \in part
    BY <1>1, <2>1 DEF StreakInv, Standing, FoldedFailures
  <2>4. t \in Newest(part)
    <3> HIDE DEF part
    <3> QED BY <2>3, NewestOfPart
  <2>5. {u \in streak.failures : u >= t} = {u \in part : u >= t}
    <3>1. \A u \in streak.failures : u \in Nat
      BY StreakAssumption DEF StreakInv, StreakRecord, Times
    <3> QED BY <2>1, <3>1
  <2> QED BY <1>1, <2>2, <2>4, <2>5 DEF Newest
<1>3. Newest(Standing) \subseteq kept
  BY <1>2 DEF StreakInv
<1>4. /\ Successes' = Successes /\ FoldedFailures' = FoldedFailures /\ outcome' = outcome
      /\ now' \in now .. MaxTime /\ workflow' = workflow
  BY <1>1 DEF Successes, FoldedFailures, StreakInv
<1>5. \A u \in Times : u > now' => outcome'[u] = "none"
  BY <1>1 DEF StreakInv
<1> QED
  BY <1>1, <1>3, <1>4, <1>5, Unfolded DEF StreakInv

LEMMA SettingsKeep == ASSUME StreakInv, ChangeSettings PROVE StreakInv'
<1>1. /\ UNCHANGED <<now, outcome, streak>>
      /\ workflow' \in [pause : Nat, threshold : Thresholds, enabled : BOOLEAN, changes : Nat]
  <2>1. PICK threshold \in Thresholds, enabled \in BOOLEAN :
           workflow' = [workflow EXCEPT !.threshold = threshold, !.enabled = enabled,
                                        !.changes = workflow.changes + 1]
    BY DEF ChangeSettings
  <2>2. PICK more \in Nat : more = workflow.changes + 1
    BY DEF StreakInv
  <2>3. workflow' = [workflow EXCEPT !.threshold = threshold, !.enabled = enabled,
                                     !.changes = more]
    BY <2>1, <2>2
  <2> QED BY <2>3 DEF ChangeSettings, StreakInv
<1>2. /\ Successes' = Successes /\ FoldedFailures' = FoldedFailures
      /\ now' \in now .. MaxTime /\ streak' = [streak EXCEPT !.failures = streak.failures]
  BY <1>1 DEF Successes, FoldedFailures, StreakInv, StreakRecord
<1>3. \A u \in Times : u > now' => outcome'[u] = "none"
  BY <1>1 DEF StreakInv
<1>4. outcome' \in [Times -> OutcomeKinds]
  BY <1>1 DEF StreakInv
<1> QED
  BY <1>1, <1>2, <1>3, <1>4, FailuresStay, Unfolded

LEMMA ResumeKeeps == ASSUME StreakInv, Resume PROVE StreakInv'
<1>1. /\ now < MaxTime /\ now' = now + 1 /\ outcome' = outcome
      /\ streak' = [streak EXCEPT !.count = 0, !.legacy = 0, !.resumed = now + 1]
      /\ workflow' = [workflow EXCEPT !.pause = 0]
  BY DEF Resume
<1>2. /\ streak' \in StreakRecord /\ streak'.count = 0 /\ streak'.legacy = 0
      /\ streak'.resumed = now + 1 /\ streak'.success = streak.success
      /\ streak'.failures = streak.failures
  <2>1. now + 1 \in Nat
    BY StreakAssumption DEF StreakInv
  <2>2. PICK later \in Nat : later = now + 1
    BY <2>1
  <2>3. streak' = [streak EXCEPT !.count = 0, !.legacy = 0, !.resumed = later]
    BY <1>1, <2>2
  <2> QED BY <2>2, <2>3 DEF StreakInv, StreakRecord
<1>3. \A t \in Times : outcome[t] # "none" => ~(t > now + 1)
  BY StreakAssumption DEF StreakInv, Times
<1>4. Standing' = {} /\ FoldedFailures' = FoldedFailures /\ Successes' = Successes
  BY <1>1, <1>2, <1>3 DEF Standing, FoldedFailures, Successes
<1>5. Newest(Standing') = {} /\ Cardinality(Standing') = 0
  BY <1>4, FS_EmptySet DEF Newest
<1>6. Counting(0, 0) = 0
  <2>1. Counting(0, 0) \in Nat /\ Counting(0, 0) <= 0 + 0
    BY CountingFacts
  <2> QED BY <2>1
<1>7. /\ now' \in 0 .. MaxTime /\ streak'.resumed <= now' /\ streak'.success <= now'
      /\ \A t \in Times : t > now' => outcome'[t] = "none"
  <2>1. now \in Nat /\ MaxTime \in Nat /\ streak.success \in Nat /\ streak.success <= now
    BY StreakAssumption DEF StreakInv, StreakRecord
  <2>2. now' \in 0 .. MaxTime /\ streak'.resumed <= now' /\ streak'.success <= now'
    BY <1>1, <1>2, <2>1
  <2>3. ASSUME NEW t \in Times, t > now' PROVE outcome'[t] = "none"
    <3>1. t \in Nat /\ t > now
      BY <1>1, <2>1, <2>3 DEF Times
    <3>2. outcome[t] = "none"
      BY <3>1 DEF StreakInv
    <3> QED BY <1>1, <3>2
  <2> QED BY <2>2, <2>3
<1>8. workflow' \in [pause : Nat, threshold : Thresholds, enabled : BOOLEAN, changes : Nat]
  BY <1>1 DEF StreakInv
<1>9. /\ \A t \in Times : outcome'[t] = "folded_success" => ~(t > streak'.resumed)
      /\ streak'.legacy = IF streak'.success = 0 /\ streak'.resumed = 0 THEN Legacy ELSE 0
  BY <1>1, <1>2, <1>3 DEF StreakInv
<1>10. /\ streak'.success # 0 => streak'.success \in Successes'
       /\ streak'.failures \subseteq FoldedFailures' /\ outcome' \in [Times -> OutcomeKinds]
  BY <1>1, <1>2, <1>4 DEF StreakInv
<1>11. /\ Newest(Standing') \subseteq streak'.failures
       /\ streak'.count = Counting(streak'.legacy, Cardinality(Standing'))
  BY <1>2, <1>5, <1>6
<1> QED
  BY <1>2, <1>7, <1>8, <1>9, <1>10, <1>11
     DEF StreakInv, Newest, Counting, Latest, AtMost

\* The outcomes once a batch is folded
Batched(batch) ==
    [t \in Times |-> IF t \notin batch THEN outcome[t]
                     ELSE IF outcome[t] = "failure" THEN "folded_failure"
                     ELSE "folded_success"]

\* A fold that counts: its mark, what it keeps and its count are those of the
\* failures left standing.
LEMMA FoldFacts ==
    ASSUME StreakInv, NEW batch \in SUBSET Pending, outcome' = Batched(batch),
           {t \in batch : t > streak.resumed} # {},
           streak' = FoldedStreak({t \in batch : t > streak.resumed})
    PROVE  /\ streak' \in StreakRecord
           /\ streak'.resumed = streak.resumed /\ streak'.success <= now
           /\ streak'.success # 0 => streak'.success \in Successes
           /\ \A t \in Successes : t > streak.resumed => t <= streak'.success
           /\ streak'.failures \subseteq FoldedFailures'
           /\ Newest(Standing') \subseteq streak'.failures
           /\ streak'.legacy = IF streak'.success = 0 /\ streak'.resumed = 0 THEN Legacy ELSE 0
           /\ streak'.count = Counting(streak'.legacy, Cardinality(Standing'))
<1>1. PICK eligible : eligible = {t \in batch : t > streak.resumed}
  OBVIOUS
<1>2. PICK next : next = streak'
  OBVIOUS
<1>3. PICK standing : standing = {t \in FoldedFailures' : t > next.resumed /\ t > next.success}
  OBVIOUS
<1>4. /\ batch \subseteq Pending /\ eligible # {} /\ next = FoldedStreak(eligible)
      /\ outcome' = [t \in Times |->
              IF t \notin batch THEN outcome[t]
              ELSE IF outcome[t] = "failure" THEN "folded_failure"
              ELSE "folded_success"]
  BY <1>1, <1>2 DEF Batched
<1> USE <1>1, <1>3, <1>4
<1> DEFINE marks == {streak.success} \cup (eligible \cap Successes)
                    \cup {t \in Pending \cap Successes : t > streak.resumed}
           mark == Latest(marks)
           legacy == IF mark = 0 THEN streak.legacy ELSE 0
           kept == {t \in streak.failures : t > streak.resumed /\ t > mark}
           ordered == Newest(kept) \cup {t \in eligible \cap Failures : t > mark}
           size == Cardinality(ordered)
           failures == {t \in streak.failures : ordered # {} /\ t >= Min(Newest(ordered))}
                       \cup Newest(ordered)
<1>5. /\ now \in Nat /\ now <= MaxTime /\ MaxTime \in Nat
      /\ streak.success \in Nat /\ streak.resumed \in Nat /\ streak.legacy \in Nat
      /\ streak.success <= now /\ streak.failures \subseteq FoldedFailures
      /\ Times \subseteq Nat /\ 0 \notin Times /\ MaxKept \in Nat /\ Legacy \in Nat
  BY StreakAssumption DEF StreakInv, StreakRecord, Times
<1>6. /\ Pending \subseteq Times /\ FoldedFailures \subseteq Times
      /\ Successes \subseteq Times /\ Failures \subseteq Times
      /\ \A t \in Successes \cup Failures : t <= now
  <2>1. \A t \in Times : t > now => outcome[t] = "none"
    BY DEF StreakInv
  <2>2. \A t \in Times : t \in Nat
    BY <1>5
  <2>3. ASSUME NEW t \in Times, outcome[t] # "none" PROVE t <= now
    <3>1. ~(t > now)
      BY <2>1, <2>3
    <3> QED BY <1>5, <2>2, <3>1
  <2> QED BY <2>3 DEF Pending, FoldedFailures, Successes, Failures
<1>7. marks \subseteq 0 .. now
  <2>1. \A t \in Successes : t \in Nat /\ t <= now
    BY <1>5, <1>6
  <2>2. \A t \in Successes : t \in 0 .. now
    BY <1>5, <2>1
  <2>3. streak.success \in 0 .. now
    BY <1>5
  <2>4. marks \subseteq {streak.success} \cup Successes
    OBVIOUS
  <2> HIDE DEF marks
  <2> QED BY <2>2, <2>3, <2>4
<1>8. /\ mark \in marks \cup {0} /\ mark \in Nat /\ mark <= now
      /\ \A t \in marks : t <= mark
  <2> HIDE DEF marks
  <2>1. /\ Latest(marks) \in marks \cup {0} /\ Latest(marks) \in 0 .. now
        /\ \A t \in marks : t <= Latest(marks)
    BY <1>5, <1>7, LatestFacts
  <2> QED BY <1>5, <2>1
<1>9. mark # 0 => mark \in Successes
  BY <1>8 DEF StreakInv
<1>10. streak.success <= mark
  BY <1>8
<1>11. \A t \in Successes : t > streak.resumed => t <= mark
  <2> SUFFICES ASSUME NEW t \in Successes, t > streak.resumed PROVE t <= mark
    OBVIOUS
  <2>1. CASE t \in Pending
    BY <1>8, <2>1
  <2>2. CASE t \notin Pending
    <3>1. outcome[t] = "folded_success" /\ t \in Times
      BY <2>2 DEF Successes, Pending
    <3>2. t <= streak.success
      BY <3>1 DEF StreakInv
    <3>3. t \in Nat
      BY <1>5, <3>1
    <3> HIDE DEF mark
    <3> QED BY <1>5, <1>8, <1>10, <3>2, <3>3
  <2> QED BY <2>1, <2>2
<1> HIDE DEF mark
<1>12. FoldedFailures' = FoldedFailures \cup (batch \cap Failures)
  BY <1>6 DEF FoldedFailures, Failures, Pending
<1>13. next = [streak EXCEPT !.legacy = legacy, !.success = mark, !.failures = failures,
                            !.count = Counting(legacy, size)]
  BY DEF FoldedStreak, SuccessMark, mark, Counting
<1>14. ordered \subseteq standing /\ standing \subseteq Times /\ ordered \subseteq Times
  <2>1. /\ kept \subseteq {t \in FoldedFailures' : t > streak.resumed /\ t > mark}
        /\ {t \in eligible \cap Failures : t > mark}
             \subseteq {t \in FoldedFailures' : t > streak.resumed /\ t > mark}
    BY <1>5, <1>12
  <2>2. Newest(kept) \subseteq kept
    BY DEF Newest
  <2>3. next.resumed = streak.resumed /\ next.success = mark
    <3> HIDE DEF legacy, failures, size
    <3> QED BY <1>13 DEF StreakInv, StreakRecord
  <2>4. standing = {t \in FoldedFailures' : t > streak.resumed /\ t > mark}
    BY <2>3
  <2>5. FoldedFailures' \subseteq Times
    BY DEF FoldedFailures
  <2> QED BY <2>1, <2>2, <2>4, <2>5
<1>15. Newest(standing) \subseteq ordered
  <2> SUFFICES ASSUME NEW t \in Newest(standing) PROVE t \in ordered
    OBVIOUS
  <2>1. /\ t \in standing /\ t \in Times
        /\ next.resumed = streak.resumed /\ next.success = mark
    <3> HIDE DEF legacy, failures, size
    <3> QED BY <1>13, <1>14 DEF Newest, StreakInv, StreakRecord
  <2>2. t \in FoldedFailures \cup (batch \cap Failures) /\ t > streak.resumed /\ t > mark
    BY <1>12, <2>1
  <2>3. CASE t \in batch \cap Failures
    BY <2>2, <2>3
  <2>4. CASE t \in FoldedFailures
    <3> DEFINE later == {u \in Standing : u > mark}
    <3>1. t \in Standing
      BY <1>5, <1>8, <1>10, <2>1, <2>2, <2>4 DEF Standing
    <3>2. \A u \in Standing : u >= t => u \in standing
      BY <1>5, <1>8, <1>12, <2>1, <2>2 DEF Standing, FoldedFailures
    <3>3. {u \in Standing : u >= t} \subseteq {u \in standing : u >= t}
      BY <3>2
    <3>4. Cardinality({u \in Standing : u >= t}) <= MaxKept
      <4>1. /\ IsFiniteSet({u \in standing : u >= t})
            /\ Cardinality({u \in standing : u >= t}) \in Nat
        <5>1. {u \in standing : u >= t} \subseteq Times
          BY <1>14
        <5> QED BY <5>1, PositionsFinite
      <4>2. /\ Cardinality({u \in Standing : u >= t}) <= Cardinality({u \in standing : u >= t})
            /\ Cardinality({u \in Standing : u >= t}) \in Nat
        BY <3>3, <4>1, FS_Subset, FS_CardinalityType
      <4>3. Cardinality({u \in standing : u >= t}) <= MaxKept
        BY DEF Newest
      <4> QED BY <1>5, <4>1, <4>2, <4>3
    <3>5. t \in Newest(Standing)
      BY <3>1, <3>4 DEF Newest
    <3>6. t \in kept
      BY <2>2, <3>5 DEF StreakInv
    <3>7. kept \subseteq Standing
      <4> SUFFICES ASSUME NEW u \in kept PROVE u \in Standing
        OBVIOUS
      <4>1. /\ u \in FoldedFailures /\ u > streak.resumed /\ u > mark
            /\ u \in Nat
        BY <1>5, <1>6
      <4>2. u > streak.success
        BY <1>5, <1>8, <1>10, <4>1
      <4> QED BY <4>1, <4>2 DEF Standing
    <3>8. Standing \subseteq Times
      BY DEF Standing, FoldedFailures
    <3>9. t \in Newest(kept)
      <4> HIDE DEF kept
      <4> QED BY <3>5, <3>6, <3>7, <3>8, NewestOfPart
    <3> QED BY <3>9
  <2> QED BY <2>2, <2>3, <2>4
<1>16. Newest(standing) \subseteq Newest(ordered)
  <2> HIDE DEF ordered
  <2> QED BY <1>14, <1>15, NewestOfPart
<1>17. AtMost(legacy + size, MaxKept) = AtMost(legacy + Cardinality(standing), MaxKept)
  <2>1. /\ IsFiniteSet(standing) /\ Cardinality(standing) \in Nat
        /\ IsFiniteSet(ordered) /\ size \in Nat /\ size <= Cardinality(standing)
    <3> HIDE DEF ordered
    <3> QED BY <1>14, PositionsFinite, FS_Subset
  <2>2. CASE Cardinality(standing) <= MaxKept
    <3>1. Newest(standing) = standing
      BY <1>14, <2>2, NewestMany
    <3>2. ordered = standing
      <4> HIDE DEF ordered
      <4> QED BY <1>14, <1>15, <3>1
    <3> QED BY <3>2
  <2>3. CASE ~(Cardinality(standing) <= MaxKept)
    <3>1. Cardinality(Newest(standing)) >= MaxKept
      BY <1>5, <1>14, <2>1, <2>3, NewestMany
    <3>2. Cardinality(Newest(standing)) <= size /\ Cardinality(Newest(standing)) \in Nat
      <4> HIDE DEF ordered
      <4> QED BY <1>15, <2>1, FS_Subset, FS_CardinalityType
    <3>3. legacy \in Nat
      BY <1>5
    <3> HIDE DEF ordered, size, legacy
    <3> QED BY <1>5, <2>1, <2>3, <3>1, <3>2, <3>3 DEF AtMost
  <2> QED BY <2>2, <2>3
<1>18. failures \subseteq FoldedFailures' /\ failures \subseteq Times
  <2>1. Newest(ordered) \subseteq ordered /\ standing \subseteq FoldedFailures'
    BY DEF Newest
  <2>2. FoldedFailures \subseteq FoldedFailures' /\ FoldedFailures' \subseteq Times
    BY <1>6, <1>12
  <2> HIDE DEF ordered
  <2> QED BY <1>5, <1>14, <2>1, <2>2
<1>19. legacy \in Nat /\ size \in Nat /\ Counting(legacy, size) \in Nat
  <2>1. legacy \in Nat
    BY <1>5
  <2>2. size \in Nat
    BY <1>14, PositionsFinite
  <2> HIDE DEF legacy, size
  <2> QED BY <2>1, <2>2, CountingFacts
<1> HIDE DEF legacy, size, failures
<1>20. /\ next \in StreakRecord /\ next.resumed = streak.resumed /\ next.success = mark
       /\ next.failures = failures /\ next.legacy = legacy
       /\ next.count = Counting(legacy, size)
  <2>1. /\ streak \in StreakRecord /\ failures \in SUBSET Times
        /\ next = [streak EXCEPT !.legacy = legacy, !.success = mark,
                                 !.failures = failures, !.count = Counting(legacy, size)]
    BY <1>13, <1>18 DEF StreakInv
  <2>2. next = [count |-> Counting(legacy, size), legacy |-> legacy,
                resumed |-> streak.resumed, success |-> mark, failures |-> failures]
    BY <2>1 DEF StreakRecord
  <2>3. streak.resumed \in Nat
    BY <2>1 DEF StreakRecord
  <2> QED BY <1>8, <1>19, <2>1, <2>2, <2>3 DEF StreakRecord
<1>21. next.legacy = IF next.success = 0 /\ next.resumed = 0 THEN Legacy ELSE 0
  BY <1>5, <1>8, <1>10, <1>20 DEF StreakInv, legacy
<1>22. next.count = Counting(next.legacy, Cardinality(standing))
  BY <1>17, <1>20 DEF Counting
<1>23. Newest(standing) \subseteq next.failures
  BY <1>16, <1>20 DEF failures
<1>24. standing = Standing'
  BY <1>2, <1>3 DEF Standing
<1> QED
  BY <1>2, <1>8, <1>9, <1>11, <1>18, <1>20, <1>21, <1>22, <1>23, <1>24

LEMMA BatchFacts ==
    ASSUME StreakInv, NEW batch \in SUBSET Pending, Fold(batch)
    PROVE  /\ outcome' \in [Times -> OutcomeKinds] /\ now' = now
           /\ outcome' = Batched(batch)
           /\ \A t \in Times : t > now => outcome'[t] = "none"
           /\ Successes' = Successes
           /\ FoldedFailures' = FoldedFailures \cup (batch \cap Failures)
           /\ \A t \in Times : outcome'[t] = "folded_success"
                                  => outcome[t] = "folded_success" \/ t \in batch
<1>1. now' = now /\ outcome' = Batched(batch)
  BY DEF Fold, Batched
<1>2. \A t \in batch : t \in Times /\ outcome[t] \in {"failure", "success"}
  BY DEF Pending
<1>3. ASSUME NEW t \in Times
      PROVE  /\ t \notin batch => outcome'[t] = outcome[t]
             /\ t \in batch /\ outcome[t] = "failure" => outcome'[t] = "folded_failure"
             /\ t \in batch /\ outcome[t] # "failure" => outcome'[t] = "folded_success"
  BY <1>1 DEF Batched
<1>4. outcome' \in [Times -> OutcomeKinds]
  BY <1>1 DEF Batched, StreakInv, OutcomeKinds
<1>5. Successes' = Successes
  BY <1>2, <1>3 DEF Successes
<1>6. FoldedFailures' = FoldedFailures \cup (batch \cap Failures)
  BY <1>2, <1>3 DEF FoldedFailures, Failures
<1>7. ASSUME NEW t \in Times, t > now PROVE outcome'[t] = "none"
  <2>1. outcome[t] = "none"
    BY <1>7 DEF StreakInv
  <2> QED BY <1>2, <1>3, <2>1
<1>8. \A t \in Times : outcome'[t] = "folded_success"
                          => outcome[t] = "folded_success" \/ t \in batch
  BY <1>3
<1> QED BY <1>1, <1>4, <1>5, <1>6, <1>7, <1>8

\* The pause a fold sets is the count it has reached.
LEMMA FoldPauses ==
    ASSUME StreakInv, NEW batch \in SUBSET Pending, Fold(batch), streak' \in StreakRecord
    PROVE  /\ workflow' \in [pause : Nat, threshold : Thresholds, enabled : BOOLEAN,
                             changes : Nat]
           /\ workflow'.pause # workflow.pause
                => /\ workflow'.pause = streak'.count /\ streak'.count >= workflow.threshold
                   /\ {t \in batch : t > streak.resumed} # {}
<1>1. \/ workflow' = workflow
      \/ /\ {t \in batch : t > streak.resumed} # {} /\ streak'.count >= workflow.threshold
         /\ workflow' = [workflow EXCEPT !.pause = streak'.count]
  BY DEF Fold
<1>2. workflow \in [pause : Nat, threshold : Thresholds, enabled : BOOLEAN, changes : Nat]
  BY DEF StreakInv
<1>3. streak'.count \in Nat
  BY DEF StreakRecord
<1> QED BY <1>1, <1>2, <1>3

\* A fold keeps what the row says, whether it counts its batch or drops it.
LEMMA FoldKeeps ==
    ASSUME StreakInv, NEW batch \in SUBSET Pending, Fold(batch)
    PROVE  /\ StreakInv'
           /\ {t \in batch : t > streak.resumed} # {}
                => \A t \in Successes' : t > streak'.resumed => t <= streak'.success
<1> DEFINE eligible == {t \in batch : t > streak.resumed}
<1>1. /\ outcome' \in [Times -> OutcomeKinds] /\ now' = now
      /\ outcome' = Batched(batch)
      /\ \A t \in Times : t > now => outcome'[t] = "none"
      /\ Successes' = Successes
      /\ FoldedFailures' = FoldedFailures \cup (batch \cap Failures)
      /\ \A t \in Times : outcome'[t] = "folded_success"
                             => outcome[t] = "folded_success" \/ t \in batch
  BY BatchFacts
<1>2. CASE eligible # {}
  <2>1. streak' = FoldedStreak(eligible)
    BY <1>2 DEF Fold
  <2>3. /\ streak' \in StreakRecord
        /\ streak'.resumed = streak.resumed /\ streak'.success <= now
        /\ streak'.success # 0 => streak'.success \in Successes
        /\ \A t \in Successes : t > streak.resumed => t <= streak'.success
        /\ streak'.failures \subseteq FoldedFailures'
        /\ Newest(Standing') \subseteq streak'.failures
        /\ streak'.legacy = IF streak'.success = 0 /\ streak'.resumed = 0 THEN Legacy ELSE 0
        /\ streak'.count = Counting(streak'.legacy, Cardinality(Standing'))
    BY <1>1, <1>2, <2>1, FoldFacts
  <2>4. /\ now' \in 0 .. MaxTime /\ streak'.resumed <= now' /\ streak'.success <= now'
    BY <1>1, <2>3 DEF StreakInv
  <2>5. ASSUME NEW t \in Times, outcome'[t] = "folded_success", t > streak'.resumed
        PROVE  t <= streak'.success
    <3>1. t \in Successes
      BY <1>1, <2>5 DEF Successes
    <3> QED BY <2>3, <2>5, <3>1
  <2>6. workflow' \in [pause : Nat, threshold : Thresholds, enabled : BOOLEAN, changes : Nat]
    BY <2>3, FoldPauses
  <2>7. \A t \in Times : t > now' => outcome'[t] = "none"
    BY <1>1
  <2> HIDE DEF eligible
  <2>8. StreakInv'
    BY <1>1, <2>3, <2>4, <2>5, <2>6, <2>7 DEF StreakInv, Newest, Counting, Latest, AtMost
  <2> QED BY <1>1, <2>3, <2>8
<1>3. CASE eligible = {}
  <2>1. streak' = streak
    BY <1>3 DEF Fold
  <2>2. \A t \in batch : ~(t > streak.resumed)
    BY <1>3
  <2>3. Standing' = Standing
    BY <1>1, <2>1, <2>2 DEF Standing
  <2>4. ASSUME NEW t \in Times, outcome'[t] = "folded_success", t > streak'.resumed
        PROVE  t <= streak'.success
    <3>1. outcome[t] = "folded_success"
      BY <1>1, <2>1, <2>2, <2>4
    <3> QED BY <2>1, <2>4, <3>1 DEF StreakInv
  <2>5. /\ streak' \in StreakRecord /\ now' \in 0 .. MaxTime /\ streak'.resumed <= now'
        /\ streak'.success <= now'
        /\ streak'.success # 0 => streak'.success \in Successes'
    BY <1>1, <2>1 DEF StreakInv
  <2>6. /\ streak'.failures \subseteq FoldedFailures' /\ Newest(Standing') \subseteq streak'.failures
        /\ streak'.legacy = IF streak'.success = 0 /\ streak'.resumed = 0 THEN Legacy ELSE 0
        /\ streak'.count = Counting(streak'.legacy, Cardinality(Standing'))
    BY <1>1, <2>1, <2>3 DEF StreakInv
  <2>7. workflow' \in [pause : Nat, threshold : Thresholds, enabled : BOOLEAN, changes : Nat]
    BY <2>5, FoldPauses
  <2>8. \A t \in Times : t > now' => outcome'[t] = "none"
    BY <1>1
  <2> HIDE DEF eligible
  <2>9. outcome' \in [Times -> OutcomeKinds]
    BY <1>1
  <2>10. StreakInv'
    BY <2>4, <2>5, <2>6, <2>7, <2>8, <2>9 DEF StreakInv, Newest, Counting, Latest, AtMost
  <2> QED BY <1>3, <2>10 DEF eligible
<1> QED BY <1>2, <1>3

LEMMA StreakStep == StreakInv /\ [StreakNext]_streakVars => StreakInv'
<1> SUFFICES ASSUME StreakInv, [StreakNext]_streakVars PROVE StreakInv'
  OBVIOUS
<1>1. CASE UNCHANGED streakVars
  <2>1. /\ now' = now /\ outcome' = outcome /\ streak' = streak /\ workflow' = workflow
    BY <1>1 DEF streakVars
  <2>2. Standing' = Standing /\ FoldedFailures' = FoldedFailures /\ Successes' = Successes
    BY <2>1 DEF Standing, FoldedFailures, Successes
  <2> QED BY <2>1, <2>2 DEF StreakInv, Newest, Counting, Latest, AtMost
<1>2. ASSUME NEW kind \in {"failing", "succeeding"}, RunEnded(kind) PROVE StreakInv'
  BY <1>2, EndKeeps
<1>3. ASSUME NEW t \in Times, CommitOutcome(t) PROVE StreakInv'
  BY <1>3, CommitKeeps
<1>4. ASSUME NEW t \in Times, RetainFailures(t) PROVE StreakInv'
  BY <1>4, RetainKeeps
<1>5. ASSUME NEW batch \in SUBSET Pending, Fold(batch) PROVE StreakInv'
  BY <1>5, FoldKeeps
<1>6. CASE Resume
  BY <1>6, ResumeKeeps
<1>7. CASE ChangeSettings
  BY <1>7, SettingsKeep
<1> QED BY <1>1, <1>2, <1>3, <1>4, <1>5, <1>6, <1>7 DEF StreakNext

\* Only a fold that counts pauses the triggers, and it has seen every
\* success that is committed.
LEMMA PausesAreFolds ==
    ASSUME StreakInv, [StreakNext]_streakVars, workflow'.pause \notin {0, workflow.pause}
    PROVE  /\ workflow'.pause = streak'.count /\ streak'.count >= workflow.threshold
           /\ \A t \in Successes' : t > streak'.resumed => t <= streak'.success
<1>1. ASSUME NEW batch \in SUBSET Pending, Fold(batch)
      PROVE  /\ workflow'.pause = streak'.count /\ streak'.count >= workflow.threshold
             /\ \A t \in Successes' : t > streak'.resumed => t <= streak'.success
  <2>1. streak' \in StreakRecord
    <3>1. StreakInv'
      BY <1>1, FoldKeeps
    <3> QED BY <3>1 DEF StreakInv
  <2> QED BY <1>1, <2>1, FoldKeeps, FoldPauses
<1>2. CASE Resume
  <2>1. workflow'.pause = 0
    BY <1>2 DEF Resume, StreakInv
  <2> QED BY <2>1
<1>3. CASE ChangeSettings
  <2>1. workflow'.pause = workflow.pause
    BY <1>3 DEF ChangeSettings, StreakInv
  <2> QED BY <2>1
<1>4. CASE workflow' = workflow
  BY <1>4
<1>5. \/ workflow' = workflow \/ Resume \/ ChangeSettings
      \/ \E batch \in SUBSET Pending : Fold(batch)
  BY DEF StreakNext, streakVars, RunEnded, CommitOutcome, RetainFailures
<1> QED BY <1>1, <1>2, <1>3, <1>4, <1>5

\* StreakIsTrue: triggers are paused only on a streak that has really
\* happened, by the order of the runs' ends, and a fold that leaves
\* nothing pending has counted all of it (foldTriggerOutcomes): the mark
\* is the latest committed success, no newest failure after it is
\* forgotten, and the count is that of the failures after it.
THEOREM StreakNeverInvented == StreakSpec => StreakIsTrue
<1>1. /\ (StreakInv /\ (\A t \in Successes : t > streak.resumed => t <= streak.success)
          => streak.count \in Nat /\ TrueStreak \in Nat /\ streak.count <= TrueStreak)'
      /\ (StreakInv /\ Pending = {}
          => AtMost(streak.count, MaxKept) = AtMost(TrueStreak, MaxKept))'
  BY CountWithin, CountComplete, PTL
<1>2. StreakInv /\ [StreakNext]_streakVars
      => [/\ workflow'.pause \notin {0, workflow.pause}
             => workflow'.pause \in workflow.threshold..TrueStreak'
          /\ Pending # {} /\ Pending' = {}
             => AtMost(streak'.count, MaxKept) = AtMost(TrueStreak', MaxKept)]_streakVars
  <2> SUFFICES ASSUME StreakInv, [StreakNext]_streakVars
               PROVE  /\ workflow'.pause \notin {0, workflow.pause}
                         => workflow'.pause \in workflow.threshold..TrueStreak'
                      /\ Pending' = {} => AtMost(streak'.count, MaxKept)
                                            = AtMost(TrueStreak', MaxKept)
    OBVIOUS
  <2>1. StreakInv'
    BY StreakStep
  <2>2. ASSUME workflow'.pause \notin {0, workflow.pause}
        PROVE  workflow'.pause \in workflow.threshold..TrueStreak'
    <3>1. /\ workflow'.pause = streak'.count /\ streak'.count >= workflow.threshold
          /\ \A t \in Successes' : t > streak'.resumed => t <= streak'.success
      BY <2>2, PausesAreFolds
    <3>2. streak'.count \in Nat /\ TrueStreak' \in Nat /\ streak'.count <= TrueStreak'
      BY <1>1, <2>1, <3>1
    <3>3. workflow.threshold \in Nat
      <4>1. workflow.threshold \in Thresholds
        BY DEF StreakInv
      <4>2. MaxKept \in Nat /\ Thresholds \subseteq 1 .. MaxKept
        BY StreakAssumption
      <4>3. \A n \in Thresholds : n \in Nat
        BY <4>2
      <4> QED BY <4>1, <4>3
    <3> QED BY <3>1, <3>2, <3>3
  <2>3. Pending' = {} => AtMost(streak'.count, MaxKept) = AtMost(TrueStreak', MaxKept)
    <3>1. ASSUME Pending' = {} PROVE (AtMost(streak.count, MaxKept) = AtMost(TrueStreak, MaxKept))'
      BY <1>1, <2>1, <3>1
    <3> QED BY <3>1 DEF AtMost
  <2> QED BY <2>2, <2>3
<1>3. QED
  BY <1>2, StreakStarts, StreakStep, PTL DEF StreakSpec, StreakIsTrue

=============================================================================

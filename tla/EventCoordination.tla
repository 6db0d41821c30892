------------------------- MODULE EventCoordination -------------------------
(***************************************************************************)
(* The events of one key of a webhook or form whose trigger deduplicates,  *)
(* debounces or throttles them (packages/core/src/triggers/coordination).  *)
(* An event starts a run, is skipped, or is held: a scanner finds the      *)
(* earliest held event of the key when it is due, and a second transaction *)
(* releases it, against the key's window, the run queue and whatever has   *)
(* become of the workflow.                                                 *)
(*                                                                         *)
(* Every receipt and release holds the workspace's coordination lock, so   *)
(* each is one action.  Terminal events keep history only and are          *)
(* forgotten.  Receipts that leave nothing behind (an invalid key, too     *)
(* many keys, a start that fails as a whole) are not modelled.             *)
(***************************************************************************)
EXTENDS Integers, Sequences

CONSTANTS Width,            \* windowSeconds, or quietSeconds
          RunsPerWindow,    \* limit of a throttle
          PendingTicks,     \* EVENT_COORDINATION_LIMITS.pendingMillis
          CapacityTicks,    \* EVENT_COORDINATION_LIMITS.capacityWaitMillis
          MaxEvents,        \* bound: events received
          MaxMoment,        \* bound: ticks of the clock
          MaxReplacements   \* bound: publications of the workflow after the first

ASSUME CoordinationAssumption ==
    /\ {Width, RunsPerWindow, PendingTicks, CapacityTicks} \subseteq Nat \ {0}
    /\ {MaxEvents, MaxMoment, MaxReplacements} \subseteq Nat

QueueTicks == 1            \* min(5 s, retryAfterSeconds)
RestTicks == 1              \* the minute a failed release rests

VARIABLES
    moment,      \* clock_timestamp()
    policy,      \* the trigger's policy; another policy has other keys
    window,      \* the key's row of trigger_event_windows
    held,        \* its pending events, in the order of received_at
    accepting,   \* workspace, workflow and endpoint are active
    published,   \* workflows.published_version_id
    received,    \* how many events have come
    starts       \* when the latest starts were

coordinationVars ==
    <<moment, policy, window, held, accepting, published, received, starts>>

NoWindow == [start |-> 0, used |-> 0, expires |-> 0, exists |-> FALSE]

CoordinationInit ==
    /\ moment = 0
    /\ policy \in {"deduplicate", "debounce", "skip", "delay"}
    /\ window = NoWindow
    /\ held = <<>>
    /\ accepting = TRUE
    /\ published = 0
    /\ received = 0
    /\ starts = <<>>

Least(S) == CHOOSE x \in S : \A y \in S : x <= y

-----------------------------------------------------------------------------
(* decideEventCoordination                                                 *)

Limit == IF policy = "deduplicate" THEN 1 ELSE RunsPerWindow

\* The window an event falls in: the row's, unless it is over.
CurrentWindow ==
    IF ~window.exists \/ policy = "debounce" \/ moment >= window.start + Width
    THEN [start |-> moment, used |-> 0]
    ELSE [start |-> window.start, used |-> window.used]

Excess == CurrentWindow.used >= Limit

StartsNow(hasPending) ==
    CASE policy = "debounce" -> FALSE
      [] policy = "deduplicate" -> ~Excess
      [] OTHER -> ~Excess /\ ~hasPending

MayHold == policy \in {"debounce", "delay"}

DueAt ==
    IF policy = "debounce" THEN moment + Width
    ELSE IF Excess THEN CurrentWindow.start + Width ELSE moment

-----------------------------------------------------------------------------
(* keys.repository                                                         *)

\* loadEventWindow: a key that has no row gets one.
LoadedWindow ==
    IF window.exists THEN window
    ELSE [start |-> moment, used |-> 0, expires |-> moment + Width, exists |-> TRUE]

\* Mutant: the charge counts a start, and leaves the window where it was.
CountStart ==
    [LoadedWindow EXCEPT !.used = CurrentWindow.used + 1]

\* chargeEventWindow
ChargedWindow ==
    [start |-> CurrentWindow.start, used |-> CurrentWindow.used + 1,
     expires |-> CurrentWindow.start + Width, exists |-> TRUE]

\* A run is accepted.  Only as many starts are kept as WindowsHold looks at.
Start ==
    /\ window' = ChargedWindow
    /\ starts' = LET all == Append(starts, moment)
                 IN  IF Len(all) > 2 * Limit + 1 THEN Tail(all) ELSE all

-----------------------------------------------------------------------------
(* coordinateEvent                                                         *)

Received ==
    /\ accepting
    /\ received < MaxEvents
    /\ received' = received + 1
    /\ UNCHANGED <<moment, policy, accepting, published>>

StartEvent ==
    /\ Received
    /\ StartsNow(held # <<>>)
    /\ Start
    /\ UNCHANGED held

\* The workflow is already running, or the event is a duplicate, over the limit
\* or over the workspace's budget of pending events: the row of the key stays.
SkipEvent ==
    /\ Received
    /\ window' = LoadedWindow
    /\ UNCHANGED <<held, starts>>

\* Mutant: a later event of a burst has a deadline of its own.
OwnDeadline == moment + PendingTicks

\* A debounce replaces the pending event, and inherits its deadline.
Deadline ==
    IF policy = "debounce" /\ held # <<>> THEN held[1].deadline
    ELSE moment + PendingTicks

HoldEvent ==
    /\ Received
    /\ ~StartsNow(held # <<>>) /\ MayHold
    /\ window' = LoadedWindow
    /\ LET replaces == policy = "debounce" /\ held # <<>>
           event == [at |-> moment, version |-> published,
                     first |-> IF replaces THEN held[1].first ELSE moment,
                     due |-> Least({DueAt, Deadline}), deadline |-> Deadline,
                     waiting |-> FALSE, since |-> 0, found |-> FALSE]
       IN  held' = IF replaces THEN <<event>> ELSE Append(held, event)
    /\ UNCHANGED starts

-----------------------------------------------------------------------------
(* event-scanner.store and release.repository                              *)

\* discover_due_coordinated_events: the earliest event of the key, if due.
\* Several scanners may have found it, each at its own time.
Discover ==
    /\ held # <<>>
    /\ held[1].due <= moment
    /\ ~held[1].found
    /\ held' = [held EXCEPT ![1].found = TRUE]
    /\ UNCHANGED <<moment, policy, window, accepting, published, received, starts>>

Without(i) == SubSeq(held, 1, i - 1) \o SubSeq(held, i + 1, Len(held))

GivesUpAt(event) ==
    IF event.waiting THEN {event.deadline, event.since + CapacityTicks}
    ELSE {event.deadline}

Refused(event) ==
    \/ ~accepting
    \/ published # event.version
    \/ \E t \in GivesUpAt(event) : moment >= t

\* releaseCoordinatedEvent, with the answer of the acceptance of a run: it is
\* not accepted when the workflow is running already, or may not run.
Release(i, answer) ==
    LET event == held[i]
        Later(at) == [held EXCEPT ![i].due = Least({at} \cup GivesUpAt(event))]
    IN  /\ event.found
        /\ \/ /\ Refused(event)
              /\ held' = Without(i)
              /\ UNCHANGED <<window, starts>>
           \/ /\ ~Refused(event)
              /\ event.due <= moment /\ i = 1
              /\ \/ /\ policy = "delay" /\ Excess
                    /\ held' = Later(DueAt)
                    /\ UNCHANGED <<window, starts>>
                 \/ /\ ~(policy = "delay" /\ Excess)
                    /\ \/ /\ answer = "accepted"
                          /\ Start
                          /\ held' = Without(i)
                       \/ /\ answer = "not accepted"
                          /\ held' = Without(i)
                          /\ UNCHANGED <<window, starts>>
                       \/ /\ answer = "queue full"
                          /\ LET since == IF event.waiting THEN event.since ELSE moment
                             IN  held' = [held EXCEPT
                                   ![i].waiting = TRUE, ![i].since = since,
                                   ![i].due = Least({moment + QueueTicks,
                                       event.deadline, since + CapacityTicks})]
                          /\ UNCHANGED <<window, starts>>
        /\ UNCHANGED <<moment, policy, accepting, published, received>>

\* restFailedCoordinatedEvent: a release failed otherwise, and its transaction
\* was rolled back.
RestFailed(i) ==
    /\ held[i].found
    /\ held[i].due <= moment
    /\ held' = [held EXCEPT ![i].due = Least({moment + RestTicks, held[i].deadline})]
    /\ UNCHANGED <<moment, policy, window, accepting, published, received, starts>>

-----------------------------------------------------------------------------
(* What happens around it                                                  *)

\* Retention deletes the row of a key that is over and that no event holds.
RetainWindow ==
    /\ window.exists
    /\ window.expires <= moment
    /\ held = <<>>
    /\ window' = NoWindow
    /\ UNCHANGED <<moment, policy, held, accepting, published, received, starts>>

\* The workspace, the workflow or the endpoint stops accepting, or does again.
ChangeAccepting ==
    /\ accepting' = ~accepting
    /\ UNCHANGED <<moment, policy, window, held, published, received, starts>>

Publish ==
    /\ published < MaxReplacements
    /\ published' = published + 1
    /\ UNCHANGED <<moment, policy, window, held, accepting, received, starts>>

TimePasses ==
    /\ moment < MaxMoment
    /\ moment' = moment + 1
    /\ UNCHANGED <<policy, window, held, accepting, published, received, starts>>

CoordinationNext ==
    \/ StartEvent \/ SkipEvent \/ HoldEvent \/ Discover
    \/ \E i \in DOMAIN held :
          \/ \E answer \in {"accepted", "not accepted", "queue full"} :
                Release(i, answer)
          \/ RestFailed(i)
    \/ RetainWindow \/ ChangeAccepting \/ Publish \/ TimePasses

CoordinationSpec == CoordinationInit /\ [][CoordinationNext]_coordinationVars

-----------------------------------------------------------------------------
(* Properties                                                              *)

EventRecord ==
    [at : Nat, version : Nat, first : Nat, due : Nat, deadline : Nat,
     waiting : BOOLEAN, since : Nat, found : BOOLEAN]

\* Types: the row of the key, and events with all that a release needs
\* (trigger_event_windows, trigger_coordinated_events).
CoordinationTypeOK ==
    /\ moment \in Nat /\ published \in Nat /\ received \in Nat
    /\ policy \in {"deduplicate", "debounce", "skip", "delay"}
    /\ window \in [start : Nat, used : Nat, expires : Nat, exists : BOOLEAN]
    /\ held \in Seq(EventRecord)
    /\ accepting \in BOOLEAN
    /\ starts \in Seq(Nat)

\* Windows hold their limit, whichever events were held, released, skipped or
\* refused and whenever the row of the key was deleted: two windows hold
\* 2 * Limit starts, so the next is more than a window after the first of them
\* (decideEventCoordination, chargeEventWindow).  It is no sliding limit: the
\* guide says that bursts may come at a boundary.
WindowsHold ==
    policy # "debounce" =>
        \A i \in DOMAIN starts : i + 2 * Limit \in DOMAIN starts =>
            starts[i + 2 * Limit] - starts[i] > Width

\* A run starts only when no earlier event of its key is held: an event at
\* once, or the first held event, of the version that is published, before it
\* was to be given up (a burst with its first event), and a debounced one when
\* its key has been quiet (coordinateEvent, releaseCoordinatedEvent).
StartsInTurn ==
    [][starts' # starts =>
         \/ held = <<>>
         \/ /\ held' = Tail(held)
            /\ accepting /\ held[1].version = published
            /\ moment - held[1].first < PendingTicks
            /\ held[1].waiting => moment - held[1].since < CapacityTicks
            /\ policy = "debounce" => moment - held[1].at >= Width
      ]_coordinationVars

=============================================================================

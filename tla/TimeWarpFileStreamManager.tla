---------------------- MODULE TimeWarpFileStreamManager ----------------------
(***************************************************************************)
(* The output file of an LP (TimeWarpFileStream.cpp,                       *)
(* TimeWarpFileStreamManager.cpp): what the LP writes waits as output      *)
(* requests until the GVT has passed the event that wrote it; a rollback   *)
(* removes requests.  The rest of the module is the part of processEvents  *)
(* that concerns one LP: its events arrive in any order, those processed   *)
(* too early are rolled back and the LP coasts forward from a saved state. *)
(*                                                                         *)
(* Every event makes the LP write one request, which names the event.      *)
(***************************************************************************)
EXTENDS WarpedEvent, Sequences, FiniteSets
Seqs == INSTANCE SequencesExt

CONSTANTS Messages,      \* the events that may be sent to the LP
          StatePeriod,   \* a state is saved every so many events
          Cancels,       \* whether events are cancelled by anti-messages
          EndTime        \* the GVT when nothing is left

(* What the theorems take of the constants.                                *)
Configured == /\ \A e \in Messages : e \in Event /\ e.type = POSITIVE
              /\ EndTime \in Nat

VARIABLES output_requests,  \* events whose output waits, oldest request first
          current_event,    \* current_event_
          file,             \* the output committed
          pending,          \* the LP's input queue
          processed,        \* events processed and not undone, in order
          saved,            \* how many events each saved state reflects
          count,            \* events until the next state is saved
          unsent,           \* events not sent yet
          gvt, collected,   \* the GVT, and the one of the last collection
          pc                \* "running" or "terminated"

lpVars == <<pending, processed, saved, count, unsent>>
vars   == <<output_requests, current_event, file, lpVars, gvt, collected, pc>>

Init == /\ output_requests = <<>>
        /\ current_event = InitialEvent
        /\ file = <<>>
        /\ pending = {} /\ processed = <<>>
        /\ saved = <<0>> /\ count = StatePeriod - 1
        /\ unsent = Messages
        /\ gvt = 0 /\ collected = 0
        /\ pc = "running"

-----------------------------------------------------------------------------
(* The file stream.                                                        *)

(* setCurrentEvent and operator<<, for the events the LP receives.         *)
WrittenBy(requests, events) == requests \o events

(* pop_back as long as what is at the end is to go.                        *)
StripEnd(seq, gone) ==
    LET k == CHOOSE n \in 0 .. Len(seq) : n \notin gone /\ n + 1 .. Len(seq) \subseteq gone
    IN  SubSeq(seq, 1, k)

(* Requests are removed from the back while the rollback event is before   *)
(* theirs.                                                                 *)
removeOutputRequestsAfter(requests, event) ==
    StripEnd(requests, {i \in DOMAIN requests : Before(event, requests[i])})

(* Requests are committed from the front while they are older than gvt.    *)
CommittedCount(requests, time) ==
    CHOOSE n \in 0 .. Len(requests) :
        /\ n < Len(requests) => requests[n + 1].ts >= time
        /\ \A i \in 1 .. n : requests[i].ts < time

commitOutputRequestsBefore(time) ==
    LET n == CommittedCount(output_requests, time)
    IN  /\ file' = file \o SubSeq(output_requests, 1, n)
        /\ output_requests' = SubSeq(output_requests, n + 1, Len(output_requests))

-----------------------------------------------------------------------------
(* The LP.                                                                 *)

Send(e) ==
    /\ e \in unsent /\ e.ts >= gvt
    /\ unsent' = unsent \ {e}
    /\ pending' = pending \cup {e}
    /\ UNCHANGED <<output_requests, current_event, file, processed, saved, count,
                   gvt, collected, pc>>

Cancel(e) ==
    /\ Cancels /\ e \in pending \cup Seqs!ToSet(processed)
    /\ e.type = POSITIVE /\ e.ts >= gvt /\ NegativeEvent(e) \notin pending
    /\ pending' = pending \cup {NegativeEvent(e)}
    /\ UNCHANGED <<output_requests, current_event, file, processed, saved, count,
                   unsent, gvt, collected, pc>>

Straggles(e) == /\ processed # <<>>
                /\ \/ Before(e, Seqs!Last(processed))
                   \/ SameEvent(e, Seqs!Last(processed)) /\ e.type = NEGATIVE

(* The least pending event is taken and there is nothing to undo.          *)
ReceiveEvent(e) ==
    /\ IsFirst(e, pending) /\ ~ Straggles(e) /\ e.type = POSITIVE
    /\ current_event' = e
    /\ output_requests' = WrittenBy(output_requests, <<e>>)
    /\ processed' = Append(processed, e)
    /\ pending' = pending \ {e}
    /\ IF count = 0
       THEN saved' = Append(saved, Len(processed')) /\ count' = StatePeriod - 1
       ELSE count' = count - 1 /\ UNCHANGED saved
    /\ UNCHANGED <<file, unsent, gvt, collected, pc>>

(* The anti-message meets its event in the input queue.                    *)
CancelEvent(e) ==
    /\ IsFirst(e, pending) /\ ~ Straggles(e) /\ e.type = NEGATIVE
    /\ pending' = pending \ {e, PositiveEvent(e)}
    /\ UNCHANGED <<output_requests, current_event, file, processed, saved, count,
                   unsent, gvt, collected, pc>>

(* The events processed again after the restored state.                    *)
CoastForward(kept, states) == SubSeq(kept, Seqs!Last(states) + 1, Len(kept))

(* twfs_manager_->rollback, the rollback of events and states, and coast   *)
(* forwarding, in which the LP writes as it does the first time.           *)
Rollback(e) ==
    LET kept   == StripEnd(processed, {i \in DOMAIN processed : SameOrAfter(processed[i], e)})
        states == StripEnd(saved, {i \in DOMAIN saved : saved[i] > Len(kept)})
        again  == CoastForward(kept, states)
    IN  /\ IsFirst(e, pending) /\ Straggles(e)
        /\ output_requests' =
              WrittenBy(removeOutputRequestsAfter(output_requests, e), again)
        /\ current_event' = IF again = <<>> THEN e ELSE Seqs!Last(again)
        /\ processed' = kept
        /\ saved' = states
        /\ pending' = pending \cup (Seqs!ToSet(processed) \ Seqs!ToSet(kept))
        /\ UNCHANGED <<file, count, unsent, gvt, collected, pc>>

(* Done by the worker after an event, if the GVT has advanced.             *)
fossilCollect ==
    /\ processed # <<>> /\ collected < gvt
    /\ commitOutputRequestsBefore(gvt)
    /\ collected' = gvt
    /\ UNCHANGED <<current_event, lpVars, gvt, pc>>

AdvanceGVT(time) ==
    /\ gvt < time /\ \A e \in pending : time <= e.ts
    /\ gvt' = time
    /\ UNCHANGED <<output_requests, current_event, file, lpVars, collected, pc>>

(* At the end the engine collects the events, nothing else.                *)
Terminate ==
    /\ unsent = {} /\ pending = {}
    /\ pc' = "terminated"
    /\ UNCHANGED <<output_requests, current_event, file, lpVars, gvt, collected>>

Next == /\ pc = "running"
        /\ \/ \E e \in unsent : Send(e)
           \/ \E e \in pending \cup Seqs!ToSet(processed) : Cancel(e)
           \/ \E e \in pending : ReceiveEvent(e) \/ CancelEvent(e) \/ Rollback(e)
           \/ fossilCollect
           \/ \E time \in 1 .. EndTime : AdvanceGVT(time)
           \/ Terminate

Spec == Init /\ [][Next]_vars

-----------------------------------------------------------------------------
(* Properties.                                                             *)

(* The file and the requests together are what the LP's history writes,    *)
(* each event once and in order, however often the LP was rolled back.     *)
(* True only if a state is saved after every event (StatePeriod = 1) and   *)
(* nothing is cancelled.                                                   *)
OutputIsHistory == file \o output_requests = processed

(* However often the LP was rolled back and whatever was committed or      *)
(* removed, each event that is processed has its output in the file or     *)
(* among the requests.  (It may be there twice, and output of events that  *)
(* were undone may remain: OutputIsHistory.)                               *)
NoOutputMissing == Seqs!ToSet(processed) \subseteq Seqs!ToSet(file) \cup Seqs!ToSet(output_requests)

(* What is in the file is final: whatever the LP has yet to process, a      *)
(* straggler or an anti-message, comes after all that is committed, so no   *)
(* rollback ever has to take back what commitOutputRequestsBefore wrote.    *)
CommittedIsFinal ==
    \A i \in DOMAIN file : \A e \in pending : After(e, file[i])

(* When the simulation is over everything is in the file.                  *)
OutputComplete == pc = "terminated" => output_requests = <<>>
=============================================================================

---------------------------- MODULE SearchStream ----------------------------
(***************************************************************************)
(* The two search handlers of crates/houndr-server/src/api.rs over         *)
(* SearchExecution.                                                        *)
(*                                                                         *)
(* search_handler ("json") runs execute_search on all selected readers in  *)
(* parallel and answers once.  search_stream_handler ("stream") spawns a   *)
(* task that starts one blocking task per selected reader, awaits them in  *)
(* order and sends a final event; results and final event go through one   *)
(* bounded channel, whose receiver the client may drop at any time.        *)
(*                                                                         *)
(* Locks, cache and replacement of the readers are in SearchCache: here    *)
(* the readers are the snapshot the handler holds.                         *)
(***************************************************************************)
EXTENDS SearchExecution

CONSTANT ChannelCapacity   \* mpsc::channel(32)

ASSUME SearchStreamConstants == ChannelCapacity \in Nat \ {0}

VARIABLES
    handler,    \* "json" or "stream"
    selected,   \* the readers the repos parameter lets through
    stage,      \* where the handler, then its spawned task, is
    next,       \* the reader the loop of the spawned task is at
    task,       \* per reader: its blocking task
    total,      \* total_files of the spawned task
    channel,    \* events sent and not yet received
    received,   \* events the client has received
    client,     \* "connected", "gone" (dropped the receiver) or "ended"
    response    \* the JSON response

request == <<handler, selected>>
stream  == <<next, task, total>>
vars == <<execVars, request, stage, stream, channel, received, client, response>>

Result(r) == [event |-> "result", reader |-> r, files |-> result[r].total_file_count]
Done      == [event |-> "done", reader |-> 0, files |-> total]
Events    == [event : {"result", "done"}, reader : 0..NumReaders, files : Nat]

Response   == [files : SUBSET Docs, total_files : Nat, truncated : BOOLEAN]
NoResponse == [files |-> {}, total_files |-> 0, truncated |-> FALSE]

Stages == {"received", "refused", "searching", "responded",
           "spawning", "joining", "finished"}
TaskStates == {"none", "executing", "sending", "finished"}

TypeOK ==
    /\ ExecTypeOK
    /\ handler \in {"json", "stream"}
    /\ selected \subseteq Readers
    /\ stage \in Stages
    /\ next \in 1..(NumReaders + 1)
    /\ task \in [Readers -> TaskStates]
    /\ total \in Nat
    /\ channel \in Seq(Events) /\ Len(channel) <= ChannelCapacity
    /\ received \in Seq(Events)
    /\ client \in {"connected", "gone", "ended"}
    /\ response \in Response

Idle ==
    /\ ExecInit
    /\ stage = "received"
    /\ next = 1
    /\ task = [r \in Readers |-> "none"]
    /\ total = 0
    /\ channel = <<>> /\ received = <<>>
    /\ client = "connected"
    /\ response = NoResponse

Init ==
    /\ limit \in Nat /\ candidates \in SUBSET Docs
    /\ ranges \in [Docs -> Seq(Nat \ {0})]
    /\ handler \in {"json", "stream"} /\ selected \in SUBSET Readers
    /\ Idle

-----------------------------------------------------------------------------
\* No plan can be made of the query: the handler answers with an error.
Refuse ==
    /\ stage = "received"
    /\ stage' = "refused"
    /\ UNCHANGED <<execVars, request, stream, channel, received, client, response>>

\* search_handler: par_iter over the selected readers.
SearchAll ==
    /\ stage = "received" /\ handler = "json"
    /\ stage' = "searching"
    /\ phase' = [r \in Readers |-> IF r \in selected THEN "running" ELSE phase[r]]
    /\ UNCHANGED <<inputs, doc, counters, result, request, stream, channel, received,
                   client, response>>

\* search_stream_handler returns the stream and leaves the rest to a task.
SpawnTask ==
    /\ stage = "received" /\ handler = "stream"
    /\ stage' = "spawning"
    /\ UNCHANGED <<execVars, request, stream, channel, received, client, response>>

\* execute_search of one reader is at work.
ExecuteStep ==
    /\ ExecNext
    /\ UNCHANGED <<request, stage, stream, channel, received, client, response>>

-----------------------------------------------------------------------------
\* The sum of the counts of some readers.
TotalFiles(readers) ==
    Cardinality(UNION {{r} \X (1..result[r].total_file_count) : r \in readers})

\* Mutant: the flag compares with the limit.
RespondAtLimit ==
    /\ stage = "searching" /\ \A r \in selected : phase[r] = "returned"
    /\ LET results == {r \in selected : result[r].files # {}} IN
       response' = [files |-> UNION {result[r].files : r \in results},
                    total_files |-> TotalFiles(results),
                    truncated |-> \E r \in results : Cardinality(result[r].files) >= limit]
    /\ stage' = "responded"
    /\ UNCHANGED <<execVars, request, stream, channel, received, client>>

\* search_handler leaves out the readers without files and sums up the others.
Respond ==
    /\ stage = "searching" /\ \A r \in selected : phase[r] = "returned"
    /\ LET results == {r \in selected : result[r].files # {}} IN
       response' = [files |-> UNION {result[r].files : r \in results},
                    total_files |-> TotalFiles(results),
                    truncated |-> \E r \in results :
                        result[r].total_file_count > Cardinality(result[r].files)]
    /\ stage' = "responded"
    /\ UNCHANGED <<execVars, request, stream, channel, received, client>>

-----------------------------------------------------------------------------
\* The loop of the spawned task: one blocking task per selected reader.
Spawn ==
    /\ stage = "spawning" /\ next \in Readers
    /\ next' = next + 1
    /\ IF next \in selected
       THEN /\ Execute(next)
            /\ task' = [task EXCEPT ![next] = "executing"]
       ELSE UNCHANGED <<phase, task>>
    /\ UNCHANGED <<inputs, doc, counters, result, request, stage, total, channel, received,
                   client, response>>

\* drop(tx): the sender of the loop goes, the one of the final event stays.
StartJoining ==
    /\ stage = "spawning" /\ next \notin Readers
    /\ stage' = "joining"
    /\ next' = 1
    /\ UNCHANGED <<execVars, request, task, total, channel, received, client, response>>

\* A blocking task without matches returns at once, the others send first.
TaskResult(r) ==
    /\ task[r] = "executing" /\ phase[r] = "returned"
    /\ task' = [task EXCEPT ![r] =
                    IF result[r].total_file_count = 0 THEN "finished" ELSE "sending"]
    /\ UNCHANGED <<execVars, request, stage, next, total, channel, received, client, response>>

\* It panics in the search: what is left of it is an error in its handle.
TaskPanics(r) ==
    /\ task[r] = "executing" /\ phase[r] = "running"
    /\ phase' = [phase EXCEPT ![r] = "panicked"]
    /\ task' = [task EXCEPT ![r] = "finished"]
    /\ UNCHANGED <<inputs, doc, counters, result, request, stage, next, total, channel,
                   received, client, response>>

\* Mutant: an unbounded channel.
SendAtOnce(event) ==
    \/ client = "connected" /\ channel' = Append(channel, event)
    \/ client = "gone" /\ UNCHANGED channel

\* Sending on the channel waits for room; it fails, and the failure is
\* ignored, when the client has dropped the receiver.
Send(event) ==
    \/ /\ client = "connected" /\ Len(channel) < ChannelCapacity
       /\ channel' = Append(channel, event)
    \/ client = "gone" /\ UNCHANGED channel

\* Mutant: a task does not notice that the receiver is gone.
SendToConnected(r) ==
    /\ task[r] = "sending" /\ client = "connected" /\ Send(Result(r))
    /\ task' = [task EXCEPT ![r] = "finished"]
    /\ UNCHANGED <<execVars, request, stage, next, total, received, client, response>>

\* blocking_send of a blocking task.
SendResult(r) ==
    /\ task[r] = "sending" /\ Send(Result(r))
    /\ task' = [task EXCEPT ![r] = "finished"]
    /\ UNCHANGED <<execVars, request, stage, next, total, received, client, response>>

\* Mutant: the handles are not awaited.
JoinEarly ==
    /\ stage = "joining" /\ next \in Readers
    /\ next' = next + 1
    /\ total' = total + result[next].total_file_count
    /\ UNCHANGED <<execVars, request, stage, task, channel, received, client, response>>

\* The handles are awaited in the order of the readers.  One that panicked has no
\* result, and counts for nothing.
Join ==
    /\ stage = "joining" /\ next \in Readers
    /\ task[next] \in {"none", "finished"}
    /\ next' = next + 1
    /\ total' = total + result[next].total_file_count
    /\ UNCHANGED <<execVars, request, stage, task, channel, received, client, response>>

\* The final event; then the last sender is dropped.
SendDone ==
    /\ stage = "joining" /\ next \notin Readers
    /\ Send(Done)
    /\ stage' = "finished"
    /\ UNCHANGED <<execVars, request, stream, received, client, response>>

-----------------------------------------------------------------------------
\* The client reads an event, sees the end of the stream, or goes away.
Receive ==
    /\ client = "connected" /\ channel # <<>>
    /\ received' = Append(received, Head(channel))
    /\ channel' = Tail(channel)
    /\ UNCHANGED <<execVars, request, stage, stream, client, response>>

EndOfStream ==
    /\ client = "connected" /\ channel = <<>> /\ stage = "finished"
    /\ client' = "ended"
    /\ UNCHANGED <<execVars, request, stage, stream, channel, received, response>>

Disconnect ==
    /\ handler = "stream" /\ client = "connected"
    /\ stage \in {"spawning", "joining", "finished"}
    /\ client' = "gone"
    /\ channel' = <<>>
    /\ UNCHANGED <<execVars, request, stage, stream, received, response>>

Handler == SearchAll \/ Respond \/ SpawnTask \/ Spawn \/ StartJoining \/ Join \/ SendDone
Reading == Receive \/ EndOfStream \/ Disconnect

Next ==
    \/ Refuse \/ Handler \/ ExecuteStep
    \/ \E r \in Readers : TaskResult(r) \/ TaskPanics(r) \/ SendResult(r)
    \/ Reading

Spec == Init /\ [][Next]_vars

\* Tasks and workers are scheduled, and a client reads or disconnects; no task
\* has to panic.
Fairness ==
    /\ WF_vars(Refuse) /\ WF_vars(Handler) /\ WF_vars(Reading)
    /\ \A d \in Docs : WF_vars(ExecuteStep /\ VerifyStep(d))
    /\ \A r \in Readers :
         /\ WF_vars(ExecuteStep /\ Collect(r))
         /\ WF_vars(TaskResult(r)) /\ WF_vars(SendResult(r))

-----------------------------------------------------------------------------
\* Everything sent to a client that has not left.
Sent == received \o channel

\* The selected readers whose search has not panicked.
Answering == {r \in selected : phase[r] # "panicked"}

\* The final event ends the stream: it comes once, last, after the result of
\* every selected reader with matches, each of which comes once; and its total
\* is that of the results, and of the files there are to find.  A reader whose
\* search panicked is missing from both.
DoneIsLast == client # "gone" => \A i \in DOMAIN Sent : Sent[i].event = "done" =>
    /\ i = Len(Sent)
    /\ \A r \in Answering : Matching(r) # {} =>
           Cardinality({j \in DOMAIN Sent : Sent[j] = Result(r)}) = 1
    /\ Sent[i].files = Cardinality(UNION {Matching(r) : r \in Answering})
    /\ i = 1 + Cardinality({r \in Answering : Matching(r) # {}})

\* What the JSON answer says of itself: every matching file is either returned
\* or the answer says it is truncated, and its total does not depend on it.  With
\* room for no file at all, readers with matches are left out as if they had none.
TruncationIsHonest == stage = "responded" /\ limit > 0 =>
    LET found == UNION {Matching(r) : r \in selected} IN
    /\ response.truncated <=> response.files # found
    /\ response.total_files = Cardinality(found)

\* A request ends: it is refused, answered, or the client has the end of the
\* stream or has left; and no blocking task is left behind, if a client that stays reads.
RequestEnds == <>[](/\ \/ stage \in {"refused", "responded"}
                       \/ stage = "finished" /\ client \in {"ended", "gone"}
                    /\ \A r \in Readers : task[r] \in {"none", "finished"})

=============================================================================

----------------------------- MODULE DebugPanel -----------------------------
(***************************************************************************)
(* The Deep Debug page as a client of the two chat routes.  Each press of  *)
(* Send starts a stream of /chat, a poll of /chat/async and /runs, or      *)
(* both; earlier sends go on in the background and share the timeline and  *)
(* the run inspector.  A stream arrives in chunks cut anywhere and is      *)
(* split into events at empty lines.                                       *)
(*                                                                         *)
(* Source: ChatDebugPanel.tsx, sse.ts, client.ts.  The server is external: *)
(* runs move as RunLifecycle says, requests may fail, and the lines of the *)
(* stream end with LF or CRLF (sse_starlette separates them by CRLF unless *)
(* told otherwise, and the route does not tell it).                        *)
(***************************************************************************)
EXTENDS Integers, Sequences, FiniteSets

CONSTANTS MaxSends,   \* presses of Send: a bound
          MaxLoops,   \* loops they start in all: a bound
          MaxRounds,  \* 180
          Modes,      \* of "sse", "polling" and "both"
          LineEnds,   \* of "lf" and "crlf"
          Events      \* the names of the events of a complete stream

\* No event has the name of another word of the stream or of the timeline: the
\* server sends run_started, message and run_completed.
Names == {Events[i] : i \in DOMAIN Events}

ASSUME PanelAssumption ==
    /\ MaxSends \in Nat /\ MaxRounds \in Nat
    /\ LineEnds \subseteq {"lf", "crlf"}
    /\ Events \in Seq(STRING)
    /\ {"LF", "CR", "data", "run_status"} \cap Names = {}

Sends == 1..MaxSends

VARIABLES ends,      \* how the server ends its lines
          sent,      \* presses so far
          run,       \* runs.status of the queued run of a send
          poll,      \* where the polling loop of a send is
          round,     \* its i
          stream,    \* where the reading loop of a send is
          total,     \* events the server sends before it closes the stream
          wire,      \* what the client has not read yet
          buffer,    \* what it has read and not used
          timeline,  \* the items of each send, oldest first
          inspector  \* the run shown last: send and status

polling == <<run, poll, round, inspector>>
reading == <<stream, total, wire, buffer>>
vars    == <<ends, sent, polling, reading, timeline>>

\* The server's side of a run.
Run == INSTANCE RunLifecycle WITH Runs <- Sends

Set(f, s, v) == [f EXCEPT ![s] = v]
Push(s, kind, summary) == timeline' = Set(timeline, s, Append(timeline[s], <<kind, summary>>))

-----------------------------------------------------------------------------
Init == /\ ends \in LineEnds
        /\ sent = 0
        /\ run = [s \in Sends |-> "none"]
        /\ poll = [s \in Sends |-> "idle"] /\ round = [s \in Sends |-> 0]
        /\ stream = [s \in Sends |-> "idle"] /\ total = [s \in Sends |-> 0]
        /\ wire = [s \in Sends |-> <<>>] /\ buffer = [s \in Sends |-> <<>>]
        /\ timeline = [s \in Sends |-> <<>>]
        /\ inspector = <<0, "none">>

Loops(f) == Cardinality({s \in Sends : f[s] # "idle"})

\* The button: the timeline is cleared, whatever is still running.
Send(mode) ==
    /\ sent < MaxSends
    /\ sent' = sent + 1
    /\ timeline' = [s \in Sends |-> <<>>]
    /\ stream' = IF mode \in {"sse", "both"} THEN Set(stream, sent', "fetch") ELSE stream
    /\ poll' = IF mode \in {"polling", "both"} THEN Set(poll, sent', "post") ELSE poll
    /\ Loops(stream') + Loops(poll') <= MaxLoops
    /\ UNCHANGED <<ends, run, round, total, wire, buffer, inspector>>

-----------------------------------------------------------------------------
(***************************************************************************)
(* Polling.                                                                *)
(***************************************************************************)

\* A request that fails ends the loop without a word.  The run may have been
\* queued all the same.
RequestFails(s) == /\ poll[s] \in {"post", "get"}
                   /\ poll' = Set(poll, s, "broken")
                   /\ (poll[s] = "post" /\ Run!Submit(s)) \/ UNCHANGED run
                   /\ UNCHANGED <<ends, sent, round, inspector, reading, timeline>>

Queued(s) == /\ poll[s] = "post"
             /\ Run!Submit(s)
             /\ poll' = Set(poll, s, IF MaxRounds = 0 THEN "gave_up" ELSE "get")
             /\ Push(s, "queued", "queued")
             /\ UNCHANGED <<ends, sent, round, inspector, reading>>

\* The answer is the run as it was when the server read it.
NotQueued(s) == run[s] # "queued"                                \* seeded bug
Reported(s)  == run[s] \in Run!Ended

Answer(s) == /\ poll[s] = "get"
             /\ inspector' = <<s, run[s]>>
             /\ IF Reported(s)
                THEN poll' = Set(poll, s, "reported") /\ Push(s, "run_status", run[s])
                ELSE poll' = Set(poll, s, "sleep") /\ UNCHANGED timeline
             /\ UNCHANGED <<ends, sent, run, round, reading>>

StaysAwake(s) == round[s]                                        \* seeded bug
NextRound(s)  == round[s] + 1

WakeUp(s) == /\ poll[s] = "sleep"
             /\ round' = Set(round, s, NextRound(s))
             /\ poll' = Set(poll, s, IF round'[s] < MaxRounds THEN "get" ELSE "gave_up")
             /\ UNCHANGED <<ends, sent, run, inspector, reading, timeline>>

\* The worker.
RunMoves(s) == /\ Run!Execute(s)
               /\ UNCHANGED <<ends, sent, poll, round, inspector, reading, timeline>>

-----------------------------------------------------------------------------
(***************************************************************************)
(* Streaming.                                                              *)
(***************************************************************************)
\* `event: name`, `data: ...` and an empty line.
Block(e, name) == IF e = "lf" THEN <<name, "LF", "data", "LF", "LF">>
                  ELSE <<name, "CR", "LF", "data", "CR", "LF", "CR", "LF">>
BlockLength(e) == IF e = "lf" THEN 5 ELSE 8

\* The words of the first n events.
Token(e, k)    == Block(e, Events[1 + ((k - 1) \div BlockLength(e))])
                      [1 + ((k - 1) % BlockLength(e))]
Wire(e, n)     == [k \in 1..(BlockLength(e) * n) |-> Token(e, k)]

Connect(s) == /\ stream[s] = "fetch"
              /\ \E n \in 0..Len(Events) :
                    total' = Set(total, s, n) /\ wire' = Set(wire, s, Wire(ends, n))
              /\ stream' = Set(stream, s, "open")
              /\ UNCHANGED <<ends, sent, polling, buffer, timeline>>

\* The response is not ok, or the connection breaks.
StreamFails(s) == /\ stream[s] \in {"fetch", "open"}
                  /\ stream' = Set(stream, s, "failed")
                  /\ Push(s, "error", "error")
                  /\ UNCHANGED <<ends, sent, polling, total, wire, buffer>>

\* Two line feeds in a row; the wire never has three.
Cuts(b) == {i \in 1..(Len(b) - 1) : b[i] = "LF" /\ b[i + 1] = "LF"}

\* The parts between them, and what follows the last.
Before(b, i)  == {j \in Cuts(b) : j < i}
Start(b, i)   == IF Before(b, i) = {} THEN 1
                 ELSE 2 + CHOOSE j \in Before(b, i) : \A k \in Before(b, i) : k <= j
Item(part)    == IF part # <<>> /\ part[1] \notin {"data", "LF", "CR"}
                 THEN <<part[1], "data">> ELSE <<"message", "data">>
Items(b)      == LET nth(n) == CHOOSE i \in Cuts(b) : Cardinality(Before(b, i)) = n - 1
                 IN  [n \in 1..Cardinality(Cuts(b)) |->
                         Item(SubSeq(b, Start(b, nth(n)), nth(n) - 1))]
DropsRest(b)  == <<>>                                            \* seeded bug
Rest(b)       == SubSeq(b, Start(b, Len(b) + 1), Len(b))

Read(s, n) ==
    LET b == buffer[s] \o SubSeq(wire[s], 1, n) IN
    /\ stream[s] = "open" /\ n \in 1..Len(wire[s])
    /\ wire' = Set(wire, s, SubSeq(wire[s], n + 1, Len(wire[s])))
    /\ buffer' = Set(buffer, s, Rest(b))
    /\ timeline' = Set(timeline, s, timeline[s] \o Items(b))
    /\ UNCHANGED <<ends, sent, polling, stream, total>>

\* The server closes the stream: what is left in the buffer is lost.
Close(s) == /\ stream[s] = "open" /\ wire[s] = <<>>
            /\ stream' = Set(stream, s, "closed")
            /\ UNCHANGED <<ends, sent, polling, total, wire, buffer, timeline>>

-----------------------------------------------------------------------------
PollStep(s) == Queued(s) \/ RequestFails(s) \/ Answer(s) \/ WakeUp(s)

Next == \/ \E m \in Modes : Send(m)
        \/ \E s \in Sends : \/ PollStep(s) \/ Connect(s) \/ StreamFails(s) \/ Close(s)
                            \/ RunMoves(s) \/ \E n \in 1..Len(wire[s]) : Read(s, n)

Spec == Init /\ [][Next]_vars

\* Requests are answered or fail, and timers fire.
FairSpec == Spec /\ \A s \in Sends : WF_vars(PollStep(s))

-----------------------------------------------------------------------------
\* What the page says of a queued run is true and it says it once: an outcome
\* on the timeline is the run's final status, and a poll that ended without
\* one was broken by a request or has asked MaxRounds times, whatever the run
\* did afterwards (the loop of ChatDebugPanel).
Said(items) == {i \in DOMAIN items : items[i][1] = "run_status"}

HonestOf(s) == /\ \A i, j \in Said(timeline[s]) : i = j
               /\ \A i \in Said(timeline[s]) :
                      /\ poll[s] = "reported"
                      /\ timeline[s][i][2] = run[s] /\ run[s] \in Run!Ended
               /\ poll[s] = "gave_up" => round[s] = MaxRounds
               /\ poll[s] = "reported" /\ s = sent => Said(timeline[s]) # {}

PollHonest == \A s \in Sends : HonestOf(s)

\* The timeline of the last send shows the events that have arrived whole, each
\* once and in order, wherever the chunks are cut (streamChat of sse.ts).  It
\* does when lines end with LF; with CRLF, as the server sends them, no event
\* is ever shown.
HasRead(s) == BlockLength(ends) * total[s] - Len(wire[s])
Arrived(s) == HasRead(s) \div BlockLength(ends)

Shown(items)         == {i \in DOMAIN items : items[i][2] = "data"}
ShowsFirst(items, n) == /\ Cardinality(Shown(items)) = n
                        /\ \A i \in Shown(items) :
                               items[i] = <<Events[Cardinality(Shown(items) \cap 1..i)], "data">>

FaithfulOf(s) == s = sent => ShowsFirst(timeline[s], Arrived(s))

TimelineFaithful == \A s \in Sends : FaithfulOf(s)

\* Every poll ends, even when its run does not; and a run that has ended while
\* there is a round left is reported, unless a request fails.
PollingEnds ==
    \A s \in Sends :
        /\ poll[s] = "post" ~> poll[s] \in {"broken", "reported", "gave_up"}
        /\ poll[s] \in {"get", "sleep"} /\ run[s] \in Run!Ended /\ round[s] + 1 < MaxRounds
               ~> poll[s] \in {"broken", "reported"}

-----------------------------------------------------------------------------
(***************************************************************************)
(* The inductive invariant behind PollHonest and TimelineFaithful.         *)
(***************************************************************************)
Tokens        == Names \cup {"LF", "CR", "data"}
TimelineItems == (Names \cup {"message", "queued", "error", "run_status"})
                     \X {"data", "queued", "error", "completed", "failed"}

TypeOK == /\ ends \in LineEnds /\ sent \in 0..MaxSends
          /\ run \in [Sends -> Run!Statuses]
          /\ poll \in [Sends -> {"idle", "post", "get", "sleep",
                                 "reported", "gave_up", "broken"}]
          /\ round \in [Sends -> 0..MaxRounds]
          /\ stream \in [Sends -> {"idle", "fetch", "open", "closed", "failed"}]
          /\ total \in [Sends -> 0..Len(Events)]
          /\ wire \in [Sends -> Seq(Tokens)] /\ buffer \in [Sends -> Seq(Tokens)]
          /\ timeline \in [Sends -> Seq(TimelineItems)]
          /\ inspector \in (0..MaxSends) \X Run!Statuses

\* A loop that asks has a round left, and nothing happens to a later send.
LoopOf(s) == /\ poll[s] = "post" => round[s] = 0
             /\ poll[s] \in {"get", "sleep"} => round[s] < MaxRounds
             /\ s > sent => poll[s] = "idle" /\ stream[s] = "idle" /\ round[s] = 0

\* The words of b are those of the stream that follow its first u.
Aligned(e, b, u) == /\ b \in Seq(Tokens)
                    /\ u + Len(b) <= BlockLength(e) * Len(Events)
                    /\ \A k \in 1..Len(b) : b[k] = Token(e, u + k)

\* What is unread follows what has been read, and what is unused follows the
\* last event that has arrived whole: with CRLF none is ever taken.
Used(s) == IF ends = "lf" THEN BlockLength(ends) * Arrived(s) ELSE 0

StreamOf(s) == /\ stream[s] \in {"idle", "fetch"} => total[s] = 0 /\ buffer[s] = <<>>
               /\ HasRead(s) >= 0
               /\ Aligned(ends, wire[s], HasRead(s))
               /\ Len(buffer[s]) = HasRead(s) - Used(s)
               /\ Aligned(ends, buffer[s], Used(s))

IInv == /\ TypeOK /\ PollHonest /\ (ends = "lf" => TimelineFaithful)
        /\ \A s \in Sends : LoopOf(s) /\ StreamOf(s)
=============================================================================

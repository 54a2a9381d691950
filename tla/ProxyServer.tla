---------------------------- MODULE ProxyServer ----------------------------
(***************************************************************************)
(* The b2bdbg process: its main goroutine from start to exit               *)
(* (src/cmd/b2bdbg/main.go), the HTTP server it runs and shuts down        *)
(* (src/internal/server/server.go), and the calls the server's two kinds   *)
(* of handlers carry (src/internal/proxy/proxy.go): Bot API calls that     *)
(* pass through the reverse proxy, and webhook deliveries.                 *)
(*                                                                         *)
(* A Record is one step here; its inside is CapturePipeline. The spans it  *)
(* makes wait in the tracer provider's batch until they are exported.      *)
(* Bots are external: a bot that an update has reached may answer with a   *)
(* call of its own.                                                        *)
(***************************************************************************)
EXTENDS BodyTap, Sequences, SequencesExt

CONSTANTS
  Call,         (* HTTP requests made to the server                        *)
  NoCall,       (* the cause of a call that answers no update              *)
  Body,         (* bodies the other side may answer with                   *)
  NoCopy        (* the response of the call has not been tapped            *)

ASSUME ServerAssumption ==
  /\ NoCall \notin Call
  /\ Body \subseteq Bodies

VARIABLES
  main,         (* where run() is                                          *)
  serve,        (* where the goroutine around srv.Start is                 *)
  errCh,        (* its result: "empty", "nil" or "error"                   *)
  signalled,    (* ctx.Done(): SIGINT or SIGTERM came                      *)
  expired,      (* shutdownCtx is over                                     *)
  exit,         (* the exit code: "none", "success" (0), "failure" (1)      *)
  flush,        (* ShutdownTracerProvider: "not called", "done", "failed"  *)
  stage,        (* where each call is in its handler                       *)
  kind,         (* "api" or "webhook"                                      *)
  cause,        (* the call whose update this call answers                 *)
  copy,         (* what the tap made of the call's response body           *)
  journal,      (* history: the calls recorded, in order                   *)
  exported      (* the recorded calls whose spans have been exported       *)

process == <<main, serve, errCh, signalled, expired, exit, flush>>
calls   == <<stage, kind, cause, copy, journal>>
vars    == <<main, serve, errCh, signalled, expired, exit, flush,
             stage, kind, cause, copy, journal, exported>>

Init ==
  /\ main = "select" /\ serve = "starting" /\ errCh = "empty"
  /\ signalled = FALSE /\ expired = FALSE
  /\ exit = "none" /\ flush = "not called"
  /\ stage = [c \in Call |-> "none"]
  /\ kind = [c \in Call |-> "api"]
  /\ cause = [c \in Call |-> NoCall]
  /\ copy = [c \in Call |-> NoCopy]
  /\ journal = <<>>
  /\ exported = {}

Running == main # "exited"

(* http.Server.Shutdown has been called: it closes the listener first, and *)
(* then the connections that are idle, until none is left.                 *)
Closing == main \notin {"select", "exited"}

Recorded == ToSet(journal)

-----------------------------------------------------------------------------
(* The calls                                                               *)

Goto(c, from, to) ==
  /\ Running
  /\ stage[c] = from
  /\ stage' = [stage EXCEPT ![c] = to]

(* The update call d carries has reached a bot: a poll once its response   *)
(* was passed on, a webhook delivery as soon as it was forwarded.          *)
Reached(d) ==
  \/ kind[d] = "api" /\ stage[d] = "done"
  \/ kind[d] = "webhook" /\ stage[d] \in {"forwarded", "answered", "relayed", "done"}

(* Clients may have connections to the server: it has listened, and        *)
(* Shutdown has not returned.                                              *)
Connected == serve \in {"listening", "closed"} /\ main \in {"select", "shutdown"}

(* A request arrives, and its own body is tapped. On a connection that is  *)
(* open already it may do so after the listener was closed.                *)
Accept(c) ==
  /\ Connected
  /\ Goto(c, "none", "accepted")
  /\ \/ /\ \E k \in {"api", "webhook"} : kind' = [kind EXCEPT ![c] = k]
        /\ UNCHANGED cause
     \/ /\ \E d \in Call : Reached(d) /\ cause' = [cause EXCEPT ![c] = d]
        /\ UNCHANGED kind
  /\ UNCHANGED <<process, copy, journal, exported>>

(* The webhook handler refuses a delivery with the wrong secret.           *)
Reject(c) ==
  /\ kind[c] = "webhook"
  /\ Goto(c, "accepted", "rejected")
  /\ UNCHANGED <<process, kind, cause, copy, journal, exported>>

Forward(c) ==
  /\ Goto(c, "accepted", "forwarded")
  /\ UNCHANGED <<process, kind, cause, copy, journal, exported>>

(* The other side cannot be reached or breaks off: errorHandler and its    *)
(* counterpart in the webhook handler answer 502 and record nothing.       *)
Fail(c) ==
  /\ Goto(c, "forwarded", "failed")
  /\ UNCHANGED <<process, kind, cause, copy, journal, exported>>

(* The response arrives and its body is tapped; decoding the captured copy *)
(* changes nothing that is sent on.                                        *)
Answer(c) ==
  /\ Goto(c, "forwarded", "answered")
  /\ \E b \in Body, i \in Inflations :
       /\ b.encoding # "compressed" => i = "clean"
       /\ copy' = [copy EXCEPT ![c] =
            [body |-> b, sent |-> Replacement(b), size |-> CapturedSize(b),
             content |-> Content(b, i), truncated |-> Truncated(b, i)]]
  /\ UNCHANGED <<process, kind, cause, journal, exported>>

(* Mutant of Record: a webhook delivery is recorded twice.                 *)
RecordTwice(c) ==
  journal' = IF kind[c] = "webhook" THEN journal \o <<c, c>> ELSE Append(journal, c)

(* Sink.Record with the finished Exchange.                                 *)
Record(c) == journal' = Append(journal, c)

(* Mutant of ModifyResponse: the response is passed on first.              *)
ModifyResponseLate(c) ==
  /\ kind[c] = "api"
  /\ \/ Goto(c, "answered", "done") /\ UNCHANGED journal
     \/ Goto(c, "done", "recorded") /\ Record(c)
  /\ UNCHANGED <<process, kind, cause, copy, exported>>

(* modifyResponse records the exchange before the response is passed on.   *)
ModifyResponse(c) ==
  /\ kind[c] = "api"
  /\ Goto(c, "answered", "recorded")
  /\ Record(c)
  /\ UNCHANGED <<process, kind, cause, copy, exported>>

(* The reverse proxy passes the response on.                               *)
PassOn(c) ==
  /\ kind[c] = "api"
  /\ Goto(c, "recorded", "done")
  /\ UNCHANGED <<process, kind, cause, copy, journal, exported>>

(* The webhook handler passes the response on ...                          *)
Relay(c) ==
  /\ kind[c] = "webhook"
  /\ Goto(c, "answered", "relayed")
  /\ UNCHANGED <<process, kind, cause, copy, journal, exported>>

(* ... and records the exchange after that.                                *)
RecordDelivery(c) ==
  /\ kind[c] = "webhook"
  /\ Goto(c, "relayed", "done")
  /\ Record(c)
  /\ UNCHANGED <<process, kind, cause, copy, exported>>

Ended  == {"none", "rejected", "failed", "done"}
Stages == Ended \cup {"accepted", "forwarded", "answered", "relayed", "recorded"}
Active == {c \in Call : stage[c] \notin Ended}

Handle(c) ==
  \/ Accept(c) \/ Reject(c) \/ Forward(c) \/ Fail(c) \/ Answer(c)
  \/ ModifyResponse(c) \/ PassOn(c) \/ Relay(c) \/ RecordDelivery(c)

-----------------------------------------------------------------------------
(* The process                                                             *)

(* srv.Start returns err, and the goroutine sends it.                      *)
Return(last, err) ==
  /\ serve' = last
  /\ errCh' = err

(* net.Listen; a server already shut down does not serve.                  *)
Listen ==
  /\ Running /\ serve = "starting"
  /\ \/ Return("never opened", "error")
     \/ Closing /\ Return("never opened", "nil")
     \/ ~Closing /\ serve' = "listening" /\ UNCHANGED errCh
  /\ UNCHANGED <<main, signalled, expired, exit, flush, calls, exported>>

(* srv.Serve ends: by Shutdown, or by an error of the listener.            *)
Serve ==
  /\ Running /\ serve = "listening"
  /\ IF Closing THEN Return("closed", "nil") ELSE Return("closed", "error")
  /\ UNCHANGED <<main, signalled, expired, exit, flush, calls, exported>>

Signal ==
  /\ Running /\ ~signalled
  /\ signalled' = TRUE
  /\ UNCHANGED <<main, serve, errCh, expired, exit, flush, calls, exported>>

(* shutdownCtx reaches its deadline.                                       *)
Expire ==
  /\ Closing /\ ~expired
  /\ expired' = TRUE
  /\ UNCHANGED <<main, serve, errCh, signalled, exit, flush, calls, exported>>

Exit(code) == main' = "exited" /\ exit' = code

(* The select of run(), either case.                                       *)
SelectSignal ==
  /\ main = "select" /\ signalled
  /\ main' = "shutdown"
  /\ UNCHANGED <<serve, errCh, signalled, expired, exit, flush, calls, exported>>

SelectError ==
  /\ main = "select" /\ errCh # "empty"
  /\ Exit(IF errCh = "error" THEN "failure" ELSE "success")
  /\ errCh' = "empty"
  /\ UNCHANGED <<serve, signalled, expired, flush, calls, exported>>

(* Mutant of ShutdownReturns: Shutdown does not wait for active calls.     *)
ShutdownReturnsAtOnce ==
  /\ main = "shutdown"
  /\ main' = "await" /\ UNCHANGED exit
  /\ UNCHANGED <<serve, errCh, signalled, expired, flush, calls, exported>>

(* Mutant of ShutdownReturns: it has no deadline.                          *)
ShutdownReturnsDrained ==
  /\ main = "shutdown"
  /\ Active = {} /\ main' = "await" /\ UNCHANGED exit
  /\ UNCHANGED <<serve, errCh, signalled, expired, flush, calls, exported>>

(* srv.Shutdown returns: no call is active any more, or time is up.        *)
ShutdownReturns ==
  /\ main = "shutdown"
  /\ \/ Active = {} /\ main' = "await" /\ UNCHANGED exit
     \/ expired /\ Exit("failure")
  /\ UNCHANGED <<serve, errCh, signalled, expired, flush, calls, exported>>

(* run() drains errCh.                                                     *)
AwaitServe ==
  /\ main = "await" /\ errCh # "empty"
  /\ \/ errCh = "error" /\ Exit("failure")
     \/ errCh = "nil" /\ main' = "flush" /\ UNCHANGED exit
  /\ errCh' = "empty"
  /\ UNCHANGED <<serve, signalled, expired, flush, calls, exported>>

(* ShutdownTracerProvider, whose error is logged and ignored.              *)
FlushAndExit ==
  /\ main = "flush"
  /\ Exit("success")
  /\ \/ flush' = "done" /\ exported' = Recorded
     \/ flush' = "failed" /\ UNCHANGED exported
  /\ UNCHANGED <<serve, errCh, signalled, expired, calls>>

(* The batch span processor exports what it holds, in the background.      *)
Export ==
  /\ Running /\ exported # Recorded
  /\ exported' = Recorded
  /\ UNCHANGED <<process, calls>>

Run == SelectSignal \/ SelectError \/ ShutdownReturns \/ AwaitServe \/ FlushAndExit

Exited == main = "exited" /\ UNCHANGED vars

Next ==
  \/ \E c \in Call : Handle(c)
  \/ Listen \/ Serve \/ Signal \/ Expire \/ Run \/ Export
  \/ Exited

(* The goroutines of main and of the server run, and time passes. Nothing  *)
(* is assumed of the calls: a long poll may stay open for ever, and of the *)
(* listener only that it returns once it is closed.                        *)
Fairness ==
  /\ WF_vars(Run) /\ WF_vars(Expire) /\ WF_vars(Listen)
  /\ WF_vars(Closing /\ Serve)

Spec == Init /\ [][Next]_vars /\ Fairness

-----------------------------------------------------------------------------

Copies == [body : Body, sent : [size : Nat, fails : BOOLEAN], size : 0..BodyCap,
           content : Contents, truncated : BOOLEAN]

TypeOK ==
  /\ main \in {"select", "shutdown", "await", "flush", "exited"}
  /\ serve \in {"starting", "listening", "closed", "never opened"}
  /\ errCh \in {"empty", "nil", "error"}
  /\ signalled \in BOOLEAN /\ expired \in BOOLEAN
  /\ exit \in {"none", "success", "failure"} /\ (exit # "none" <=> main = "exited")
  /\ flush \in {"not called", "done", "failed"}
  /\ stage \in [Call -> Stages]
  /\ kind \in [Call -> {"api", "webhook"}]
  /\ cause \in [Call -> Call \cup {NoCall}]
  /\ journal \in Seq(Call)
  /\ exported \subseteq Call
  /\ copy \in [Call -> Copies \cup {NoCopy}]

(* When b2bdbg reports a clean stop (exit code 0), every call it had       *)
(* accepted has run to its end, also those that arrived on open            *)
(* connections during Shutdown, and a flush that succeeded left no span    *)
(* behind: nothing is recorded behind its back. (A flush that failed is    *)
(* logged, and the exit code is 0 all the same.)                           *)
CleanStop ==
  exit = "success" => Active = {} /\ (flush = "done" => exported = Recorded)

(* Every call that was answered and ran to its end was recorded, exactly   *)
(* once, and no call that was refused or got no answer.                    *)
RecordedOnce ==
  /\ \A i, j \in DOMAIN journal : journal[i] = journal[j] => i = j
  /\ \A c \in Call : /\ stage[c] = "done" => c \in Recorded
                     /\ c \in Recorded => stage[c] \in {"recorded", "done"}

(* The reply to a polled update never enters the conversation before the   *)
(* update itself: parseGetUpdates sees an update before the bot does. (A   *)
(* webhook delivery is recorded after the bot has it: its reply may enter  *)
(* first.)                                                                 *)
PolledUpdateFirst ==
  \A j \in DOMAIN journal :
    LET d == cause[journal[j]]
    IN d # NoCall /\ kind[d] = "api" => \E i \in 1..(j - 1) : journal[i] = d

(* The parser misses something of the response.                            *)
Gap(c) == copy[c].body.size > 0 /\ copy[c].content # "whole"

(* The truncated flag tells of gaps in the capture, in both directions. It *)
(* is never raised without one: a body that just fills the cap is captured *)
(* whole and is not flagged. And a gap is silent in three cases only: the  *)
(* tap is off, reading the response failed within the cap (then nothing at *)
(* all was captured), or another encoding lay below the one decoded.       *)
(* Whatever is captured, a response that can be read is sent on whole.     *)
GapObservable ==
  \A c \in Call : copy[c] # NoCopy =>
    LET b == copy[c].body
    IN /\ copy[c].truncated => Gap(c)
       /\ Gap(c) /\ ~copy[c].truncated => BodyCap = 0 \/ ReadFails(b) \/ b.layered
       /\ ~ReadFails(b) => copy[c].sent = Stream(b.size, b.fails)

(* A signal always ends the process, whatever the calls and the listener   *)
(* do: the deadline unblocks Shutdown, and nothing else can block run().   *)
SignalStops == signalled ~> ~Running

(* NewTracerProvider: the caller shuts the provider down before the        *)
(* process exits, so that buffered spans are flushed.                      *)
FlushedBeforeExit == exit # "none" => flush # "not called"

(* modifyResponse: the response is forwarded byte-transparently,           *)
(* regardless of tap errors.                                               *)
ForwardedTransparently ==
  \A c \in Call : copy[c] # NoCopy =>
    copy[c].sent = Stream(copy[c].body.size, copy[c].body.fails)
=============================================================================

----------------------------- MODULE ZenroomVm -----------------------------
(***************************************************************************)
(* The Zenroom VM (vm/zenroom/src/vmm/mod.rs): every invocation of a       *)
(* worker runs a zencode-exec process, feeds it through its standard       *)
(* input, collects its bounded output under a timeout, selects a part of   *)
(* it, and posts it to the worker's targets with retries.                  *)
(*                                                                         *)
(* Data is reduced to what the control depends on: input and output are    *)
(* counted in chunks, a configuration entry or a key is a record, and the  *)
(* output is raw, JSON, or JSON in which the configured pointer resolves.  *)
(***************************************************************************)
EXTENDS Integers, Sequences, FiniteSets, SequencesExt

CONSTANTS
    Workers,            \* instance ids: fresh ones, never used again
    Userdata,           \* what workers are started with
    Operator,           \* ZenroomConfig: the operator's limits and permissions
    Invocations,
    InputSizes,         \* chunks of input of an invocation
    PipeCap,            \* chunks a pipe holds
    MaxOutput,          \* max_stdout_bytes, max_stderr_bytes
    MaxPrinted,         \* bound: chunks a process prints to a stream
    None

Streams == {"stdout", "stderr"}

\* How an invocation may fail; an overflow is named after its stream.
Errors == Streams \cup
    {"secret_injection_failed", "invalid_conf", "exec_failed", "timeout",
     "zenroom_exit_nonzero", "stdout_json_missing", "json_pointer_not_found",
     "postback_disabled", "postback_required_missing", "postback_required_failed"}

ASSUME ZenroomAssumption ==
    /\ PipeCap \in Nat /\ MaxOutput \in Nat /\ MaxPrinted \in Nat
    /\ InputSizes \subseteq Nat
    /\ None \notin Errors \cup {"ok", "overflow", "err"} \cup Workers
    /\ \A u \in Userdata :
          /\ u.retries \in Nat \cup {None}
          /\ u.targets = None \/ Len(u.targets) \in Nat

VARIABLES
    config,      \* the configuration a worker was started with
    status,      \* "absent", "Running" or "Stopped"
    logs,        \* lines in the buffer of a worker
    kept,        \* lines that were moved to the dead logs when it stopped
    inv          \* the invocations

vars == <<config, status, logs, kept, inv>>

NoStream == [pipe |-> 0, printed |-> 0, got |-> 0, result |-> None]

Idle == [pc |-> "idle", kind |-> None, worker |-> None, unread |-> 0, child |-> "none",
         code |-> -1, output |-> "raw", out |-> [s \in Streams |-> NoStream],
         collected |-> {}, exit_seen |-> FALSE, timed_out |-> FALSE, overflow |-> None,
         error |-> None, index |-> 1, attempt |-> 0, sends |-> 0, results |-> <<>>,
         acks |-> {}, reply |-> None,
         held |-> FALSE,            \* a descendant of the process has its pipes
         uncontrolled |-> FALSE]    \* history: a kill of it or a wait for it failed

-----------------------------------------------------------------------------
(* Preparation of a worker and of an invocation *)

Default(value, default) == IF value = None THEN default ELSE value

\* normalize_worker_config: what the user left out has a default.
NormalizeWorkerConfig(u) ==
    [keys |-> Default(u.keys, <<>>), conf |-> Default(u.conf, <<"debug">>),
     format |-> Default(u.format, "json"), pointer |-> u.pointer,
     response_mode |-> Default(u.response_mode, "envelope"),
     enabled |-> Default(u.enabled, FALSE), required |-> Default(u.required, FALSE),
     retries |-> Default(u.retries, 0), targets |-> Default(u.targets, <<>>)]

\* The conditions under which start_worker does not return an error.
Startable(u) ==
    /\ u.script <= Operator.max_script_bytes
    /\ u.mode \in {None, "zencode", "lua"} /\ u.format \in {None, "json", "raw"}
    /\ u.response_mode \in {None, "envelope", "stdout", "selected_output"}
    /\ u.secrets <= Operator.max_total_secrets_bytes

\* derive_secret and the limits of inject_secrets: the references to secrets
\* among the keys are visited in order, and what has been injected is summed.
\* A reference is [present, len, kdf]: whether the worker has the secret, its
\* length, and the length of the derived key, or None without a kdf.
InjectSecrets(keys) ==
    FoldLeft(LAMBDA total, ref :
                LET len == IF ref.kdf = None THEN ref.len ELSE ref.kdf
                IN  IF \/ total = None \/ ~ref.present
                       \/ Operator.require_kdf /\ ref.kdf = None
                       \/ ref.kdf # None /\ ref.kdf > Operator.max_derived_key_len
                       \/ total + len > Operator.max_total_secrets_bytes
                    THEN None ELSE total + len,
             0, keys)

\* build_conf: entries for debug are replaced by debug=0 unless the operator
\* allows them; the length that counts is that of the result.
BuildConf(conf) ==
    IF Operator.allow_debug_conf THEN conf
    ELSE Append(SelectSeq(conf, LAMBDA key : key # "debug"), "debug")

PrepareError(c) ==
    IF InjectSecrets(c.keys) = None THEN "secret_injection_failed"
    ELSE IF Len(BuildConf(c.conf)) > Operator.max_conf_bytes THEN "invalid_conf"
    ELSE None

-----------------------------------------------------------------------------
(* The result of an execution *)

\* Mutant: the kill is not awaited and comes to nothing.
KillFails(r) == r

\* child.kill().await: the process, but no descendant of it, has gone when it
\* returns.
Killed(r) == IF r.child = "up" THEN [r EXCEPT !.child = "killed"] ELSE r

\* The error of a kill is dropped: the process may be up.
KillError(r) == [r EXCEPT !.uncontrolled = r.uncontrolled \/ r.child = "up"]

Kills(r) == {Killed(r), KillError(r)}

\* The exit code is known only if the exit was observed and not by a signal.
ExitCode(r) == IF r.exit_seen /\ r.child = "exited" THEN r.code ELSE -1

\* build_envelope_from_exec: a reader's error replaces any other, and an
\* overflow is an error only if there is no other.
ExecError(r) ==
    IF \E s \in Streams : r.out[s].result = "err" THEN "exec_failed"
    ELSE IF r.error # None THEN r.error
    ELSE IF r.overflow # None THEN r.overflow
    ELSE IF ExitCode(r) # 0 THEN "zenroom_exit_nonzero"
    ELSE None

\* stdout_json of a worker with that output format.
Json(r, c) == IF c.format = "raw" THEN "raw" ELSE r.output

\* compute_selected_output
Selected(r, c) == c.pointer /\ Json(r, c) = "pointed"

SelectError(r, c) ==
    IF c.pointer /\ c.required /\ Json(r, c) = "raw" THEN "stdout_json_missing"
    ELSE IF c.pointer /\ c.required /\ ~Selected(r, c) THEN "json_pointer_not_found"
    ELSE None

\* select_postback_body: whether there is a body for the target.
HasBody(target, r, c) ==
    CASE target.body = "stdout" -> TRUE
      [] target.body = "pointer" -> Json(r, c) = "pointed"
      [] target.body = "selected_output" -> Selected(r, c)
      [] OTHER -> FALSE

\* validate_postback_url; a host that does not resolve has no public address.
AllowedUrl(url) ==
    /\ url.scheme \in Operator.postback_allowed_schemes
    /\ url.port \in Operator.postback_allowed_ports
    /\ url.host \in Operator.postback_allowed_hosts
    /\ Operator.postback_block_private_ips => url.ips = {"public"}

\* The body of the response to an HTTP invocation that succeeded.
HttpBody(r, c) ==
    CASE c.response_mode # "selected_output" -> c.response_mode
      [] c.response_mode = "selected_output" /\ Selected(r, c) -> "selected"
      [] OTHER -> IF Json(r, c) = "raw" THEN "null" ELSE "stdout_json"

\* run_postbacks before the first target.
PostbackError(c) ==
    IF ~Operator.postback_enabled THEN "postback_disabled"
    ELSE IF c.targets = <<>> /\ c.required THEN "postback_required_missing"
    ELSE None

\* What follows the execution: an error ends the invocation; without
\* postbacks it is over; otherwise the targets are served from the first on.
Envelope(r, c) ==
    LET failure == IF ExecError(r) # None THEN ExecError(r)
                   ELSE IF SelectError(r, c) # None THEN SelectError(r, c)
                   ELSE IF c.enabled THEN PostbackError(c)
                   ELSE None
    IN  IF failure # None THEN [r EXCEPT !.error = failure, !.pc = "log"]
        ELSE IF c.enabled /\ c.targets # <<>> THEN [r EXCEPT !.pc = "post"]
        ELSE [r EXCEPT !.pc = "log"]

\* Mutant: the loop ends with the process.
LoopEndsWithProcess(r, c) ==
    IF r.exit_seen \/ r.timed_out THEN Envelope(r, c) ELSE r

\* The end of a turn of the select loop.
EndOfTurn(r, c) ==
    IF r.collected = Streams /\ (r.exit_seen \/ r.timed_out) THEN Envelope(r, c) ELSE r

-----------------------------------------------------------------------------
(* Workers *)

StartWorker(i, u) ==
    /\ status[i] = "absent" /\ Startable(u)
    /\ config' = [config EXCEPT ![i] = NormalizeWorkerConfig(u)]
    /\ status' = [status EXCEPT ![i] = "Running"]
    /\ UNCHANGED <<logs, kept, inv>>

\* The worker leaves the map and its logs are moved; an invocation under way
\* has its own reference and goes on.
StopWorker(i) ==
    /\ status[i] = "Running"
    /\ status' = [status EXCEPT ![i] = "Stopped"]
    /\ kept' = [kept EXCEPT ![i] = logs[i]]
    /\ UNCHANGED <<config, logs, inv>>

-----------------------------------------------------------------------------
(* invoke_worker and invoke_http *)

Invoke(v, i, kind, size) ==
    LET c == config[i]
        r == [inv[v] EXCEPT !.worker = i, !.kind = kind]
    IN
    /\ inv[v].pc = "idle" /\ status[i] = "Running"
    /\ \/ /\ PrepareError(c) # None
          /\ inv' = [inv EXCEPT ![v] = [r EXCEPT !.error = PrepareError(c), !.pc = "log"]]
       \/ /\ PrepareError(c) = None
          /\ \/ inv' = [inv EXCEPT ![v] = [r EXCEPT !.child = "up", !.unread = size,
                                                    !.pc = "write"]]
             \/ inv' = [inv EXCEPT ![v] = [r EXCEPT !.error = "exec_failed", !.pc = "log"]]
    /\ UNCHANGED <<config, status, logs, kept>>

\* stdin.write_all: done when what the process has not read fits into the
\* pipe; broken when nobody can read it any more.  No timeout runs yet, and
\* nobody reads the output.
WriteInput(v) ==
    LET r == inv[v] IN
    /\ r.pc = "write"
    /\ \/ /\ r.unread <= PipeCap
          /\ inv' = [inv EXCEPT ![v].pc = "wait"]
       \/ /\ r.child # "up" /\ ~r.held
          /\ inv' = [inv EXCEPT ![v].error = "exec_failed", ![v].pc = "log"]
    /\ UNCHANGED <<config, status, logs, kept>>

\* Another error of the write: the process is killed and not waited for again.
WriteFails(v) ==
    LET r == inv[v] IN
    /\ r.pc = "write"
    /\ \E new \in Kills(r) :
          inv' = [inv EXCEPT ![v] = [new EXCEPT !.error = "exec_failed", !.pc = "log"]]
    /\ UNCHANGED <<config, status, logs, kept>>

\* read_with_limit in a task of its own: a chunk, the chunk that is too much,
\* or the end of the output, which comes when nobody has the pipe open.
ReadOutput(v, s) ==
    LET o == inv[v].out[s] IN
    /\ inv[v].pc = "wait" /\ o.result = None
    /\ \/ /\ o.pipe > 0
          /\ inv' = [inv EXCEPT ![v].out[s] =
                        IF o.got + 1 > MaxOutput
                        THEN [o EXCEPT !.pipe = 0, !.result = "overflow"]
                        ELSE [o EXCEPT !.pipe = @ - 1, !.got = @ + 1]]
       \/ /\ o.pipe = 0 /\ inv[v].child # "up" /\ ~inv[v].held
          /\ inv' = [inv EXCEPT ![v].out[s].result = "ok"]
    /\ UNCHANGED <<config, status, logs, kept>>

\* reader.read returns an error, and the task ends with it.
ReadFails(v, s) ==
    /\ inv[v].pc = "wait" /\ inv[v].out[s].result = None
    /\ inv' = [inv EXCEPT ![v].out[s].result = "err"]
    /\ UNCHANGED <<config, status, logs, kept>>

\* The three kinds of events of the select loop: the process has exited, a
\* reader is done (the first overflow kills the process), the timeout.
CollectExit(v) ==
    LET r == inv[v] IN
    /\ r.pc = "wait" /\ ~r.exit_seen /\ r.child # "up"
    /\ inv' = [inv EXCEPT ![v] = EndOfTurn([r EXCEPT !.exit_seen = TRUE], config[r.worker])]
    /\ UNCHANGED <<config, status, logs, kept>>

\* child.wait() returns an error: the loop is left at once, with what the
\* readers have delivered and without a kill.
WaitFails(v) ==
    LET r == inv[v] IN
    /\ r.pc = "wait" /\ ~r.exit_seen
    /\ inv' = [inv EXCEPT ![v] =
                 [r EXCEPT !.uncontrolled = TRUE, !.error = "exec_failed", !.pc = "log"]]
    /\ UNCHANGED <<config, status, logs, kept>>

CollectStream(v, s) ==
    LET r == inv[v]
        seen == [r EXCEPT !.collected = @ \cup {s}]
        first == r.out[s].result = "overflow" /\ r.overflow = None
    IN
    /\ r.pc = "wait" /\ s \notin r.collected /\ r.out[s].result # None
    /\ \E new \in IF first THEN Kills([seen EXCEPT !.overflow = s]) ELSE {seen} :
          inv' = [inv EXCEPT ![v] = EndOfTurn(new, config[r.worker])]
    /\ UNCHANGED <<config, status, logs, kept>>

\* Mutant: the process is left to itself.
TimeoutWithoutKill(v) ==
    LET r == inv[v] IN
    /\ r.pc = "wait" /\ ~r.timed_out
    /\ inv' = [inv EXCEPT ![v] =
                 EndOfTurn([r EXCEPT !.timed_out = TRUE, !.error = "timeout"], config[r.worker])]
    /\ UNCHANGED <<config, status, logs, kept>>

Timeout(v) ==
    LET r == inv[v] IN
    /\ r.pc = "wait" /\ ~r.timed_out
    /\ \E new \in Kills([r EXCEPT !.timed_out = TRUE, !.error = "timeout"]) :
          inv' = [inv EXCEPT ![v] = EndOfTurn(new, config[r.worker])]
    /\ UNCHANGED <<config, status, logs, kept>>

-----------------------------------------------------------------------------
(* Postbacks *)

\* Mutant: the invocation fails only if no target was served.
TargetDoneIfAny(r, c, ok) ==
    LET results == Append(r.results, [ok |-> ok, sends |-> r.sends])
        failed == c.required /\ \A k \in 1..Len(results) : ~results[k].ok
        n == [r EXCEPT !.results = results, !.attempt = 0, !.sends = 0, !.index = @ + 1]
    IN  IF r.index < Len(c.targets) THEN n
        ELSE [n EXCEPT !.error = IF failed THEN "postback_required_failed" ELSE None,
                       !.pc = "log"]

\* The result of a target, and after the last one the verdict: every target
\* is served, also after one that failed.
TargetDone(r, c, ok) ==
    LET results == Append(r.results, [ok |-> ok, sends |-> r.sends])
        failed == c.required /\ \E k \in 1..Len(results) : ~results[k].ok
        n == [r EXCEPT !.results = results, !.attempt = 0, !.sends = 0, !.index = @ + 1]
    IN  IF r.index < Len(c.targets) THEN n
        ELSE [n EXCEPT !.error = IF failed THEN "postback_required_failed" ELSE None,
                       !.pc = "log"]

\* A transport error: the next attempt, up to retries.max + 1 of them.
PostbackRetry(r, c) ==
    IF r.attempt + 1 >= c.retries + 1 THEN TargetDone(r, c, FALSE)
    ELSE [r EXCEPT !.attempt = @ + 1]

\* execute_http_postback and execute_evm_postback: a target that is not
\* allowed or has no body fails at once; any response ends the attempts, and
\* it is a success with a 2xx status; a request that times out may have been
\* served.
Postback(v) ==
    LET r == inv[v]
        c == config[r.worker]
        target == c.targets[r.index]
        sent == [r EXCEPT !.sends = @ + 1]
    IN
    /\ r.pc = "post"
    /\ IF ~AllowedUrl(target.url) \/ ~HasBody(target, r, c)
       THEN inv' = [inv EXCEPT ![v] = TargetDone(r, c, FALSE)]
       ELSE \/ inv' = [inv EXCEPT ![v] = TargetDone([sent EXCEPT !.acks = @ \cup {r.index}], c, TRUE)]
            \/ inv' = [inv EXCEPT ![v] = TargetDone(sent, c, FALSE)]
            \/ inv' = [inv EXCEPT ![v] = PostbackRetry(sent, c)]
            \/ inv' = [inv EXCEPT ![v] = PostbackRetry(r, c)]
    /\ UNCHANGED <<config, status, logs, kept>>

\* The lines of an event's invocation, and the reply; an HTTP invocation
\* writes no lines.  What a reader had when it failed, or has not delivered, is
\* not part of the output.
AppendLogs(v) ==
    LET r == inv[v]
        c == config[r.worker]
        reply == IF r.kind = "event" \/ r.error # None THEN "envelope" ELSE HttpBody(r, c)
        printed == Cardinality({s \in r.collected : r.out[s].result # "err" /\ r.out[s].got > 0})
        lines == IF r.kind = "event" THEN printed + Len(r.results) ELSE 0
    IN
    /\ r.pc = "log"
    /\ logs' = [logs EXCEPT ![r.worker] = @ + lines]
    /\ inv' = [inv EXCEPT ![v].pc = "done", ![v].reply = reply]
    /\ UNCHANGED <<config, status, kept>>

\* The caller gives up and the server drops the future; the process is not
\* killed with it.
Cancel(v) ==
    /\ inv[v].pc \in {"write", "wait", "post"}
    /\ inv' = [inv EXCEPT ![v].pc = "cancelled"]
    /\ UNCHANGED <<config, status, logs, kept>>

-----------------------------------------------------------------------------
(* The process (external): it reads, prints, leaves its pipes to a          *)
(* descendant and exits as it likes, and may do none of it.  Its reads and   *)
(* prints are followed while the VM is at the other end.                     *)

PipesOpen(v) == inv[v].pc \in {"write", "wait"} /\ (inv[v].child = "up" \/ inv[v].held)

ChildRead(v) ==
    /\ PipesOpen(v) /\ inv[v].pc = "write" /\ inv[v].unread > 0
    /\ inv' = [inv EXCEPT ![v].unread = @ - 1]
    /\ UNCHANGED <<config, status, logs, kept>>

ChildPrint(v, s) ==
    LET o == inv[v].out[s] IN
    /\ PipesOpen(v) /\ o.result = None
    /\ o.pipe < PipeCap /\ o.printed < MaxPrinted
    /\ inv' = [inv EXCEPT ![v].out[s] = [o EXCEPT !.pipe = @ + 1, !.printed = @ + 1]]
    /\ UNCHANGED <<config, status, logs, kept>>

\* The process starts one of its own, which inherits the pipes; it is not
\* killed with it, and ends or closes the pipes when it likes.
ChildFork(v) ==
    /\ PipesOpen(v) /\ ~inv[v].held
    /\ inv' = [inv EXCEPT ![v].held = TRUE]
    /\ UNCHANGED <<config, status, logs, kept>>

Release(v) ==
    /\ PipesOpen(v) /\ inv[v].held
    /\ inv' = [inv EXCEPT ![v].held = FALSE]
    /\ UNCHANGED <<config, status, logs, kept>>

ChildExit(v, code, output) ==
    /\ inv[v].child = "up"
    /\ output # "raw" => inv[v].out["stdout"].printed > 0
    /\ inv' = [inv EXCEPT ![v].child = "exited", ![v].code = code, ![v].output = output]
    /\ UNCHANGED <<config, status, logs, kept>>

-----------------------------------------------------------------------------
Init ==
    /\ config = [i \in Workers |-> None]
    /\ status = [i \in Workers |-> "absent"]
    /\ logs = [i \in Workers |-> 0]
    /\ kept = [i \in Workers |-> None]
    /\ inv = [v \in Invocations |-> Idle]

\* The VM's own steps: its tasks, its timer and its HTTP client, which has a
\* timeout, go on.
VmStep(v) ==
    \/ WriteInput(v) \/ CollectExit(v) \/ Timeout(v) \/ Postback(v) \/ AppendLogs(v)
    \/ \E s \in Streams : ReadOutput(v, s) \/ CollectStream(v, s)

\* Errors of system calls, which nothing makes happen.
FailStep(v) ==
    WriteFails(v) \/ WaitFails(v) \/ \E s \in Streams : ReadFails(v, s)

\* The process and its descendant.
ChildStep(v) ==
    \/ ChildRead(v) \/ ChildFork(v) \/ Release(v)
    \/ \E s \in Streams : ChildPrint(v, s)
    \/ \E code \in {0, 1}, output \in {"raw", "json", "pointed"} : ChildExit(v, code, output)

Next ==
    \/ \E i \in Workers : StopWorker(i) \/ \E u \in Userdata : StartWorker(i, u)
    \/ \E v \in Invocations :
          \/ \E i \in Workers, kind \in {"event", "http"}, size \in InputSizes :
                Invoke(v, i, kind, size)
          \/ VmStep(v) \/ FailStep(v) \/ Cancel(v) \/ ChildStep(v)

Spec == Init /\ [][Next]_vars /\ \A v \in Invocations : WF_vars(VmStep(v))

-----------------------------------------------------------------------------
(* Properties *)

Finished(v) == inv[v].pc = "done"
Succeeded(v) == Finished(v) /\ inv[v].error = None

Configs == {NormalizeWorkerConfig(u) : u \in {x \in Userdata : Startable(x)}}

Stream == [pipe : 0..PipeCap, printed : 0..MaxPrinted, got : 0..MaxOutput,
           result : {None, "ok", "overflow", "err"}]

Invocation ==
    [pc : {"idle", "write", "wait", "post", "log", "done", "cancelled"},
     kind : {None, "event", "http"}, worker : Workers \cup {None}, unread : Nat,
     child : {"none", "up", "exited", "killed"}, code : {-1, 0, 1},
     output : {"raw", "json", "pointed"}, out : [Streams -> Stream],
     collected : SUBSET Streams, exit_seen : BOOLEAN, timed_out : BOOLEAN,
     overflow : Streams \cup {None}, error : Errors \cup {None}, index : Nat \ {0},
     attempt : Nat, sends : Nat, results : Seq([ok : BOOLEAN, sends : Nat]),
     acks : SUBSET Nat,
     reply : {None, "envelope", "stdout", "selected", "null", "stdout_json"},
     held : BOOLEAN, uncontrolled : BOOLEAN]

\* Every variable has its type.
TypeOK ==
    /\ config \in [Workers -> Configs \cup {None}]
    /\ status \in [Workers -> {"absent", "Running", "Stopped"}]
    /\ logs \in [Workers -> Nat]
    /\ kept \in [Workers -> Nat \cup {None}]
    /\ inv \in [Invocations -> Invocation]

\* An invocation that succeeds has the whole output of a process that ended
\* well by itself: no interleaving of exit, readers, overflow and timeout
\* makes a success of a part of it.
SuccessIsComplete ==
    \A v \in Invocations :
        Succeeded(v) =>
            /\ inv[v].child = "exited" /\ inv[v].code = 0
            /\ \A s \in Streams : inv[v].out[s].got = inv[v].out[s].printed

\* With required postbacks, an invocation that succeeds has been acknowledged
\* by every target of its worker; and a target is sent at most one request more
\* than there are retries, whatever is lost on the way.
RequiredIsAcknowledged ==
    \A v \in Invocations :
        LET c == config[inv[v].worker]
        IN  /\ (Succeeded(v) /\ c.enabled /\ c.required) =>
                   c.targets # <<>> /\ inv[v].acks = 1..Len(c.targets)
            /\ \A k \in 1..Len(inv[v].results) : inv[v].results[k].sends <= c.retries + 1

\* An invocation that returns, however it ended, has left its process behind
\* only if the system refused to kill it or to wait for it, and then it reports
\* an error; one whose caller gives up may leave it behind.
NoStrayProcess ==
    /\ TypeOK
    /\ \A v \in Invocations :
          Finished(v) /\ inv[v].child = "up" =>
              inv[v].uncontrolled /\ inv[v].error # None

\* Nobody can end the output: a descendant has the pipes, or the process could
\* not be killed.
Stuck(v) == inv[v].held \/ (inv[v].child = "up" /\ inv[v].uncontrolled)

\* Once its input is written, an invocation that is not stuck returns, whatever
\* the process and the targets do, or gets stuck.  The timeout covers neither
\* the time until the input is written nor a descendant that has the pipes.
ReturnsOnceFed ==
    \A v \in Invocations :
        inv[v].pc = "wait" ~> inv[v].pc \in {"done", "cancelled"} \/ Stuck(v)
=============================================================================

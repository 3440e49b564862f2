---------------------------- MODULE PolicyManager ----------------------------
(***************************************************************************)
(* The policy manager (daemon/src/policy.rs): fetching the bundle of a     *)
(* worker, and the policy of an identity, which is a manifest with its own *)
(* bundle.  Nothing is cached: each fetch gets what is served then.        *)
(*                                                                         *)
(* What a source serves is [form, vm, code]: "dsse" is an envelope with a  *)
(* bundle for the VM vm, "raw" is executable code, "other" is neither.     *)
(* The hash of an envelope is the envelope itself.                         *)
(***************************************************************************)
EXTENDS Integers, Sequences

CONSTANTS DefaultVm,   \* default_vm_id
          None

\* What a fetch returns if it fails.
Failure == [form |-> "error", vm |-> None, code |-> None]

\* Slicing the URL for a log line ends the task if it is too short.
Panic == [form |-> "panic", vm |-> None, code |-> None]

\* A pointer is [scheme, short, hash, vm_of_ext], the last being the VM that
\* the extension of a file suggests, None if it is not one of executable code.
\* A file is found relative to a manifest that has a location: an embedded
\* manifest has none, and neither has a work order.
FileResolves(context) == context \notin {"work order", "data"}

\* manifest_vm_hint and infer_vm_from_extension
VmHint(pointer, manifest_vm) ==
    IF manifest_vm # None THEN manifest_vm
    ELSE IF pointer.vm_of_ext # None THEN pointer.vm_of_ext
    ELSE DefaultVm

\* A local file with the extension of executable code is wrapped in an
\* envelope, whatever it contains.
Wrapped(pointer, manifest_vm, served) ==
    IF pointer.scheme = "file" /\ pointer.vm_of_ext # None
    THEN [form |-> "dsse", vm |-> VmHint(pointer, manifest_vm), code |-> served.code]
    ELSE served

\* fetch_worker_bundle: the bundle, or a failure.  "served" is None if nothing
\* could be read.
FetchWorkerBundle(pointer, context, manifest_vm, served) ==
    LET envelope == Wrapped(pointer, manifest_vm, served)
    IN  IF pointer.short THEN Panic
        ELSE IF \/ pointer.scheme \notin {"file", "http", "data"}
                \/ pointer.scheme = "file" /\ ~FileResolves(context)
                \/ served = None
             THEN Failure
        ELSE IF \/ pointer.hash # None /\ pointer.hash # envelope
                \/ envelope.form # "dsse"
             THEN Failure
        ELSE envelope

\* get_policy: the manifest of a policy must not ask for identities.  A
\* manifest is [scheme, identities, vm, bundle], or None if the contract, the
\* URL or the content gave none.
GetPolicy(manifest, served) ==
    IF manifest = None \/ manifest.identities # {} THEN Failure
    ELSE FetchWorkerBundle(manifest.bundle, manifest.scheme,
                           IF manifest.scheme = "http" THEN None ELSE manifest.vm, served)
=============================================================================

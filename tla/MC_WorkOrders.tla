---------------------------- MODULE MC_WorkOrders ----------------------------
(***************************************************************************)
(* WorkOrders for TLC: two orders with all kinds of event, or one of them  *)
(* twice.                                                                  *)
(***************************************************************************)
EXTENDS WorkOrders, TLC

CONSTANTS o1, o2, s1, s2, i1, vm1, vm2

MixedEvents == (o1 :> {"launch", "scheduled", "http"}) @@ (o2 :> {"web3"})
OneEach == (s1 :> o1) @@ (s2 :> o2)
TwiceTheSame == (s1 :> o1) @@ (s2 :> o1)

\* Two bundles for the attached VM, and one for a VM that is not attached.
Bundle(vm, code) == [form |-> "dsse", vm |-> vm, code |-> code]
MCServed == {Bundle(vm1, 1), Bundle(vm1, 2), Bundle(vm2, 1),
             [form |-> "raw", vm |-> None, code |-> 1]}

Pointer(scheme, hash, vm) == [scheme |-> scheme, short |-> FALSE, hash |-> hash, vm_of_ext |-> vm]

\* Both orders name the hash of their bundle.
Pointers == [o \in {o1, o2} |-> Pointer("http", Bundle(vm1, 1), None)]

\* The first order needs the secret of an identity.
OneIdentity == (o1 :> <<i1>>) @@ (o2 :> <<>>)

\* A good policy, one that asks for identities, one whose code is a file, and one
\* whose code is nowhere.
Policy(scheme, identities, pointer) ==
    [scheme |-> scheme, identities |-> identities, vm |-> None, bundle |-> pointer]

MCManifests == {Policy("http", {}, Pointer("http", None, None)),
                Policy("http", {i1}, Pointer("http", None, None)),
                Policy("mock", {}, Pointer("file", None, vm1)),
                Policy("data", {}, Pointer("file", None, vm1))}

\* A listener on a chain id, with a filter on the second topic.
OnChainId ==
    LET event == [gateways |-> <<>>, chain |-> "id", rpc |-> <<"url", "other url">>,
                  address |-> {"contract"}, topics |-> <<{}, {"t"}>>]
    IN  [o \in {o1, o2} |-> event]

MCLogs == {[address |-> "contract", topics |-> <<"a", "t">>],
           [address |-> "contract", topics |-> <<"a">>]}

OneVm == <<vm1>>
=============================================================================

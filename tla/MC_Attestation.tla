--------------------------- MODULE MC_Attestation ---------------------------
(***************************************************************************)
(* Attestation for TLC: three chains (an odd level of the Merkle tree),    *)
(* the providers the enclave registers, and quotes a node may come by.     *)
(***************************************************************************)
EXTENDS Attestation

MCChains == <<1, 2, 3>>

MCProviders == [tdx |-> <<"qvl">>, null |-> <<"null">>]

Quote(len, readable, genuine) ==
    [version |-> 4, tee |-> "TDX", len |-> len, mrtd |-> 1, td_attributes |-> 3,
     readable |-> readable, genuine |-> genuine]

Node(key, platforms, enabled, quote) ==
    [key |-> key, platforms |-> platforms, enabled |-> enabled, quote |-> quote]

\* A node with the hardware, debugging on; one that forges a quote, one with a
\* simulator, and one whose quote is too short; one without a platform and
\* without freshness; one that has no provider.
MCNodes == {Node(1, {"tdx", "null"}, TRUE, Quote(1236, TRUE, TRUE)),
            Node(2, {"tdx", "null"}, TRUE, Quote(1236, TRUE, FALSE)),
            Node(2, {"tdx", "null"}, FALSE, Quote(48, FALSE, FALSE)),
            Node(3, {"tdx", "null"}, FALSE, Quote(47, FALSE, FALSE)),
            Node(3, {"null"}, FALSE, None), Node(4, {}, TRUE, None)}
=============================================================================

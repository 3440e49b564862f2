------------------------------ MODULE Gateways ------------------------------
(***************************************************************************)
(* The gateways to chains that web3 listeners use (web3/gateways.rs), and  *)
(* the filter of a listener (web3/listener.rs).                            *)
(*                                                                         *)
(* A gateway is a list of URLs and the providers that were connected to    *)
(* them, in that order; only the first provider is ever used.  A provider  *)
(* is "live", or "dead" once its connection is gone; it is never replaced. *)
(***************************************************************************)
EXTENDS Integers, Sequences

\* The URLs of a chain id that the node knows: the first WebSocket URL of the
\* chain list, or none.
GetRpcUrlsForChainId(urls) == IF urls = <<>> THEN <<>> ELSE <<Head(urls)>>

\* gateways_for_event: an event that names gateways, or a chain given by URLs,
\* has a gateway of its own; the gateway of a chain id is shared.
\* An event is [gateways, chain, rpc, address, topics]: chain is "id" or
\* "urls", and rpc the URLs of that chain.
Shared(event) == event.gateways = <<>> /\ event.chain = "id"

GatewaysForEvent(event) ==
    IF event.gateways # <<>> THEN event.gateways
    ELSE IF event.chain = "urls" THEN event.rpc
    ELSE GetRpcUrlsForChainId(event.rpc)

\* An unknown chain id is an error; an empty list of URLs is not.
Resolves(event) == Shared(event) => event.rpc # <<>>

\* provider() without a provider connects to the URLs in turn, up to the first
\* that fails: n of them are connected, and stay in the list.
Connected(n) == [i \in 1..n |-> "live"]

\* provider() succeeds with a provider it has, whatever has become of it, and
\* otherwise if all URLs were connected and there is one.
HasProvider(providers) == providers # <<>>

AllConnected(urls, n) == n = Len(urls) /\ n > 0

\* Loss of the connection that the gateway uses.
Dead(providers) == [providers EXCEPT ![1] = "dead"]

-----------------------------------------------------------------------------
\* log_matches_config: what a gateway sends is checked again.  An empty group
\* of topics or list of addresses matches everything.
LogMatchesConfig(log, event) ==
    /\ event.address # {} => log.address \in event.address
    /\ \A i \in 1..Len(event.topics) :
          event.topics[i] # {} =>
              i <= Len(log.topics) /\ log.topics[i] \in event.topics[i]
=============================================================================

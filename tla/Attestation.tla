---------------------------- MODULE Attestation ----------------------------
(***************************************************************************)
(* The attestation library (attestation/src): a node makes a bundle of     *)
(* evidence from its platform and user data (a key and recent blocks of    *)
(* several chains) that the evidence is bound to by a hash; another node   *)
(* verifies it with the providers of its platform, and then fetches the    *)
(* blocks itself and compares Merkle roots.                                *)
(*                                                                         *)
(* Every fetch of a block is an await: the heads of the chains move while  *)
(* a node collects them.  A hash is the value it hashes.  A quote is the   *)
(* record of what the code looks at, of whether it is genuine, and of      *)
(* whether dcap-qvl can read from it which collateral to ask for.          *)
(***************************************************************************)
EXTENDS Integers, Sequences, FiniteSets, SequencesExt

CONSTANTS
    MaxGens, MaxVers,  \* bound: calls of generate_attestation, verify_attestation
    Nodes,             \* nodes: key, platforms, freshness enabled, what quotes look like
    RequiredChains,    \* required_chains, a sequence
    MinBlocks,         \* min_blocks
    Providers,         \* the verifier's providers of a platform, a sequence
    MaxMoves,          \* bound: new heads of all chains together
    None

Chains == Range(RequiredChains)

\* Calls are numbered in the order they begin.
Gens == 1..MaxGens
Vers == 1..MaxVers

Platforms == {"tdx", "null"}
Keys == {node.key : node \in Nodes}
Quotes == {node.quote : node \in Nodes}

\* The platform a bundle says it is of.
Labels == Platforms \cup {"unknown"}

ASSUME FreshnessAssumption ==
    MinBlocks \in Nat /\ RequiredChains \in Seq(Range(RequiredChains))

ASSUME NodesAssumption ==
    Nodes \subseteq [key : Keys, platforms : SUBSET Platforms, enabled : BOOLEAN,
                     quote : Quotes]

\* PlatformAttestationManager::new registers at least one provider of either
\* platform; any number of them may be registered.
ASSUME ProvidersAssumption ==
    /\ DOMAIN Providers = Platforms
    /\ \A platform \in Platforms : Len(Providers[platform]) \in Nat \ {0}
    /\ \A k \in 1..Len(Providers["tdx"]) : Providers["tdx"][k] = "qvl"
    /\ \A k \in 1..Len(Providers["null"]) : Providers["null"][k] = "null"

VARIABLES
    head,      \* the latest block of every chain, as the gateways report it
    gen,       \* the calls of generate_attestation
    ver        \* the calls of verify_attestation

vars == <<head, gen, ver>>

\* A block of a chain: its number, and which of the blocks with this number.
Block(chain) == [chain |-> chain, number |-> head[chain].number, hash |-> head[chain].hash]

NoGen == [pc |-> "idle", node |-> None, provider |-> None, index |-> 1, blocks |-> <<>>,
          evidence |-> None]

NoVer == [pc |-> "idle", enabled |-> FALSE, label |-> None, evidence |-> None,
          userdata |-> None, index |-> 1, fetched |-> <<>>, current |-> {}, claims |-> None,
          fault |-> FALSE]

\* c is the next call to begin.
NextCall(calls, c) == calls[c].pc = "idle" /\ (c > 1 => calls[c - 1].pc # "idle")

-----------------------------------------------------------------------------
(* Quotes: tdx/hardware.rs *)

\* simple_quote_sanity
SaneQuote(q) == q.len >= 48 /\ q.version \in {4, 5} /\ q.tee = "TDX"

\* A quote by configfs, or none.
QuoteViaTsm(q) == {None} \cup {r \in {q} : r.len > 0}

\* A quote by the device, or none: it is copied from a buffer behind a header.
QuoteViaLegacy(q) == {None} \cup {r \in {q} : r.len \in 1..(16 * 1024 - 24)}

\* generate_quote: the device is tried if configfs fails; the quote must be sane.
GenerateQuote(q) ==
    {None} \cup {r \in QuoteViaTsm(q) \cup QuoteViaLegacy(q) : r # None /\ SaneQuote(r)}

\* Debugging is the first bit of the attributes; it is a claim, never a cause
\* of a refusal.
DebugEnabled(q) == q.td_attributes % 2 = 1

\* The claims a provider makes of a quote it verified, and the ones of
\* evidence without a platform.
Claims(evidence) ==
    [eat_profile |-> "tdx-v1", eat_nonce |-> evidence.report_data,
     dbgstat |-> IF DebugEnabled(evidence.quote) THEN 4 ELSE 0,
     measurement |-> evidence.quote.mrtd]

NullClaims(userdata) ==
    [eat_profile |-> "null-v1", eat_nonce |-> userdata, dbgstat |-> 0, measurement |-> None]

-----------------------------------------------------------------------------
(* Freshness proofs: freshness.rs *)

\* One level of the tree: pairs, the last one doubled if there is no other.
NextLevel(hashes) ==
    [k \in 1..((Len(hashes) + 1) \div 2) |->
        <<hashes[2 * k - 1], hashes[IF 2 * k <= Len(hashes) THEN 2 * k ELSE 2 * k - 1]>>]

\* A leaf has the chain, the number and the hash.
Leaves(blocks) ==
    [k \in 1..Len(blocks) |-> <<blocks[k].chain, blocks[k].number, blocks[k].hash>>]

\* Mutant: the last hash of an odd level is left out.
MerkleRootWithoutOdd(blocks) ==
    FoldLeft(LAMBDA level, k : IF Len(level) > 1
                               THEN NextLevel(SubSeq(level, 1, Len(level) - (Len(level) % 2)))
                               ELSE level,
             Leaves(blocks), blocks)

\* The level above: the loop ends at a single hash.
Reduce(level) == IF Len(level) > 1 THEN NextLevel(level) ELSE level

\* There are no more levels than blocks.
Levels(blocks) ==
    LET levels[n \in 0..Len(blocks)] ==
            IF n = 0 THEN Leaves(blocks) ELSE Reduce(levels[n - 1])
    IN  levels

\* compute_merkle_root
MerkleRoot(blocks) == Levels(blocks)[Len(blocks)]

\* create_compact_representation, beside the root: the references, of which
\* the verifier uses the chain, and their count in one byte.
References(blocks) == [k \in 1..Len(blocks) |-> blocks[k].chain]

ReferenceCount(blocks) == Len(blocks) % 256

\* Mutant: one block more than the minimum is wanted.
ProofStructureOff(blocks) == Len(blocks) > MinBlocks

\* verify_structure of the proof the verifier makes of the user data (its
\* root is the one just computed), and parse_compact_data.
ProofStructure(blocks) ==
    /\ Len(blocks) >= MinBlocks
    /\ ReferenceCount(blocks) = Len(References(blocks))

-----------------------------------------------------------------------------
(* generate_attestation *)

Priority == <<"tdx", "null">>

\* The provider of the first platform that is available; then the fetches, if
\* freshness is enabled.
GenBegin(g, node) ==
    LET found == {k \in 1..Len(Priority) : Priority[k] \in node.platforms} IN
    /\ NextCall(gen, g)
    /\ \/ /\ found = {}
          /\ gen' = [gen EXCEPT ![g].pc = "failed"]
       \/ \E k \in found :
             /\ \A j \in found : k <= j
             /\ gen' = [gen EXCEPT ![g].node = node, ![g].provider = Priority[k],
                                   ![g].pc = IF node.enabled THEN "fetch" ELSE "sign"]
    /\ UNCHANGED <<head, ver>>

\* Too few blocks: a proof that is disabled, without an error.
Fetched(r) ==
    [r EXCEPT !.blocks = IF Len(@) < MinBlocks THEN <<>> ELSE @, !.index = 1, !.pc = "sign"]

\* fetch_blocks_internal, one chain: the latest block, or nothing.  The
\* freshness of the block is not looked at: its age is set to 0.
GenFetch(g) ==
    LET r == gen[g]
        next == [r EXCEPT !.index = @ + 1]
        After(s) == IF s.index > Len(RequiredChains) THEN Fetched(s) ELSE s
    IN
    /\ r.pc = "fetch" /\ r.index <= Len(RequiredChains)
    /\ \/ gen' = [gen EXCEPT ![g] =
                    After([next EXCEPT !.blocks = Append(@, Block(RequiredChains[r.index]))])]
       \/ gen' = [gen EXCEPT ![g] = After(next)]
    /\ UNCHANGED <<head, ver>>

\* Mutant: the timeout is that of the first request.
GenTimeoutFirstOnly(g) ==
    /\ gen[g].pc = "fetch" /\ gen[g].index = 1
    /\ gen' = [gen EXCEPT ![g].blocks = <<>>, ![g].index = 1, ![g].pc = "sign"]
    /\ UNCHANGED <<head, ver>>

\* fetch_timeout, for all chains together.
GenTimeout(g) ==
    /\ gen[g].pc = "fetch"
    /\ gen' = [gen EXCEPT ![g].blocks = <<>>, ![g].index = 1, ![g].pc = "sign"]
    /\ UNCHANGED <<head, ver>>

\* The user data a generation binds its evidence to.
UserData(g) == [key |-> gen[g].node.key, blocks |-> gen[g].blocks]

\* generate_null_attestation, or a quote of the platform over the hash of the
\* user data; the platform may fail, or return a quote that is not sane.
GenSign(g) ==
    LET Evidence(q) == [platform |-> gen[g].provider, quote |-> q, report_data |-> UserData(g),
                        key |-> gen[g].node.key]
    IN
    /\ gen[g].pc = "sign"
    /\ IF gen[g].provider = "null"
       THEN gen' = [gen EXCEPT ![g].evidence = Evidence(None), ![g].pc = "done"]
       ELSE \E q \in GenerateQuote(gen[g].node.quote) :
               gen' = [gen EXCEPT ![g] =
                         IF q = None THEN [NoGen EXCEPT !.pc = "failed"]
                         ELSE [@ EXCEPT !.evidence = Evidence(q), !.pc = "done"]]
    /\ UNCHANGED <<head, ver>>

-----------------------------------------------------------------------------
(* The providers: providers/tdx_qvl.rs, providers/null.rs *)

\* Mutant: without collateral the quote is taken as it is.
QvlErrorFailOpen(evidence, collateral) ==
    IF evidence.platform # "tdx" \/ ~evidence.quote.readable THEN {"Unsupported"}
    ELSE IF collateral /\ ~evidence.quote.genuine THEN {"Failed", "Unsupported"}
    ELSE {"Ok"}

\* verify_with_dcap_qvl (the library is external) and what is made of its error.
\* The collateral is asked for by what the quote says: of one that cannot be
\* read, or of no quote at all, the error is that of the collateral and so
\* "Unsupported", like that of a service that does not answer.  The error of a
\* quote that does not verify, or of collateral that is out of date, is one or
\* the other by the words in it.
QvlError(evidence, collateral) ==
    IF evidence.platform # "tdx" \/ ~evidence.quote.readable THEN {"Unsupported"}
    ELSE IF ~collateral \/ ~evidence.quote.genuine THEN {"Failed", "Unsupported"}
    ELSE {"Ok"}

\* Mutant: the quote is not compared with the user data.
VerifyQvlUnbound(evidence, userdata, collateral) ==
    {IF error = "Ok" THEN "Verified" ELSE error : error \in QvlError(evidence, collateral)}

\* The quote, and then its binding to the user data.
VerifyQvl(evidence, userdata, collateral) ==
    {IF error # "Ok" THEN error
     ELSE IF evidence.report_data # userdata THEN "Failed"
     ELSE "Verified" : error \in QvlError(evidence, collateral)}

\* Evidence without a platform: it must parse, and the hash and the key agree.
VerifyNull(evidence, userdata) ==
    IF /\ evidence.platform = "null"
       /\ evidence.report_data = userdata
       /\ evidence.key = userdata.key
    THEN {"Verified"} ELSE {"Failed"}

VerifyWith(provider, evidence, userdata, collateral) ==
    IF provider = "qvl" THEN VerifyQvl(evidence, userdata, collateral)
    ELSE VerifyNull(evidence, userdata)

-----------------------------------------------------------------------------
(* verify_attestation *)

\* A bundle arrives.  The daemons that relay it keep the platform, the evidence
\* and the user data in fields of their own: they need not be of one generation.
\* Without a provider of that platform it is refused.
VerBegin(v, g, h, label, enabled) ==
    /\ NextCall(ver, v) /\ gen[g].pc = "done" /\ gen[h].pc = "done"
    /\ ver' = [ver EXCEPT ![v] =
                 [@ EXCEPT !.enabled = enabled, !.label = label, !.evidence = gen[g].evidence,
                           !.userdata = UserData(h),
                           !.pc = IF label \in DOMAIN Providers THEN "provider" ELSE "rejected",
                           !.current = {Block(chain) : chain \in Chains}]]
    /\ UNCHANGED <<head, gen>>

\* What the provider returns with its verdict.
WithClaims(r) ==
    [r EXCEPT !.claims = IF r.label = "null" THEN NullClaims(r.userdata)
                         ELSE Claims(r.evidence)]

\* What follows a quote that was verified.
CheckFreshness(r) ==
    LET blocks == r.userdata.blocks IN
    IF blocks = <<>> THEN [r EXCEPT !.pc = IF r.enabled THEN "rejected" ELSE "accepted"]
    ELSE IF ~r.enabled THEN [r EXCEPT !.pc = "accepted"]
    ELSE IF ~ProofStructure(blocks) THEN [r EXCEPT !.pc = "rejected"]
    ELSE [r EXCEPT !.pc = "refs"]

\* The next provider of the platform: a failure is final; without support, or
\* with an error of its own, which none of the two providers returns, the one
\* after it is tried.
VerProvider(v) ==
    LET r == ver[v]
        chain == Providers[r.label]
    IN
    /\ r.pc = "provider"
    /\ IF r.index > Len(chain) THEN ver' = [ver EXCEPT ![v].pc = "rejected"]
       ELSE \E collateral \in BOOLEAN :
            \E result \in VerifyWith(chain[r.index], r.evidence, r.userdata, collateral) :
               LET n == [r EXCEPT !.fault = @ \/ ~collateral] IN
               /\ collateral \/ chain[r.index] = "qvl"
               /\ ver' = [ver EXCEPT ![v] =
                            CASE result = "Verified" -> CheckFreshness(WithClaims(n))
                              [] result = "Failed" -> [n EXCEPT !.pc = "rejected"]
                              [] OTHER -> [n EXCEPT !.index = @ + 1]]
    /\ UNCHANGED <<head, gen>>

\* fetch_blocks_by_references, one reference: the latest block of the chain,
\* whatever its number; a failure ends it.  After the last one the roots are
\* compared; the age of the blocks is set to 0 again.
VerFetch(v) ==
    LET r == ver[v]
        blocks == r.userdata.blocks
        got == Append(r.fetched, Block(References(blocks)[Len(r.fetched) + 1]))
        verdict == IF MerkleRoot(got) = MerkleRoot(blocks) THEN "accepted" ELSE "rejected"
    IN
    /\ r.pc = "refs"
    /\ \/ ver' = [ver EXCEPT ![v].fetched = got,
                             ![v].pc = IF Len(got) < Len(blocks) THEN @ ELSE verdict]
       \/ ver' = [ver EXCEPT ![v].fault = TRUE, ![v].pc = "rejected"]
    /\ UNCHANGED <<head, gen>>

-----------------------------------------------------------------------------
(* The chains (external) *)

\* A new head; the verifications under way have seen it as current.
MoveHead(chain, number, hash) ==
    /\ head' = [head EXCEPT ![chain] = [number |-> number, hash |-> hash]]
    /\ ver' = [v \in Vers |->
                 IF ver[v].pc \in {"provider", "refs"}
                 THEN [ver[v] EXCEPT !.current = @ \cup
                         {[chain |-> chain, number |-> number, hash |-> hash]}]
                 ELSE ver[v]]
    /\ gen' = gen

Moves == FoldFunction(LAMBDA h, sum : h.number + h.hash + sum, 0, head)

NewBlock(chain) ==
    /\ Moves < MaxMoves
    /\ MoveHead(chain, head[chain].number + 1, head[chain].hash)

Reorg(chain) ==
    /\ Moves < MaxMoves
    /\ MoveHead(chain, head[chain].number, head[chain].hash + 1)

-----------------------------------------------------------------------------
Init ==
    /\ head = [chain \in Chains |-> [number |-> 0, hash |-> 0]]
    /\ gen = [g \in Gens |-> NoGen]
    /\ ver = [v \in Vers |-> NoVer]

Next ==
    \/ \E g \in Gens :
          \/ GenFetch(g) \/ GenTimeout(g) \/ GenSign(g)
          \/ \E node \in Nodes : GenBegin(g, node)
    \/ \E v \in Vers :
          \/ VerProvider(v) \/ VerFetch(v)
          \/ \E g, h \in Gens, label \in Labels, enabled \in BOOLEAN :
                VerBegin(v, g, h, label, enabled)
    \/ \E chain \in Chains : NewBlock(chain) \/ Reorg(chain)

\* The timer fires and the platform answers; a gateway need not.
Fairness ==
    \A g \in Gens : WF_vars(GenTimeout(g)) /\ WF_vars(GenSign(g))

Spec == Init /\ [][Next]_vars /\ Fairness

-----------------------------------------------------------------------------
(* Properties *)

BlockType == [chain : Chains, number : Nat, hash : Nat]

UserDataType == [key : Keys, blocks : Seq(BlockType)]

EvidenceType ==
    [platform : Platforms, quote : Quotes \cup {None}, report_data : UserDataType, key : Keys]

ClaimsType ==
    [eat_profile : {"tdx-v1", "null-v1"}, eat_nonce : UserDataType, dbgstat : {0, 4},
     measurement : {q.mrtd : q \in Quotes \ {None}} \cup {None}]

GenType ==
    [pc : {"idle", "fetch", "sign", "done", "failed"}, node : Nodes \cup {None},
     provider : Platforms \cup {None}, index : Nat \ {0}, blocks : Seq(BlockType),
     evidence : EvidenceType \cup {None}]

VerType ==
    [pc : {"idle", "provider", "refs", "accepted", "rejected"}, enabled : BOOLEAN,
     label : Labels \cup {None}, evidence : EvidenceType \cup {None},
     userdata : UserDataType \cup {None}, index : Nat \ {0}, fetched : Seq(BlockType),
     current : SUBSET BlockType, claims : ClaimsType \cup {None}, fault : BOOLEAN]

\* Every variable has its type; what is fetched is a prefix of what the user
\* data refers to.
TypeOK ==
    /\ head \in [Chains -> [number : Nat, hash : Nat]]
    /\ gen \in [Gens -> GenType]
    /\ ver \in [Vers -> VerType]
    /\ \A g \in Gens : Len(gen[g].blocks) <= Len(RequiredChains)
    /\ \A v \in Vers :
          ver[v].pc = "refs" => Len(ver[v].fetched) < Len(ver[v].userdata.blocks)

\* A verifier that asks for freshness accepts a bundle only with at least
\* min_blocks blocks, each of which was the head of its chain at some moment
\* of the verification itself, however the heads move meanwhile.
AcceptedIsCurrent ==
    \A v \in Vers :
        (ver[v].pc = "accepted" /\ ver[v].enabled) =>
            /\ Len(ver[v].userdata.blocks) >= MinBlocks
            /\ \A k \in 1..Len(ver[v].userdata.blocks) :
                  ver[v].userdata.blocks[k] \in ver[v].current

\* Evidence is accepted only with the user data of its own generation, whose
\* key it names, and the claims name that user data, whatever the daemons put
\* together.
AcceptedIsBound ==
    /\ TypeOK
    /\ \A v \in Vers :
          ver[v].pc = "accepted" =>
              /\ ver[v].evidence.report_data = ver[v].userdata
              /\ ver[v].evidence.key = ver[v].userdata.key
              /\ ver[v].claims.eat_nonce = ver[v].userdata

\* The claims of a platform are made only of evidence of that platform: those
\* of TDX, with their measurement, only of a genuine quote that has this
\* measurement, whatever the daemons label it, whether or not the collateral is
\* there, and however the errors of the library are worded.
ClaimsAreEarned ==
    \A v \in Vers :
        ver[v].pc = "accepted" =>
            IF ver[v].claims.eat_profile = "tdx-v1"
            THEN /\ ver[v].evidence.platform = "tdx"
                 /\ ver[v].evidence.quote.genuine
                 /\ ver[v].claims.measurement = ver[v].evidence.quote.mrtd
            ELSE ver[v].evidence.platform = "null"

\* A bundle that no provider can verify: its evidence is of another platform
\* than its label, or a quote that cannot be read or is not genuine.
Unfit(r) ==
    \/ r.label # r.evidence.platform
    \/ r.label = "tdx" /\ ~(r.evidence.quote.readable /\ r.evidence.quote.genuine)

\* An honest bundle is not refused without cause: with the blocks of its
\* generation still the heads, as many as the proof can hold (their count is one
\* byte), no fault of a gateway or of the collateral service and a genuine quote,
\* it is accepted.
RefusedForCause ==
    \A v \in Vers :
        LET r == ver[v] IN
        (r.pc = "rejected" /\ r.evidence.report_data = r.userdata /\ ~r.fault) =>
            \/ Unfit(r)
            \/ r.enabled /\ (\/ r.userdata.blocks = <<>>
                             \/ Len(r.userdata.blocks) \notin MinBlocks..255)
            \/ r.enabled /\ \E k \in 1..Len(r.userdata.blocks) :
                                 \E b \in r.current : b.chain = r.userdata.blocks[k].chain
                                                      /\ b # r.userdata.blocks[k]

\* A node that begins an attestation ends it, with gateways that never answer.
GenerationEnds == \A g \in Gens : gen[g].pc = "fetch" ~> gen[g].pc \in {"done", "failed"}
=============================================================================

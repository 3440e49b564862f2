------------------------- MODULE AttestationProofs -------------------------
(***************************************************************************)
(* Proofs about Attestation, for any nodes and chains, any number of       *)
(* providers of a platform, of calls and of new blocks.                    *)
(***************************************************************************)
EXTENDS Attestation, WellFoundedInduction, TLAPS

\* Evidence that a generation made.
Made(e) ==
    /\ e \in EvidenceType /\ e.key = e.report_data.key
    /\ e.platform = "tdx" => e.quote \in Quotes \ {None}

\* What a generation has by its position.
GenFits(r) ==
    /\ r.pc = "idle" => r = NoGen
    /\ r.pc \in {"fetch", "sign", "done"} => r.node \in Nodes /\ r.provider \in Platforms
    /\ r.pc = "fetch" => Len(r.blocks) < r.index
    /\ r.pc = "done" =>
          Made(r.evidence) /\ r.evidence.report_data = [key |-> r.node.key, blocks |-> r.blocks]

\* What the provider that verified the evidence has established, and what its
\* claims say.
Verified(r) ==
    /\ r.evidence.report_data = r.userdata
    /\ r.label = r.evidence.platform
    /\ r.label = "tdx" => r.evidence.quote.genuine

Bound(r) ==
    /\ Verified(r)
    /\ r.claims.eat_nonce = r.userdata
    /\ r.label = "tdx" =>
          r.claims.eat_profile = "tdx-v1" /\ r.claims.measurement = r.evidence.quote.mrtd
    /\ r.label # "tdx" => r.claims.eat_profile = "null-v1"

\* The blocks that were fetched, so far, are those of the references and were heads.
FetchedOK(r) ==
    \A k \in 1..Len(r.fetched) :
        r.fetched[k] \in r.current /\ r.fetched[k].chain = r.userdata.blocks[k].chain

Fresh(r) ==
    r.enabled =>
        /\ Len(r.userdata.blocks) >= MinBlocks
        /\ \A k \in 1..Len(r.userdata.blocks) : r.userdata.blocks[k] \in r.current

\* The causes of a refusal.
Moved(r) ==
    \E k \in 1..Len(r.userdata.blocks) :
        \E b \in r.current : b.chain = r.userdata.blocks[k].chain /\ b # r.userdata.blocks[k]

Caused(r) ==
    (r.evidence.report_data = r.userdata /\ ~r.fault) =>
        \/ Unfit(r)
        \/ r.enabled /\ (r.userdata.blocks = <<>> \/ Len(r.userdata.blocks) \notin MinBlocks..255)
        \/ r.enabled /\ Moved(r)

\* What a verification has by its position.  Another provider is asked only
\* after a fault, or of evidence that none can verify.
VerFits(r) ==
    /\ r.pc = "idle" => r = NoVer
    /\ r.pc # "idle" => Made(r.evidence) /\ r.userdata \in UserDataType
    /\ r.pc = "provider" =>
          r.label \in Platforms /\ r.fetched = <<>> /\ (r.index # 1 => r.fault \/ Unfit(r))
    /\ r.pc \in {"refs", "accepted"} => r.claims \in ClaimsType /\ Bound(r)
    /\ r.pc = "refs" =>
          /\ r.enabled /\ Len(r.userdata.blocks) >= MinBlocks
          /\ Len(r.fetched) < Len(r.userdata.blocks)
          /\ FetchedOK(r)
    /\ r.pc = "accepted" => Fresh(r)
    /\ r.pc = "rejected" => Caused(r)

\* A verification under way has seen the heads.
Sees(r, heads) ==
    r.pc \in {"provider", "refs"} =>
        \A chain \in Chains :
            [chain |-> chain, number |-> heads[chain].number, hash |-> heads[chain].hash]
                \in r.current

IInv ==
    /\ TypeOK
    /\ \A g \in Gens : GenFits(gen[g])
    /\ \A v \in Vers : VerFits(ver[v]) /\ Sees(ver[v], head)

-----------------------------------------------------------------------------
(* The Merkle root: induction over the levels, which the proofs do with    *)
(* the least level at which a claim would fail.                            *)

\* A set of natural numbers that is not empty has a least element.
LEMMA Least ==
    ASSUME NEW T, T \subseteq Nat, T # {}
    PROVE  \E x \in T : \A y \in T : x <= y
<1>1. PICK x \in T : \A y \in T : ~(<<y, x>> \in OpToRel(<, Nat))
  BY NatLessThanWellFounded, WFMin
<1>2. \A y \in T : ~(y < x)
  BY <1>1 DEF OpToRel
<1> QED BY <1>2

\* f has the first n levels above the leaves.
IsTower(f, b, n) == f = [k \in 0..n |-> IF k = 0 THEN Leaves(b) ELSE Reduce(f[k - 1])]

\* There are such levels.
LEMMA TowerExists ==
    ASSUME NEW b, NEW N \in Nat
    PROVE  \E f : IsTower(f, b, N)
<1> DEFINE T == {m \in Nat : ~\E f : IsTower(f, b, m)}
<1>1. SUFFICES ASSUME T # {} PROVE FALSE
  OBVIOUS
<1>3. PICK m \in T : \A y \in T : m <= y
  BY <1>1, Least
<1> HIDE DEF T
<1>4. m \in Nat /\ ~\E f : IsTower(f, b, m)
  BY <1>3 DEF T
<1>5. CASE m = 0
  <2>1. PICK f : f = [k \in 0..0 |-> Leaves(b)]
    OBVIOUS
  <2>2. f = [k \in 0..0 |-> IF k = 0 THEN Leaves(b) ELSE Reduce(f[k - 1])]
    BY <2>1
  <2> QED BY <1>4, <1>5, <2>2 DEF IsTower
<1>6. CASE m # 0
  <2>1. m - 1 \in Nat /\ m - 1 \notin T
    BY <1>3, <1>4, <1>6
  <2>2. PICK f : IsTower(f, b, m - 1)
    BY <2>1 DEF T
  <2>3. PICK g : g = [k \in 0..m |-> IF k = m THEN Reduce(f[m - 1]) ELSE f[k]]
    OBVIOUS
  <2>4. ASSUME NEW k \in 0..m PROVE g[k] = IF k = 0 THEN Leaves(b) ELSE Reduce(g[k - 1])
    <3>1. CASE k = m
      <4>1. g[k] = Reduce(f[m - 1])
        BY <2>3, <3>1
      <4>2. k - 1 \in 0..m /\ k - 1 # m
        BY <1>4, <1>6, <3>1
      <4>3. g[k - 1] = f[m - 1]
        BY <2>3, <3>1, <4>2
      <4> QED BY <1>6, <3>1, <4>1, <4>3
    <3>2. CASE k # m
      <4>1. g[k] = f[k] /\ k \in 0..(m - 1)
        BY <1>4, <2>3, <3>2
      <4>2. f[k] = IF k = 0 THEN Leaves(b) ELSE Reduce(f[k - 1])
        BY <2>2, <4>1 DEF IsTower
      <4>3. CASE k = 0
        BY <4>1, <4>2, <4>3
      <4>4. CASE k # 0
        <5>1. k - 1 \in 0..m /\ k - 1 # m
          BY <1>4, <3>2, <4>4
        <5>2. g[k - 1] = f[k - 1]
          BY <2>3, <5>1
        <5> QED BY <4>1, <4>2, <4>4, <5>2
      <4> QED BY <4>3, <4>4
    <3> QED BY <3>1, <3>2
  <2>5. IsTower(g, b, m)
    <3>1. g = [k \in 0..m |-> g[k]]
      BY <2>3
    <3> QED BY <2>4, <3>1 DEF IsTower
  <2> QED BY <1>4, <2>5
<1> QED BY <1>5, <1>6

\* What Levels returns.
LEMMA LevelsTower ==
    ASSUME NEW b, Len(b) \in Nat
    PROVE  IsTower(Levels(b), b, Len(b))
<1>1. PICK f : IsTower(f, b, Len(b))
  BY TowerExists
<1>2. PICK g : g = Levels(b)
  OBVIOUS
<1>3. g = [k \in 0..Len(b) |-> IF k = 0 THEN Leaves(b) ELSE Reduce(g[k - 1])]
  BY <1>1, <1>2 DEF Levels, IsTower
<1> QED BY <1>2, <1>3 DEF IsTower

\* A level with m hashes.
LevelOf(x, m) == m \in Nat /\ Len(x) = m /\ x = [k \in 1..m |-> x[k]]

LEMMA LeavesLevel ==
    ASSUME NEW b, Len(b) \in Nat
    PROVE  LevelOf(Leaves(b), Len(b))
<1>1. PICK m \in Nat : m = Len(b)
  OBVIOUS
<1>2. Leaves(b) = [k \in 1..m |-> <<b[k].chain, b[k].number, b[k].hash>>]
  BY <1>1 DEF Leaves
<1>3. Len(Leaves(b)) = m
  BY <1>1, <1>2
<1>4. Leaves(b) = [k \in 1..m |-> Leaves(b)[k]]
  BY <1>2
<1> QED BY <1>1, <1>3, <1>4 DEF LevelOf

LEMMA NextLevelSize ==
    ASSUME NEW x, NEW m \in Nat, LevelOf(x, m)
    PROVE  LevelOf(NextLevel(x), (m + 1) \div 2)
<1>1. PICK n \in Nat : n = (m + 1) \div 2
  OBVIOUS
<1>2. NextLevel(x) =
        [k \in 1..n |-> <<x[2 * k - 1], x[IF 2 * k <= m THEN 2 * k ELSE 2 * k - 1]>>]
  BY <1>1 DEF NextLevel, LevelOf
<1>3. Len(NextLevel(x)) = n
  BY <1>1, <1>2
<1>4. NextLevel(x) = [k \in 1..n |-> NextLevel(x)[k]]
  BY <1>2
<1> QED BY <1>1, <1>3, <1>4 DEF LevelOf

\* Two levels of one length with the same level above are the same.
LEMMA NextLevelInjective ==
    ASSUME NEW x, NEW y, NEW m \in Nat, LevelOf(x, m), LevelOf(y, m),
           NextLevel(x) = NextLevel(y)
    PROVE  x = y
<1>1. PICK n \in Nat : n = (m + 1) \div 2
  OBVIOUS
<1>2. NextLevel(x) =
        [k \in 1..n |-> <<x[2 * k - 1], x[IF 2 * k <= m THEN 2 * k ELSE 2 * k - 1]>>]
  BY <1>1 DEF NextLevel, LevelOf
<1>3. NextLevel(y) =
        [k \in 1..n |-> <<y[2 * k - 1], y[IF 2 * k <= m THEN 2 * k ELSE 2 * k - 1]>>]
  BY <1>1 DEF NextLevel, LevelOf
<1>4. ASSUME NEW k \in 1..m PROVE x[k] = y[k]
  <2>1. PICK j \in Nat : j = (k + 1) \div 2
    OBVIOUS
  <2>2. j \in 1..n /\ (k = 2 * j - 1 \/ k = 2 * j)
    BY <1>1, <2>1
  <2>3. /\ NextLevel(x)[j] = <<x[2 * j - 1], x[IF 2 * j <= m THEN 2 * j ELSE 2 * j - 1]>>
        /\ NextLevel(y)[j] = <<y[2 * j - 1], y[IF 2 * j <= m THEN 2 * j ELSE 2 * j - 1]>>
    BY <1>2, <1>3, <2>2
  <2>4. CASE k = 2 * j - 1
    BY <2>3, <2>4
  <2>5. CASE k = 2 * j
    <3>1. 2 * j <= m
      BY <2>5
    <3>2. NextLevel(x)[j] = <<x[2 * j - 1], x[2 * j]>> /\ NextLevel(y)[j] = <<y[2 * j - 1], y[2 * j]>>
      BY <2>3, <3>1
    <3> QED BY <2>5, <3>2
  <2> QED BY <2>2, <2>4, <2>5
<1>5. x = [k \in 1..m |-> x[k]] /\ y = [k \in 1..m |-> y[k]]
  BY DEF LevelOf
<1> QED BY <1>4, <1>5

\* A block is its chain, its number and its hash.
LEMMA BlockFields ==
    ASSUME NEW x \in BlockType, NEW y \in BlockType,
           x.chain = y.chain, x.number = y.number, x.hash = y.hash
    PROVE  x = y
<1>1. /\ x = [chain |-> x.chain, number |-> x.number, hash |-> x.hash]
      /\ y = [chain |-> y.chain, number |-> y.number, hash |-> y.hash]
  BY DEF BlockType
<1> QED BY <1>1

\* The leaves fix the blocks.
LEMMA LeavesInjective ==
    ASSUME NEW b \in Seq(BlockType), NEW c \in Seq(BlockType), Len(b) = Len(c),
           Leaves(b) = Leaves(c)
    PROVE  b = c
<1>1. ASSUME NEW k \in 1..Len(b) PROVE b[k] = c[k]
  <2>1. b[k] \in BlockType /\ c[k] \in BlockType
    OBVIOUS
  <2>2. /\ Leaves(b)[k] = <<b[k].chain, b[k].number, b[k].hash>>
        /\ Leaves(c)[k] = <<c[k].chain, c[k].number, c[k].hash>>
    BY DEF Leaves
  <2>3. b[k].chain = c[k].chain /\ b[k].number = c[k].number /\ b[k].hash = c[k].hash
    BY <2>2
  <2> QED BY <2>1, <2>3, BlockFields
<1> QED BY <1>1

\* The two trees have the same shape up to level n, and agree at n only if
\* they agree at the leaves.
Alike(f, g, b, c, n) ==
    /\ \E m \in Nat : LevelOf(f[n], m) /\ LevelOf(g[n], m)
    /\ f[n] = g[n] => Leaves(b) = Leaves(c)

LEMMA TowersAlike ==
    ASSUME NEW b, NEW c, NEW N \in Nat, Len(b) = N, Len(c) = N, NEW f, NEW g,
           IsTower(f, b, N), IsTower(g, c, N)
    PROVE  Alike(f, g, b, c, N)
<1> DEFINE T == {m \in 0..N : ~Alike(f, g, b, c, m)}
<1>1. SUFFICES ASSUME T # {} PROVE FALSE
  OBVIOUS
<1>2. T \subseteq Nat
  OBVIOUS
<1>3. PICK m \in T : \A y \in T : m <= y
  BY <1>1, <1>2, Least
<1> HIDE DEF T
<1>4. m \in 0..N /\ ~Alike(f, g, b, c, m)
  BY <1>3 DEF T
<1>5. CASE m = 0
  <2>1. f[0] = Leaves(b) /\ g[0] = Leaves(c)
    BY <1>4, <1>5 DEF IsTower
  <2>2. LevelOf(Leaves(b), N) /\ LevelOf(Leaves(c), N)
    BY LeavesLevel
  <2> QED BY <1>4, <1>5, <2>1, <2>2 DEF Alike
<1>6. CASE m # 0
  <2>1. m - 1 \in 0..N /\ m - 1 \notin T
    BY <1>3, <1>4, <1>6
  <2>2. Alike(f, g, b, c, m - 1)
    BY <2>1 DEF T
  <2>3. f[m] = Reduce(f[m - 1]) /\ g[m] = Reduce(g[m - 1])
    BY <1>4, <1>6 DEF IsTower
  <2>4. PICK x, y : x = f[m - 1] /\ y = g[m - 1]
    OBVIOUS
  <2>5. PICK s \in Nat : LevelOf(x, s) /\ LevelOf(y, s)
    BY <2>2, <2>4 DEF Alike
  <2>6. x = y => Leaves(b) = Leaves(c)
    BY <2>2, <2>4 DEF Alike
  <2>7. Len(x) = s /\ Len(y) = s
    BY <2>5 DEF LevelOf
  <2>8. CASE s > 1
    <3>1. f[m] = NextLevel(x) /\ g[m] = NextLevel(y)
      BY <2>3, <2>4, <2>7, <2>8 DEF Reduce
    <3>2. LevelOf(f[m], (s + 1) \div 2) /\ LevelOf(g[m], (s + 1) \div 2)
      BY <2>5, <3>1, NextLevelSize
    <3>3. f[m] = g[m] => x = y
      BY <2>5, <3>1, NextLevelInjective
    <3>4. (s + 1) \div 2 \in Nat
      BY <2>5
    <3> QED BY <1>4, <2>6, <3>2, <3>3, <3>4 DEF Alike
  <2>9. CASE ~(s > 1)
    <3>1. f[m] = x /\ g[m] = y
      BY <2>3, <2>4, <2>7, <2>9 DEF Reduce
    <3> QED BY <1>4, <2>5, <2>6, <3>1 DEF Alike
  <2> QED BY <2>8, <2>9
<1> QED BY <1>5, <1>6

\* Lists of blocks of one length have the same Merkle root only if they are
\* the same: compute_merkle_root leaves nothing out and mixes nothing up.
THEOREM MerkleRootInjective ==
    ASSUME NEW b \in Seq(BlockType), NEW c \in Seq(BlockType), Len(b) = Len(c),
           MerkleRoot(b) = MerkleRoot(c)
    PROVE  b = c
<1>1. PICK N \in Nat : Len(b) = N /\ Len(c) = N
  OBVIOUS
<1>2. IsTower(Levels(b), b, N) /\ IsTower(Levels(c), c, N)
  BY <1>1, LevelsTower
<1>3. Alike(Levels(b), Levels(c), b, c, N)
  BY <1>1, <1>2, TowersAlike
<1>4. Leaves(b) = Leaves(c)
  BY <1>1, <1>3 DEF Alike, MerkleRoot
<1> QED BY <1>4, LeavesInjective
-----------------------------------------------------------------------------
(* One call changes *)

\* A generation at any position.
GenOK(r) == r \in GenType /\ Len(r.blocks) <= Len(RequiredChains) /\ GenFits(r)

VerOK(r) == r \in VerType /\ VerFits(r) /\ Sees(r, head)

LEMMA CallsOK ==
    ASSUME IInv
    PROVE  /\ \A g \in Gens : GenOK(gen[g])
           /\ \A v \in Vers : VerOK(ver[v])
BY DEF IInv, TypeOK, GenOK, VerOK

LEMMA GenStep ==
    ASSUME IInv, NEW g \in Gens, NEW r, GenOK(r), gen' = [gen EXCEPT ![g] = r],
           UNCHANGED <<head, ver>>
    PROVE  IInv'
<1>1. gen' \in [Gens -> GenType]
  BY DEF IInv, TypeOK, GenOK
<1>2. \A h \in Gens : gen'[h] = IF h = g THEN r ELSE gen[h]
  BY DEF IInv, TypeOK
<1>3. \A h \in Gens : GenOK(gen'[h])
  BY <1>2, CallsOK
<1>4. TypeOK'
  BY <1>1, <1>3 DEF IInv, TypeOK, GenOK
<1>6. \A h \in Gens : GenFits(gen'[h])
  BY <1>3 DEF GenOK
<1>7. \A v \in Vers : VerFits(ver[v])' /\ Sees(ver[v], head)'
  BY DEF IInv
<1> QED BY <1>4, <1>6, <1>7 DEF IInv

LEMMA VerStep ==
    ASSUME IInv, NEW v \in Vers, NEW r, VerOK(r), ver' = [ver EXCEPT ![v] = r],
           UNCHANGED <<head, gen>>
    PROVE  IInv'
<1>1. ver' \in [Vers -> VerType]
  BY DEF IInv, TypeOK, VerOK
<1>2. \A w \in Vers : ver'[w] = IF w = v THEN r ELSE ver[w]
  BY DEF IInv, TypeOK
<1>3. \A w \in Vers : VerOK(ver'[w])
  BY <1>2, CallsOK
<1>4. \A w \in Vers : ver'[w].pc = "refs" => Len(ver'[w].fetched) < Len(ver'[w].userdata.blocks)
  BY <1>3 DEF VerOK, VerFits
<1>5. TypeOK'
  BY <1>1, <1>4 DEF IInv, TypeOK
<1>7. \A w \in Vers : VerFits(ver'[w]) /\ Sees(ver'[w], head')
  BY <1>3 DEF VerOK
<1>8. \A g \in Gens : GenFits(gen[g])'
  BY DEF IInv
<1> QED BY <1>5, <1>7, <1>8 DEF IInv

-----------------------------------------------------------------------------
(* generate_attestation *)

\* The head of a chain is a block.
LEMMA BlockTyped ==
    ASSUME IInv, NEW chain \in Chains
    PROVE  Block(chain) \in BlockType
BY DEF IInv, TypeOK, Block, BlockType

\* A generation that failed keeps nothing.
LEMMA FailedOk == NoGen \in GenType /\ GenOK([NoGen EXCEPT !.pc = "failed"])
<1> DEFINE s == [NoGen EXCEPT !.pc = "failed"]
<1>1. NoGen \in GenType
  BY DEF NoGen, GenType
<1>2. s.pc = "failed" /\ s.blocks = <<>>
  BY DEF NoGen
<1>3. s \in GenType
  BY <1>1 DEF GenType
<1> HIDE DEF s
<1>4. GenOK(s)
  BY <1>2, <1>3, FreshnessAssumption DEF GenOK, GenFits
<1> QED BY <1>1, <1>4 DEF s

LEMMA GenBeginStep ==
    ASSUME IInv, NEW g \in Gens, NEW node \in Nodes, GenBegin(g, node)
    PROVE  IInv'
<1>1. gen[g] = NoGen /\ gen \in [Gens -> GenType] /\ GenOK(gen[g])
  BY CallsOK DEF GenBegin, NextCall, IInv, TypeOK, GenFits
<1>2. CASE gen' = [gen EXCEPT ![g].pc = "failed"]
  <2>1. gen' = [gen EXCEPT ![g] = [NoGen EXCEPT !.pc = "failed"]]
    BY <1>1, <1>2
  <2>2. GenOK([NoGen EXCEPT !.pc = "failed"])
    BY FailedOk
  <2> QED BY <2>1, <2>2, GenStep DEF GenBegin
<1>3. ASSUME NEW k \in 1..Len(Priority),
             gen' = [gen EXCEPT ![g].node = node, ![g].provider = Priority[k],
                                ![g].pc = IF node.enabled THEN "fetch" ELSE "sign"]
      PROVE  IInv'
  <2> DEFINE r == [NoGen EXCEPT !.node = node, !.provider = Priority[k],
                                !.pc = IF node.enabled THEN "fetch" ELSE "sign"]
  <2>1. gen' = [gen EXCEPT ![g] = r]
    BY <1>1, <1>3
  <2>2. Priority[k] \in Platforms
    BY <1>3 DEF Priority, Platforms
  <2>3. /\ r.pc \in {"fetch", "sign"} /\ r.node = node /\ r.provider = Priority[k]
        /\ r.index = 1 /\ r.blocks = <<>>
    BY DEF NoGen
  <2>4. NoGen \in GenType
    BY <1>1
  <2>5. r \in GenType
    BY <2>2, <2>4 DEF GenType
  <2> HIDE DEF r
  <2>6. GenFits(r)
    BY <2>2, <2>3 DEF GenFits
  <2>7. Len(RequiredChains) \in Nat
    BY FreshnessAssumption
  <2>8. GenOK(r)
    BY <2>3, <2>5, <2>6, <2>7 DEF GenOK
  <2> QED BY <2>1, <2>8, GenStep DEF GenBegin
<1> QED BY <1>2, <1>3 DEF GenBegin

\* The record of a generation that goes on to sign.
LEMMA GenToSign ==
    ASSUME NEW r \in GenType, NEW b \in Seq(BlockType)
    PROVE [r EXCEPT !.blocks = b, !.index = 1, !.pc = "sign"] \in GenType
<1>1. PICK s \in GenType : s = [r EXCEPT !.blocks = b]
  BY DEF GenType
<1>2. PICK n \in Nat \ {0} : n = 1
  OBVIOUS
<1>3. PICK t \in GenType : t = [s EXCEPT !.index = n]
  BY DEF GenType
<1>4. PICK u \in GenType : u = [t EXCEPT !.pc = "sign"]
  BY DEF GenType
<1>5. u = [r EXCEPT !.blocks = b, !.index = 1, !.pc = "sign"]
  BY <1>1, <1>2, <1>3, <1>4 DEF GenType
<1> QED BY <1>5

\* The end of the fetches.
LEMMA FetchedOk ==
    ASSUME NEW r \in GenType, r.node \in Nodes, r.provider \in Platforms,
           Len(r.blocks) <= Len(RequiredChains)
    PROVE  GenOK(Fetched(r))
<1> DEFINE b == IF Len(r.blocks) < MinBlocks THEN <<>> ELSE r.blocks
           s == [r EXCEPT !.blocks = b, !.index = 1, !.pc = "sign"]
<1>0. Fetched(r) = s
  BY DEF Fetched
<1>2. b \in Seq(BlockType) /\ Len(b) <= Len(RequiredChains)
  BY FreshnessAssumption DEF GenType
<1> HIDE DEF b
<1>1. s.pc = "sign" /\ s.node = r.node /\ s.provider = r.provider /\ s.blocks = b
  BY DEF GenType
<1>3. s \in GenType
  BY <1>2, GenToSign
<1> HIDE DEF s
<1>4. GenFits(s)
  BY <1>1 DEF GenFits
<1> QED BY <1>0, <1>1, <1>2, <1>3, <1>4 DEF GenOK

LEMMA GenFetchStep ==
    ASSUME IInv, NEW g \in Gens, GenFetch(g)
    PROVE  IInv'
<1> DEFINE r == gen[g]
           next == [r EXCEPT !.index = @ + 1]
           After(s) == IF s.index > Len(RequiredChains) THEN Fetched(s) ELSE s
           block == Block(RequiredChains[r.index])
           got == [next EXCEPT !.blocks = Append(@, block)]
<1>1. r \in GenType /\ GenOK(r) /\ r.pc = "fetch" /\ r.index <= Len(RequiredChains)
  BY CallsOK DEF GenFetch, IInv, TypeOK
<1>2. gen' = [gen EXCEPT ![g] = After(got)] \/ gen' = [gen EXCEPT ![g] = After(next)]
  BY DEF GenFetch
<1>3. RequiredChains[r.index] \in Chains
  BY <1>1, FreshnessAssumption DEF Chains, GenType
<1>4. block \in BlockType
  BY <1>3, BlockTyped
<1> HIDE DEF r, block
<1>5. /\ r.index \in Nat \ {0} /\ r.blocks \in Seq(BlockType) /\ Len(RequiredChains) \in Nat
      /\ Len(r.blocks) < r.index /\ r.node \in Nodes /\ r.provider \in Platforms
  BY <1>1, FreshnessAssumption DEF GenType, GenOK, GenFits
<1>6. /\ next \in GenType /\ next.pc = "fetch" /\ next.node = r.node
      /\ next.provider = r.provider /\ next.index = r.index + 1 /\ next.blocks = r.blocks
  BY <1>1, <1>5 DEF GenType
<1> HIDE DEF next
<1>7. /\ got.pc = "fetch" /\ got.node = r.node
      /\ got.provider = r.provider /\ got.index = r.index + 1
      /\ got.blocks = Append(r.blocks, block)
  BY <1>6 DEF GenType
<1>8. next \in GenType /\ got \in GenType
  <2>1. Append(next.blocks, block) \in Seq(BlockType)
    BY <1>4, <1>5, <1>6
  <2> QED BY <1>6, <2>1 DEF GenType
<1> HIDE DEF got
<1>9. Len(next.blocks) < next.index /\ Len(got.blocks) < got.index
  BY <1>4, <1>5, <1>6, <1>7
<1>10. Len(next.blocks) <= Len(RequiredChains) /\ Len(got.blocks) <= Len(RequiredChains)
  BY <1>1, <1>4, <1>5, <1>6, <1>7
<1>11. GenFits(next) /\ GenFits(got)
  BY <1>5, <1>6, <1>7, <1>9 DEF GenFits
<1>12. GenOK(next) /\ GenOK(got)
  BY <1>8, <1>10, <1>11 DEF GenOK
<1>13. GenOK(Fetched(next)) /\ GenOK(Fetched(got))
  <2>1. next.node \in Nodes /\ next.provider \in Platforms
    BY <1>5, <1>6
  <2>2. got.node \in Nodes /\ got.provider \in Platforms
    BY <1>5, <1>7
  <2> QED BY <1>8, <1>10, <2>1, <2>2, FetchedOk
<1>14. GenOK(After(next)) /\ GenOK(After(got))
  BY <1>12, <1>13
<1> HIDE DEF After
<1>15. UNCHANGED <<head, ver>>
  BY DEF GenFetch
<1> QED BY <1>2, <1>14, <1>15, GenStep

LEMMA GenTimeoutStep ==
    ASSUME IInv, NEW g \in Gens, GenTimeout(g)
    PROVE  IInv'
<1> DEFINE r == [gen[g] EXCEPT !.blocks = <<>>, !.index = 1, !.pc = "sign"]
<1>1. gen \in [Gens -> GenType] /\ GenOK(gen[g]) /\ gen[g].pc = "fetch"
  BY CallsOK DEF GenTimeout, IInv, TypeOK
<1>4. gen' = [gen EXCEPT ![g] = r]
  BY <1>1 DEF GenTimeout
<1>2. /\ r.pc = "sign" /\ r.node = gen[g].node /\ r.provider = gen[g].provider
      /\ r.blocks = <<>>
  BY <1>1 DEF GenType
<1>5. gen[g] \in GenType /\ gen[g].node \in Nodes /\ gen[g].provider \in Platforms
  BY <1>1 DEF GenOK, GenFits
<1>6. r \in GenType
  <2>1. <<>> \in Seq(BlockType)
    OBVIOUS
  <2> QED BY <1>5, <2>1, GenToSign
<1> HIDE DEF r
<1>7. GenFits(r)
  BY <1>2, <1>5 DEF GenFits
<1>8. GenOK(r)
  BY <1>2, <1>6, <1>7, FreshnessAssumption DEF GenOK
<1> QED BY <1>4, <1>8, GenStep DEF GenTimeout

\* A generation that has its evidence.
LEMMA SignedOk ==
    ASSUME NEW r \in GenType, GenOK(r), r.pc = "sign", NEW q \in Quotes \cup {None},
           r.provider = "tdx" => q # None
    PROVE  GenOK([r EXCEPT !.evidence =
                     [platform |-> r.provider, quote |-> q,
                      report_data |-> [key |-> r.node.key, blocks |-> r.blocks],
                      key |-> r.node.key],
                   !.pc = "done"])
<1> DEFINE u == [key |-> r.node.key, blocks |-> r.blocks]
           e == [platform |-> r.provider, quote |-> q, report_data |-> u, key |-> r.node.key]
           s == [r EXCEPT !.evidence = e, !.pc = "done"]
<1>1. r.node \in Nodes /\ r.provider \in Platforms /\ r.blocks \in Seq(BlockType)
  BY DEF GenOK, GenFits, GenType
<1>2. r.node.key \in Keys
  BY <1>1 DEF Keys
<1>3. u \in UserDataType
  BY <1>1, <1>2 DEF UserDataType
<1>4. u.key = r.node.key
  OBVIOUS
<1> HIDE DEF u
<1>5. e \in EvidenceType /\ e.key = e.report_data.key /\ e.report_data = u
  BY <1>1, <1>2, <1>3, <1>4 DEF EvidenceType
<1>6. Made(e)
  BY <1>5 DEF Made
<1> HIDE DEF e
<1>7. /\ s.pc = "done" /\ s.node = r.node /\ s.provider = r.provider
      /\ s.blocks = r.blocks /\ s.evidence = e
  BY DEF GenType
<1>8. s \in GenType
  BY <1>5 DEF GenType
<1> HIDE DEF s
<1>9. s.evidence.report_data = [key |-> s.node.key, blocks |-> s.blocks]
  BY <1>5, <1>7 DEF u
<1>10. GenFits(s)
  BY <1>1, <1>6, <1>7, <1>9 DEF GenFits
<1>11. GenOK(s)
  BY <1>7, <1>8, <1>10 DEF GenOK
<1> QED BY <1>11 DEF s, e, u

LEMMA GenSignStep ==
    ASSUME IInv, NEW g \in Gens, GenSign(g)
    PROVE  IInv'
<1> DEFINE Signed(q) == [gen[g] EXCEPT !.evidence =
                     [platform |-> gen[g].provider, quote |-> q,
                      report_data |-> [key |-> gen[g].node.key, blocks |-> gen[g].blocks],
                      key |-> gen[g].node.key],
                   !.pc = "done"]
<1>1. gen \in [Gens -> GenType] /\ GenOK(gen[g]) /\ gen[g].pc = "sign" /\ gen[g] \in GenType
  BY CallsOK DEF GenSign, IInv, TypeOK
<1>2. gen[g].node \in Nodes /\ gen[g].node.quote \in Quotes
  BY <1>1 DEF GenOK, GenFits, Quotes
<1>3. CASE gen[g].provider = "null"
  <2>1. gen' = [gen EXCEPT ![g] = Signed(None)]
    BY <1>1, <1>3 DEF GenSign, UserData
  <2>2. GenOK(Signed(None))
    BY <1>1, <1>3, SignedOk
  <2> HIDE DEF Signed
  <2> QED BY <2>1, <2>2, GenStep DEF GenSign
<1>4. CASE gen[g].provider # "null"
  <2>1. PICK q \in GenerateQuote(gen[g].node.quote) :
           gen' = [gen EXCEPT ![g] = IF q = None THEN [NoGen EXCEPT !.pc = "failed"]
                                     ELSE Signed(q)]
    BY <1>1, <1>4 DEF GenSign, UserData
  <2>2. CASE q = None
    <3>1. GenOK([NoGen EXCEPT !.pc = "failed"])
      BY FailedOk
    <3> HIDE DEF Signed
    <3> QED BY <2>1, <2>2, <3>1, GenStep DEF GenSign
  <2>3. CASE q # None
    <3>1. q \in Quotes
      BY <1>2, <2>1, <2>3 DEF GenerateQuote, QuoteViaTsm, QuoteViaLegacy
    <3>2. GenOK(Signed(q))
      BY <1>1, <2>3, <3>1, SignedOk
    <3> HIDE DEF Signed
    <3> QED BY <2>1, <2>3, <3>2, GenStep DEF GenSign
  <2> QED BY <2>2, <2>3
<1> QED BY <1>3, <1>4
-----------------------------------------------------------------------------
(* verify_attestation *)

LEMMA VerBeginStep ==
    ASSUME IInv, NEW v \in Vers, NEW g \in Gens, NEW h \in Gens, NEW label \in Labels,
           NEW enabled \in BOOLEAN, VerBegin(v, g, h, label, enabled)
    PROVE  IInv'
<1> DEFINE heads == {Block(chain) : chain \in Chains}
           pc == IF label \in Platforms THEN "provider" ELSE "rejected"
           r == [NoVer EXCEPT !.enabled = enabled, !.label = label,
                              !.evidence = gen[g].evidence, !.userdata = UserData(h),
                              !.pc = pc, !.current = heads]
<1>1. /\ ver[v] = NoVer /\ ver \in [Vers -> VerType]
      /\ gen[g].pc = "done" /\ gen[h].pc = "done"
  BY DEF VerBegin, NextCall, IInv, TypeOK, VerFits
<1>2. ver' = [ver EXCEPT ![v] = r]
  BY <1>1, ProvidersAssumption DEF VerBegin
<1>3. Made(gen[g].evidence) /\ Made(gen[h].evidence) /\ gen[h].evidence.report_data = UserData(h)
  BY <1>1 DEF IInv, GenFits, UserData
<1>4. gen[g].evidence \in EvidenceType /\ UserData(h) \in UserDataType
  BY <1>3 DEF Made, EvidenceType
<1>5. heads \in SUBSET BlockType
  BY BlockTyped
<1> HIDE DEF heads, pc
<1>6. /\ r.pc = pc /\ r.label = label /\ r.evidence = gen[g].evidence /\ r.userdata = UserData(h)
      /\ r.fetched = <<>> /\ r.fault = FALSE /\ r.index = 1 /\ r.current = heads
  BY DEF NoVer
<1>7. r \in VerType
  <2>1. PICK s \in VerType : s = [NoVer EXCEPT !.enabled = enabled]
    BY <1>1 DEF VerType
  <2>0. PICK l \in VerType : l = [s EXCEPT !.label = label]
    BY DEF VerType
  <2>2. PICK t \in VerType : t = [l EXCEPT !.evidence = gen[g].evidence]
    BY <1>4 DEF VerType
  <2>3. PICK u \in VerType : u = [t EXCEPT !.userdata = UserData(h)]
    BY <1>4 DEF VerType
  <2>4. PICK w \in VerType : w = [u EXCEPT !.pc = pc]
    BY DEF VerType, pc
  <2>5. PICK x \in VerType : x = [w EXCEPT !.current = heads]
    BY <1>5 DEF VerType
  <2>6. x = r
    BY <2>0, <2>1, <2>2, <2>3, <2>4, <2>5 DEF VerType
  <2> QED BY <2>6
<1> HIDE DEF r
<1>8. VerFits(r)
  <2>1. CASE label \in Platforms
    BY <1>3, <1>4, <1>6, <2>1 DEF VerFits, pc
  <2>2. CASE label \notin Platforms
    <3>1. Unfit(r)
      BY <1>4, <1>6, <2>2 DEF Unfit, EvidenceType
    <3>2. Caused(r)
      BY <3>1 DEF Caused
    <3> QED BY <1>3, <1>4, <1>6, <2>2, <3>2 DEF VerFits, pc
  <2> QED BY <2>1, <2>2
<1>9. Sees(r, head)
  BY <1>6 DEF Sees, heads, Block
<1> QED BY <1>2, <1>7, <1>8, <1>9, VerStep DEF VerBegin, VerOK

\* What the verdict of a provider says.
VerdictSays(r, result, fault) ==
    /\ result \in {"Verified", "Failed", "Unsupported"}
    /\ result = "Verified" => Verified(r)
    /\ (result = "Failed" /\ r.evidence.report_data = r.userdata) => fault \/ Unfit(r)
    /\ result = "Unsupported" => fault \/ Unfit(r)

LEMMA Verdicts ==
    ASSUME NEW r \in VerType, VerFits(r), r.pc = "provider", NEW collateral \in BOOLEAN,
           ~(r.index > Len(Providers[r.label])),
           NEW result \in VerifyWith(Providers[r.label][r.index], r.evidence, r.userdata, collateral)
    PROVE  VerdictSays(r, result, r.fault \/ ~collateral)
<1> DEFINE provider == Providers[r.label][r.index]
           fault == r.fault \/ ~collateral
<1>1. /\ r.evidence \in EvidenceType /\ r.evidence.key = r.evidence.report_data.key
      /\ r.index \in Nat \ {0} /\ r.fault \in BOOLEAN /\ r.label \in {"tdx", "null"}
  BY DEF VerFits, VerType, Made, Platforms
<1>2. r.index \in 1..Len(Providers[r.label])
  BY <1>1, ProvidersAssumption DEF Platforms
<1>3. CASE r.label = "null"
  <2>1. provider = "null"
    BY <1>2, <1>3, ProvidersAssumption
  <2>2. result \in VerifyNull(r.evidence, r.userdata)
    BY <2>1 DEF VerifyWith
  <2>3. CASE /\ r.evidence.platform = "null" /\ r.evidence.report_data = r.userdata
             /\ r.evidence.key = r.userdata.key
    <3>1. result = "Verified"
      BY <2>2, <2>3 DEF VerifyNull
    <3> QED BY <1>3, <2>3, <3>1 DEF VerdictSays, Verified
  <2>4. CASE ~(/\ r.evidence.platform = "null" /\ r.evidence.report_data = r.userdata
               /\ r.evidence.key = r.userdata.key)
    <3>1. result = "Failed"
      BY <2>2, <2>4 DEF VerifyNull
    <3>2. r.evidence.report_data = r.userdata => r.evidence.platform # "null"
      BY <1>1, <2>4
    <3> QED BY <1>3, <3>1, <3>2 DEF VerdictSays, Unfit
  <2> QED BY <2>3, <2>4
<1>4. CASE r.label = "tdx"
  <2>1. provider = "qvl"
    BY <1>2, <1>4, ProvidersAssumption
  <2>2. result \in VerifyQvl(r.evidence, r.userdata, collateral)
    BY <2>1 DEF VerifyWith
  <2>3. PICK error \in QvlError(r.evidence, collateral) :
           result = IF error # "Ok" THEN error
                    ELSE IF r.evidence.report_data # r.userdata THEN "Failed" ELSE "Verified"
    BY <2>2 DEF VerifyQvl
  <2>4. CASE r.evidence.platform # "tdx" \/ ~r.evidence.quote.readable
    <3>1. error = "Unsupported" /\ Unfit(r)
      BY <1>4, <2>3, <2>4 DEF QvlError, Unfit
    <3> QED BY <2>3, <3>1 DEF VerdictSays
  <2>5. CASE /\ ~(r.evidence.platform # "tdx" \/ ~r.evidence.quote.readable)
             /\ ~collateral \/ ~r.evidence.quote.genuine
    <3>1. error \in {"Failed", "Unsupported"} /\ (fault \/ Unfit(r))
      BY <1>4, <2>3, <2>5 DEF QvlError, Unfit
    <3> QED BY <2>3, <3>1 DEF VerdictSays
  <2>6. CASE /\ ~(r.evidence.platform # "tdx" \/ ~r.evidence.quote.readable)
             /\ ~(~collateral \/ ~r.evidence.quote.genuine)
    <3>1. error = "Ok"
      BY <2>3, <2>6 DEF QvlError
    <3>2. result = IF r.evidence.report_data # r.userdata THEN "Failed" ELSE "Verified"
      BY <2>3, <3>1
    <3> QED BY <1>4, <2>6, <3>2 DEF VerdictSays, Verified
  <2> QED BY <2>4, <2>5, <2>6
<1> QED BY <1>1, <1>3, <1>4

\* What a provider that verified the evidence says of it.
LEMMA ClaimsTyped ==
    ASSUME NEW e, Made(e), NEW u \in UserDataType
    PROVE  NullClaims(u) \in ClaimsType /\ (e.platform = "tdx" => Claims(e) \in ClaimsType)
<1>1. NullClaims(u) \in ClaimsType
  BY DEF NullClaims, ClaimsType
<1>2. ASSUME e.platform = "tdx" PROVE Claims(e) \in ClaimsType
  <2>1. e.quote \in Quotes \ {None} /\ e.report_data \in UserDataType
    BY <1>2 DEF Made, EvidenceType
  <2>2. e.quote.mrtd \in {q.mrtd : q \in Quotes \ {None}} \cup {None}
    BY <2>1
  <2>3. (IF DebugEnabled(e.quote) THEN 4 ELSE 0) \in {0, 4}
    OBVIOUS
  <2> QED BY <2>1, <2>2, <2>3 DEF Claims, ClaimsType
<1> QED BY <1>1, <1>2

\* A proof holds as many blocks as one byte can count.
LEMMA ByteCount == ASSUME NEW m \in Nat, m \in 0..255 PROVE m % 256 = m
OBVIOUS

LEMMA ProofHolds ==
    ASSUME NEW blocks \in Seq(BlockType), ~ProofStructure(blocks)
    PROVE  Len(blocks) \notin MinBlocks..255
<1>1. PICK m \in Nat : m = Len(blocks)
  OBVIOUS
<1>2. Len(References(blocks)) = m
  BY <1>1 DEF References
<1>3. ~(m >= MinBlocks) \/ m % 256 # m
  BY <1>1, <1>2 DEF ProofStructure, ReferenceCount
<1>4. m \in 0..255 => m % 256 = m
  BY <1>1, ByteCount
<1>5. PICK b \in Nat : b = MinBlocks
  BY FreshnessAssumption
<1>6. m \notin b..255
  <2>1. ~(m >= b) \/ m \notin 0..255
    BY <1>3, <1>4, <1>5
  <2> QED BY <2>1
<1> QED BY <1>1, <1>5, <1>6

\* The verdict is followed by the checks of the blocks.
LEMMA VerifiedOk ==
    ASSUME NEW r \in VerType, VerFits(r), Sees(r, head), r.pc = "provider",
           NEW fault \in BOOLEAN, Verified(r)
    PROVE  VerOK(CheckFreshness(WithClaims([r EXCEPT !.fault = fault])))
<1> DEFINE claims == IF r.label = "null" THEN NullClaims(r.userdata)
                     ELSE Claims(r.evidence)
           n == [r EXCEPT !.fault = fault]
           w == WithClaims(n)
           Ended(p) == [w EXCEPT !.pc = p]
<1>1. Made(r.evidence) /\ r.userdata \in UserDataType /\ r.fetched = <<>>
  BY DEF VerFits
<1>2. r.label = r.evidence.platform /\ r.label \in {"tdx", "null"}
  BY DEF VerFits, Platforms, Verified
<1>3. claims \in ClaimsType
  BY <1>1, <1>2, ClaimsTyped
<1>4. /\ claims.eat_nonce = r.userdata
      /\ r.label = "tdx" =>
            claims.eat_profile = "tdx-v1" /\ claims.measurement = r.evidence.quote.mrtd
      /\ r.label # "tdx" => claims.eat_profile = "null-v1"
  BY <1>2 DEF Claims, NullClaims, Verified
<1> HIDE DEF claims
<1>5. /\ n \in VerType /\ n.pc = r.pc /\ n.enabled = r.enabled /\ n.evidence = r.evidence
      /\ n.label = r.label
      /\ n.userdata = r.userdata /\ n.fetched = r.fetched /\ n.current = r.current
      /\ n.fault = fault
  BY DEF VerType
<1> HIDE DEF n
<1>6. w = [n EXCEPT !.claims = claims]
  BY <1>5 DEF WithClaims, claims
<1> HIDE DEF w
<1>7. /\ w \in VerType /\ w.pc = r.pc /\ w.enabled = r.enabled /\ w.evidence = r.evidence
      /\ w.label = r.label
      /\ w.userdata = r.userdata /\ w.fetched = r.fetched /\ w.current = r.current
      /\ w.fault = fault /\ w.claims = claims
  BY <1>3, <1>5, <1>6 DEF VerType
<1>8. ASSUME NEW p \in {"refs", "accepted", "rejected"}
      PROVE  /\ Ended(p) \in VerType /\ Ended(p).pc = p /\ Ended(p).enabled = r.enabled
             /\ Ended(p).evidence = r.evidence /\ Ended(p).label = r.label
             /\ Ended(p).userdata = r.userdata /\ Ended(p).fetched = r.fetched
             /\ Ended(p).current = r.current
             /\ Ended(p).fault = fault /\ Ended(p).claims = claims
  BY <1>7 DEF VerType
<1> HIDE DEF Ended
<1>9. ASSUME NEW p \in {"refs", "accepted", "rejected"}
      PROVE  Bound(Ended(p)) /\ Sees(Ended(p), head)
  <2>1. Bound(Ended(p))
    BY <1>4, <1>8, <1>9 DEF Bound, Verified
  <2>2. Sees(Ended(p), head)
    BY <1>8, <1>9 DEF Sees
  <2> QED BY <2>1, <2>2
<1>10. r.userdata.blocks \in Seq(BlockType) /\ r.enabled \in BOOLEAN
  BY <1>1 DEF UserDataType, VerType
<1>13. ASSUME ~r.enabled PROVE VerOK(Ended("accepted"))
  BY <1>1, <1>3, <1>8, <1>9, <1>13 DEF VerOK, VerFits, Fresh
<1>14. ASSUME r.enabled, r.userdata.blocks = <<>> \/ Len(r.userdata.blocks) \notin MinBlocks..255
       PROVE  VerOK(Ended("rejected"))
  <2>1. Caused(Ended("rejected"))
    BY <1>8, <1>14 DEF Caused
  <2> QED BY <1>1, <1>8, <1>9, <2>1 DEF VerOK, VerFits
<1>15. ASSUME r.enabled, r.userdata.blocks # <<>>, ProofStructure(r.userdata.blocks)
       PROVE  VerOK(Ended("refs"))
  <2>1. Len(r.userdata.blocks) >= MinBlocks /\ 0 < Len(r.userdata.blocks)
    BY <1>10, <1>15 DEF ProofStructure
  <2>2. FetchedOK(Ended("refs")) /\ Len(Ended("refs").fetched) = 0
    BY <1>1, <1>8 DEF FetchedOK
  <2> QED BY <1>1, <1>3, <1>8, <1>9, <1>15, <2>1, <2>2 DEF VerOK, VerFits
<1>16. ASSUME ~ProofStructure(r.userdata.blocks) PROVE Len(r.userdata.blocks) \notin MinBlocks..255
  BY <1>10, <1>16, ProofHolds
<1>17. CheckFreshness(w) =
          IF r.userdata.blocks = <<>> THEN Ended(IF r.enabled THEN "rejected" ELSE "accepted")
          ELSE IF ~r.enabled THEN Ended("accepted")
          ELSE IF ~ProofStructure(r.userdata.blocks) THEN Ended("rejected") ELSE Ended("refs")
  BY <1>7 DEF CheckFreshness, Ended
<1>18. VerOK(CheckFreshness(w))
  <2>1. CASE ~r.enabled
    <3>1. CheckFreshness(w) = Ended("accepted")
      BY <1>17, <2>1
    <3> QED BY <1>13, <2>1, <3>1
  <2>2. CASE r.enabled /\ (r.userdata.blocks = <<>> \/ ~ProofStructure(r.userdata.blocks))
    <3>1. CheckFreshness(w) = Ended("rejected")
      BY <1>17, <2>2
    <3> QED BY <1>14, <1>16, <2>2, <3>1
  <2>3. CASE r.enabled /\ r.userdata.blocks # <<>> /\ ProofStructure(r.userdata.blocks)
    <3>1. CheckFreshness(w) = Ended("refs")
      BY <1>17, <2>3
    <3> QED BY <1>15, <2>3, <3>1
  <2> QED BY <2>1, <2>2, <2>3
<1> QED BY <1>18 DEF w, n

LEMMA VerProviderStep ==
    ASSUME IInv, NEW v \in Vers, VerProvider(v)
    PROVE  IInv'
<1> DEFINE r == ver[v]
           chain == Providers[r.label]
<1>1. r \in VerType /\ VerFits(r) /\ Sees(r, head) /\ r.pc = "provider" /\ ver \in [Vers -> VerType]
  BY DEF VerProvider, IInv, TypeOK
<1>2. /\ Made(r.evidence) /\ r.userdata \in UserDataType /\ r.fetched = <<>>
      /\ r.label \in Platforms /\ (r.index # 1 => r.fault \/ Unfit(r))
      /\ r.fault \in BOOLEAN /\ r.index \in Nat \ {0}
  BY <1>1 DEF VerFits, VerType
<1>3. UNCHANGED <<head, gen>>
  BY DEF VerProvider
<1>4. CASE r.index > Len(chain)
  <2> DEFINE s == [r EXCEPT !.pc = "rejected"]
  <2>1. ver' = [ver EXCEPT ![v] = s]
    BY <1>1, <1>4 DEF VerProvider
  <2>2. r.fault \/ Unfit(r)
    <3>2. Len(chain) \in Nat \ {0}
      BY <1>2, ProvidersAssumption
    <3> HIDE DEF chain, r
    <3> QED BY <1>2, <1>4, <3>2
  <2> HIDE DEF r
  <2>3. /\ s \in VerType /\ s.pc = "rejected" /\ s.evidence = r.evidence
        /\ s.userdata = r.userdata /\ s.fault = r.fault /\ s.label = r.label
    BY <1>1 DEF VerType
  <2> HIDE DEF s
  <2>5. Caused(s)
    BY <2>2, <2>3 DEF Caused, Unfit
  <2>4. VerOK(s)
    BY <1>2, <2>3, <2>5 DEF VerOK, VerFits, Sees
  <2> QED BY <1>3, <2>1, <2>4, VerStep
<1>5. CASE ~(r.index > Len(chain))
  <2>1. PICK collateral \in BOOLEAN :
           \E result \in VerifyWith(chain[r.index], r.evidence, r.userdata, collateral) :
              LET n == [r EXCEPT !.fault = @ \/ ~collateral] IN
              ver' = [ver EXCEPT ![v] =
                        CASE result = "Verified" -> CheckFreshness(WithClaims(n))
                          [] result = "Failed" -> [n EXCEPT !.pc = "rejected"]
                          [] OTHER -> [n EXCEPT !.index = @ + 1]]
    BY <1>5 DEF VerProvider
  <2> DEFINE fault == r.fault \/ ~collateral
             n == [r EXCEPT !.fault = fault]
  <2>0. PICK result \in VerifyWith(chain[r.index], r.evidence, r.userdata, collateral) :
           ver' = [ver EXCEPT ![v] =
                     CASE result = "Verified" -> CheckFreshness(WithClaims(n))
                       [] result = "Failed" -> [n EXCEPT !.pc = "rejected"]
                       [] OTHER -> [n EXCEPT !.index = @ + 1]]
    BY <2>1
  <2>2. fault \in BOOLEAN
    BY <1>2
  <2>3. VerdictSays(r, result, fault)
    <3> HIDE DEF r
    <3> QED BY <1>1, <1>5, Verdicts
  <2>5. /\ n \in VerType /\ n.pc = r.pc /\ n.evidence = r.evidence /\ n.index = r.index
        /\ n.userdata = r.userdata /\ n.fetched = r.fetched /\ n.current = r.current
        /\ n.fault = fault /\ n.label = r.label
    BY <1>1, <2>2 DEF VerType
  <2>6. CASE result = "Verified"
    <3>1. VerOK(CheckFreshness(WithClaims(n)))
      <4> HIDE DEF r, fault
      <4>1. Verified(r)
        BY <2>3, <2>6 DEF VerdictSays
      <4> QED BY <1>1, <2>2, <4>1, VerifiedOk
    <3>2. ver' = [ver EXCEPT ![v] = CheckFreshness(WithClaims(n))]
      BY <2>0, <2>6
    <3> HIDE DEF r, n
    <3> QED BY <1>3, <3>1, <3>2, VerStep
  <2>7. CASE result = "Unsupported"
    <3> DEFINE s == [n EXCEPT !.index = @ + 1]
    <3>1. ver' = [ver EXCEPT ![v] = s]
      BY <2>0, <2>7
    <3>2. fault \/ Unfit(r)
      BY <2>3, <2>7 DEF VerdictSays
    <3> HIDE DEF r, fault, n
    <3>3. n.index + 1 \in Nat \ {0} /\ n.index + 1 # 1
      BY <1>2, <2>5
    <3>4. /\ s \in VerType /\ s.pc = r.pc /\ s.evidence = r.evidence /\ s.userdata = r.userdata
          /\ s.fetched = r.fetched /\ s.current = r.current /\ s.fault = fault
          /\ s.index = n.index + 1 /\ s.label = r.label
      BY <2>5, <3>3 DEF VerType
    <3> HIDE DEF s
    <3>5. VerFits(s)
      BY <1>1, <1>2, <3>2, <3>3, <3>4 DEF VerFits, Unfit
    <3>6. Sees(s, head)
      BY <1>1, <3>4 DEF Sees
    <3>7. VerOK(s)
      BY <3>4, <3>5, <3>6 DEF VerOK
    <3> QED BY <1>3, <3>1, <3>7, VerStep
  <2>8. CASE result = "Failed"
    <3> DEFINE s == [n EXCEPT !.pc = "rejected"]
    <3>1. ver' = [ver EXCEPT ![v] = s]
      BY <2>0, <2>8
    <3> HIDE DEF r, fault, n
    <3>2. /\ s \in VerType /\ s.pc = "rejected" /\ s.evidence = r.evidence
          /\ s.userdata = r.userdata /\ s.fault = fault /\ s.label = r.label
      BY <2>5 DEF VerType
    <3> HIDE DEF s
    <3>3. Caused(s)
      BY <2>3, <2>8, <3>2 DEF Caused, VerdictSays, Unfit
    <3>4. VerOK(s)
      BY <1>2, <3>2, <3>3 DEF VerOK, VerFits, Sees
    <3> QED BY <1>3, <3>1, <3>4, VerStep
  <2> QED BY <2>3, <2>6, <2>7, <2>8 DEF VerdictSays
<1> QED BY <1>4, <1>5

LEMMA VerFetchStep ==
    ASSUME IInv, NEW v \in Vers, VerFetch(v)
    PROVE  IInv'
<1> DEFINE r == ver[v]
           blocks == r.userdata.blocks
           block == Block(References(blocks)[Len(r.fetched) + 1])
           got == Append(r.fetched, block)
           verdict == IF MerkleRoot(got) = MerkleRoot(blocks) THEN "accepted" ELSE "rejected"
           Ended(p) == [r EXCEPT !.fetched = got, !.pc = p]
<1>1. r \in VerType /\ VerFits(r) /\ Sees(r, head) /\ r.pc = "refs" /\ ver \in [Vers -> VerType]
  BY DEF VerFetch, IInv, TypeOK
<1>2. UNCHANGED <<head, gen>>
  BY DEF VerFetch
<1>3. \/ ver' = [ver EXCEPT ![v] = Ended(IF Len(got) < Len(blocks) THEN "refs" ELSE verdict)]
      \/ ver' = [ver EXCEPT ![v] = [r EXCEPT !.fault = TRUE, !.pc = "rejected"]]
  BY <1>1 DEF VerFetch
<1> HIDE DEF r
<1>4. /\ Made(r.evidence) /\ r.userdata \in UserDataType /\ r.claims \in ClaimsType /\ Bound(r)
      /\ r.enabled /\ Len(blocks) >= MinBlocks /\ Len(r.fetched) < Len(blocks) /\ FetchedOK(r)
  BY <1>1 DEF VerFits
<1>5. blocks \in Seq(BlockType) /\ r.fetched \in Seq(BlockType)
  BY <1>1, <1>4 DEF UserDataType, VerType
<1>6. Len(r.fetched) + 1 \in 1..Len(blocks)
  BY <1>4, <1>5
<1>7. blocks[Len(r.fetched) + 1].chain \in Chains
  <2>1. blocks[Len(r.fetched) + 1] \in BlockType
    BY <1>5, <1>6
  <2> QED BY <2>1 DEF BlockType
<1>8. block = Block(blocks[Len(r.fetched) + 1].chain)
  BY <1>6 DEF References
<1>9. block \in BlockType
  BY <1>7, <1>8, BlockTyped
<1>10. block \in r.current
  BY <1>1, <1>7, <1>8 DEF Sees, Block
<1>11. block.chain = blocks[Len(r.fetched) + 1].chain
  BY <1>8 DEF Block
<1> HIDE DEF block, blocks
<1>12. got \in Seq(BlockType) /\ Len(got) = Len(r.fetched) + 1
  BY <1>5, <1>9
<1>13. ASSUME NEW k \in 1..Len(got)
       PROVE  got[k] \in r.current /\ got[k].chain = blocks[k].chain
  <2>1. CASE k = Len(r.fetched) + 1
    <3>1. got[k] = block
      BY <1>5, <1>9, <2>1
    <3> QED BY <1>10, <1>11, <2>1, <3>1
  <2>2. CASE k # Len(r.fetched) + 1
    <3>1. k \in 1..Len(r.fetched) /\ got[k] = r.fetched[k]
      BY <1>5, <1>9, <1>12, <2>2
    <3> QED BY <1>4, <3>1 DEF FetchedOK, blocks
  <2> QED BY <2>1, <2>2
<1> HIDE DEF got
<1>14. ASSUME NEW p \in {"refs", "accepted", "rejected"}
       PROVE  /\ Ended(p) \in VerType /\ Ended(p).pc = p /\ Ended(p).enabled = r.enabled
              /\ Ended(p).evidence = r.evidence /\ Ended(p).label = r.label
              /\ Ended(p).userdata = r.userdata /\ Ended(p).fetched = got
              /\ Ended(p).current = r.current
              /\ Ended(p).fault = r.fault /\ Ended(p).claims = r.claims
  <2>1. PICK s \in VerType : s = [r EXCEPT !.fetched = got]
    BY <1>1, <1>12 DEF VerType
  <2>2. PICK t \in VerType : t = [s EXCEPT !.pc = p]
    BY <2>1, <1>14 DEF VerType
  <2>3. t = Ended(p)
    BY <1>1, <2>1, <2>2 DEF VerType
  <2>4. Ended(p) \in VerType
    BY <2>3
  <2> QED BY <1>1, <2>4 DEF VerType
<1> HIDE DEF Ended
<1>15. ASSUME NEW p \in {"refs", "accepted", "rejected"} PROVE Bound(Ended(p)) /\ Sees(Ended(p), head)
  <2>1. Bound(Ended(p))
    BY <1>4, <1>14, <1>15 DEF Bound, Verified
  <2>2. Sees(Ended(p), head)
    BY <1>1, <1>14, <1>15 DEF Sees
  <2> QED BY <2>1, <2>2
<1>16. ASSUME Len(got) < Len(blocks) PROVE VerOK(Ended("refs"))
  <2>1. FetchedOK(Ended("refs"))
    BY <1>13, <1>14 DEF FetchedOK, blocks
  <2>2. VerFits(Ended("refs"))
    BY <1>4, <1>14, <1>15, <1>16, <2>1 DEF VerFits, blocks
  <2> QED BY <1>14, <1>15, <2>2 DEF VerOK
<1>17. ASSUME ~(Len(got) < Len(blocks)) PROVE VerOK(Ended(verdict))
  <2>1. Len(got) = Len(blocks)
    BY <1>4, <1>5, <1>12, <1>17 DEF blocks
  <2>2. CASE MerkleRoot(got) = MerkleRoot(blocks)
    <3>1. got = blocks
      BY <1>5, <1>12, <2>1, <2>2, MerkleRootInjective
    <3>2. \A k \in 1..Len(blocks) : blocks[k] \in r.current
      BY <1>13, <3>1
    <3>3. Fresh(Ended("accepted"))
      BY <1>4, <1>14, <3>2 DEF Fresh, blocks
    <3>4. VerFits(Ended("accepted"))
      BY <1>4, <1>14, <1>15, <3>3 DEF VerFits
    <3> QED BY <1>14, <1>15, <2>2, <3>4 DEF VerOK
  <2>3. CASE MerkleRoot(got) # MerkleRoot(blocks)
    <3>1. got # blocks
      BY <2>3
    <3>2. PICK k \in 1..Len(blocks) : got[k] # blocks[k]
      BY <1>5, <1>12, <2>1, <3>1
    <3>3. got[k] \in r.current /\ got[k].chain = blocks[k].chain
      BY <1>13, <2>1, <3>2
    <3>4. Moved(Ended("rejected"))
      BY <1>14, <3>2, <3>3 DEF Moved, blocks
    <3>5. Caused(Ended("rejected"))
      BY <1>4, <1>14, <3>4 DEF Caused
    <3>6. VerFits(Ended("rejected"))
      BY <1>4, <1>14, <3>5 DEF VerFits
    <3> QED BY <1>14, <1>15, <2>3, <3>6 DEF VerOK
  <2> QED BY <2>2, <2>3
<1>18. VerOK([r EXCEPT !.fault = TRUE, !.pc = "rejected"])
  <2> DEFINE s == [r EXCEPT !.fault = TRUE, !.pc = "rejected"]
  <2>1. /\ s \in VerType /\ s.pc = "rejected" /\ s.evidence = r.evidence
        /\ s.userdata = r.userdata /\ s.fault = TRUE
    BY <1>1 DEF VerType
  <2> HIDE DEF s
  <2>2. VerOK(s)
    BY <1>4, <2>1 DEF VerOK, VerFits, Caused, Sees
  <2> QED BY <2>2 DEF s
<1>19. VerOK(Ended(IF Len(got) < Len(blocks) THEN "refs" ELSE verdict))
  BY <1>16, <1>17
<1> HIDE DEF verdict
<1> QED BY <1>2, <1>3, <1>18, <1>19, VerStep

-----------------------------------------------------------------------------
(* The chains *)

\* A verification that sees one more head keeps what it has.
Seeing(r, b) == [r EXCEPT !.current = @ \cup {b}]

LEMMA SeeingFits ==
    ASSUME NEW r \in VerType, VerFits(r), r.pc \in {"provider", "refs"}, NEW b \in BlockType
    PROVE  /\ Seeing(r, b) \in VerType /\ VerFits(Seeing(r, b)) /\ Seeing(r, b).pc = r.pc
           /\ Seeing(r, b).current = r.current \cup {b}
           /\ Seeing(r, b).fetched = r.fetched /\ Seeing(r, b).userdata = r.userdata
<1> DEFINE s == Seeing(r, b)
<1>1. r.current \cup {b} \in SUBSET BlockType
  BY DEF VerType
<1>2. s \in VerType
  BY <1>1 DEF VerType, Seeing
<1>3. /\ s.pc = r.pc /\ s.enabled = r.enabled /\ s.evidence = r.evidence
      /\ s.userdata = r.userdata /\ s.fetched = r.fetched /\ s.index = r.index
      /\ s.label = r.label /\ s.fault = r.fault /\ s.claims = r.claims /\ s.current = r.current \cup {b}
  BY DEF VerType, Seeing
<1> HIDE DEF s
<1>4. r.pc = "refs" => FetchedOK(s)
  BY <1>3 DEF VerFits, FetchedOK
<1>5. r.pc = "refs" => Bound(s)
  BY <1>3 DEF VerFits, Bound, Verified
<1>6. VerFits(s)
  BY <1>3, <1>4, <1>5 DEF VerFits, Unfit
<1> QED BY <1>2, <1>3, <1>6 DEF s

LEMMA MoveHeadStep ==
    ASSUME IInv, NEW chain \in Chains, NEW number \in Nat, NEW hash \in Nat,
           MoveHead(chain, number, hash)
    PROVE  IInv'
<1> DEFINE b == [chain |-> chain, number |-> number, hash |-> hash]
<1>1. b \in BlockType
  BY DEF BlockType
<1>2. head' \in [Chains -> [number : Nat, hash : Nat]]
  BY DEF MoveHead, IInv, TypeOK
<1>3. \A c \in Chains : head'[c] = IF c = chain THEN [number |-> number, hash |-> hash] ELSE head[c]
  BY DEF MoveHead, IInv, TypeOK
<1>4. \A v \in Vers :
         ver'[v] = IF ver[v].pc \in {"provider", "refs"} THEN Seeing(ver[v], b) ELSE ver[v]
  BY DEF MoveHead, Seeing
<1>5. \A v \in Vers : ver[v] \in VerType /\ VerFits(ver[v]) /\ Sees(ver[v], head)
  BY DEF IInv, TypeOK
<1>6. ASSUME NEW v \in Vers
      PROVE  /\ ver'[v] \in VerType /\ VerFits(ver'[v]) /\ Sees(ver'[v], head')
             /\ ver'[v].pc = "refs" => Len(ver'[v].fetched) < Len(ver'[v].userdata.blocks)
  <2>1. CASE ver[v].pc \in {"provider", "refs"}
    <3>1. ver'[v] = Seeing(ver[v], b)
      BY <1>4, <2>1
    <3> HIDE DEF b
    <3>2. /\ ver'[v] \in VerType /\ VerFits(ver'[v]) /\ ver'[v].pc = ver[v].pc
          /\ ver'[v].current = ver[v].current \cup {b}
      BY <1>1, <1>5, <2>1, <3>1, SeeingFits
    <3>3. Sees(ver'[v], head')
      <4>1. ASSUME NEW c \in Chains
            PROVE  [chain |-> c, number |-> head'[c].number, hash |-> head'[c].hash]
                      \in ver'[v].current
        <5>1. CASE c = chain
          <6>1. head'[c].number = number /\ head'[c].hash = hash
            BY <1>3, <5>1
          <6> QED BY <3>2, <5>1, <6>1 DEF b
        <5>2. CASE c # chain
          <6>1. head'[c] = head[c]
            BY <1>3, <5>2
          <6> QED BY <1>5, <2>1, <3>2, <6>1 DEF Sees
        <5> QED BY <5>1, <5>2
      <4> QED BY <4>1 DEF Sees
    <3> QED BY <3>2, <3>3 DEF VerFits
  <2>2. CASE ver[v].pc \notin {"provider", "refs"}
    BY <1>4, <1>5, <2>2 DEF Sees
  <2> QED BY <2>1, <2>2
<1>7. ver' \in [Vers -> VerType]
  <2>1. ver' = [v \in Vers |-> ver'[v]]
    BY DEF MoveHead
  <2> QED BY <1>6, <2>1
<1>8. gen' = gen
  BY DEF MoveHead
<1>9. TypeOK'
  BY <1>2, <1>6, <1>7, <1>8 DEF IInv, TypeOK
<1>10. \A g \in Gens : GenFits(gen'[g])
  BY <1>8 DEF IInv
<1> QED BY <1>6, <1>9, <1>10 DEF IInv

-----------------------------------------------------------------------------
(* The theorems *)

LEMMA InitIInv == Init => IInv
<1> SUFFICES ASSUME Init PROVE IInv
  OBVIOUS
<1>1. head \in [Chains -> [number : Nat, hash : Nat]]
  BY DEF Init
<1>3. NoVer \in VerType /\ NoVer.pc = "idle"
  BY DEF NoVer, VerType
<1>4. NoGen \in GenType /\ NoGen.pc = "idle" /\ NoGen.blocks = <<>>
  BY FailedOk DEF NoGen
<1>5. gen \in [Gens -> GenType] /\ \A g \in Gens : gen[g] = NoGen
  BY <1>4 DEF Init
<1>6. ver \in [Vers -> VerType] /\ \A v \in Vers : ver[v] = NoVer
  BY <1>3 DEF Init
<1>7. TypeOK
  BY <1>1, <1>3, <1>4, <1>5, <1>6, FreshnessAssumption DEF TypeOK
<1>8. GenFits(NoGen)
  BY <1>4 DEF GenFits
<1>9. VerFits(NoVer) /\ Sees(NoVer, head)
  BY <1>3 DEF VerFits, Sees
<1> QED BY <1>5, <1>6, <1>7, <1>8, <1>9 DEF IInv

LEMMA NextIInv == IInv /\ [Next]_vars => IInv'
<1> SUFFICES ASSUME IInv, [Next]_vars PROVE IInv'
  OBVIOUS
<1>1. ASSUME NEW g \in Gens, GenFetch(g) PROVE IInv'
  BY <1>1, GenFetchStep
<1>2. ASSUME NEW g \in Gens, GenTimeout(g) PROVE IInv'
  BY <1>2, GenTimeoutStep
<1>3. ASSUME NEW g \in Gens, GenSign(g) PROVE IInv'
  BY <1>3, GenSignStep
<1>4. ASSUME NEW g \in Gens, NEW node \in Nodes, GenBegin(g, node) PROVE IInv'
  BY <1>4, GenBeginStep
<1>5. ASSUME NEW v \in Vers, VerProvider(v) PROVE IInv'
  BY <1>5, VerProviderStep
<1>6. ASSUME NEW v \in Vers, VerFetch(v) PROVE IInv'
  BY <1>6, VerFetchStep
<1>7. ASSUME NEW v \in Vers, NEW g \in Gens, NEW h \in Gens, NEW label \in Labels,
             NEW enabled \in BOOLEAN, VerBegin(v, g, h, label, enabled)
      PROVE  IInv'
  BY <1>7, VerBeginStep
<1>8. ASSUME NEW chain \in Chains, NewBlock(chain) \/ Reorg(chain) PROVE IInv'
  <2>1. PICK n \in Nat, m \in Nat : n = head[chain].number /\ m = head[chain].hash
    BY DEF IInv, TypeOK
  <2>2. MoveHead(chain, n + 1, m) \/ MoveHead(chain, n, m + 1)
    BY <1>8, <2>1 DEF NewBlock, Reorg
  <2>3. n + 1 \in Nat /\ m + 1 \in Nat
    OBVIOUS
  <2> QED BY <2>2, <2>3, MoveHeadStep
<1>9. CASE UNCHANGED vars
  <2>1. head' = head /\ gen' = gen /\ ver' = ver
    BY <1>9 DEF vars
  <2> QED BY <2>1 DEF IInv, TypeOK
<1> QED BY <1>1, <1>2, <1>3, <1>4, <1>5, <1>6, <1>7, <1>8, <1>9 DEF Next

\* The inductive invariant holds in every state.
THEOREM Invariance == Spec => []IInv
<1> QED BY InitIInv, NextIInv, PTL DEF Spec

\* A verifier accepts a bundle only with the user data its evidence was made
\* for (lib.rs, verify_attestation; tdx_qvl.rs and null.rs, verify_attestation).
THEOREM BoundToUserData == Spec => []AcceptedIsBound
<1>1. IInv => AcceptedIsBound
  BY DEF IInv, AcceptedIsBound, VerFits, Bound, Verified, Made
<1> QED BY <1>1, Invariance, PTL

\* The claims of a platform are made of evidence of that platform only, those
\* of TDX of a genuine quote, whatever the label of the bundle and the state of
\* the collateral (lib.rs, verify_attestation; tdx_qvl.rs, verify_attestation).
THEOREM ClaimsHold == Spec => []ClaimsAreEarned
<1>1. IInv => ClaimsAreEarned
  <2> SUFFICES ASSUME IInv, NEW v \in Vers, ver[v].pc = "accepted"
               PROVE  IF ver[v].claims.eat_profile = "tdx-v1"
                      THEN /\ ver[v].evidence.platform = "tdx"
                           /\ ver[v].evidence.quote.genuine
                           /\ ver[v].claims.measurement = ver[v].evidence.quote.mrtd
                      ELSE ver[v].evidence.platform = "null"
    BY DEF ClaimsAreEarned
  <2>1. Bound(ver[v]) /\ Made(ver[v].evidence)
    BY DEF IInv, VerFits
  <2>2. ver[v].evidence.platform \in {"tdx", "null"}
    BY <2>1 DEF Made, EvidenceType, Platforms
  <2> QED BY <2>1, <2>2 DEF Bound, Verified
<1> QED BY <1>1, Invariance, PTL

\* A verifier that asks for freshness accepts only blocks that were heads
\* while it verified: the Merkle root of what it fetched fixes the blocks of the
\* user data (freshness.rs, verify_freshness).
THEOREM BlocksAreHeads == Spec => []AcceptedIsCurrent
<1>1. IInv => AcceptedIsCurrent
  BY DEF IInv, AcceptedIsCurrent, VerFits, Fresh
<1> QED BY <1>1, Invariance, PTL

\* A bundle that is refused without a fault of a gateway or of the collateral
\* has evidence that no provider of its label can verify, a number of blocks that no proof may have, or is older than a head
\* (lib.rs, verify_attestation; freshness.rs, verify_freshness).
THEOREM RefusalsHaveCause == Spec => []RefusedForCause
<1>1. IInv => RefusedForCause
  <2> SUFFICES ASSUME IInv, NEW v \in Vers, ver[v].pc = "rejected",
                      ver[v].evidence.report_data = ver[v].userdata, ~ver[v].fault
               PROVE  \/ Unfit(ver[v])
                      \/ ver[v].enabled /\ (\/ ver[v].userdata.blocks = <<>>
                                            \/ Len(ver[v].userdata.blocks) \notin MinBlocks..255)
                      \/ ver[v].enabled /\ Moved(ver[v])
    BY DEF RefusedForCause, Moved
  <2>1. Caused(ver[v])
    BY DEF IInv, VerFits
  <2> QED BY <2>1 DEF Caused
<1> QED BY <1>1, Invariance, PTL
=============================================================================

--------------------------- MODULE ArbPathsProofs ---------------------------
(***************************************************************************)
(* The builders find all pathways, and only pathways, for any finite set   *)
(* of pools over any set of tokens.                                        *)
(***************************************************************************)
EXTENDS ArbPaths, FiniteSetTheorems, TLAPS

(* The tokens of a pool never change, and only pools get listed.           *)
THEOREM PathsTypeCorrect == Spec => []PathsTypeOK
<1>1. Init => PathsTypeOK
  BY DEF Init, PathsTypeOK
<1>2. PathsTypeOK /\ [Next]_vars => PathsTypeOK'
  <2>1. ASSUME PathsTypeOK, NEW p \in Pools, ListPool(p)
        PROVE  PathsTypeOK'
    BY <2>1 DEF PathsTypeOK, PairsOfTokens, ListPool
  <2>2. ASSUME PathsTypeOK, UNCHANGED vars
        PROVE  PathsTypeOK'
    BY <2>2 DEF PathsTypeOK, PairsOfTokens, vars
  <2> QED
    BY <2>1, <2>2 DEF Next
<1> QED
  BY <1>1, <1>2, PTL DEF Spec

(* A pool of the wrapped token swaps it with its other token.              *)
LEMMA SwapsOther ==
  ASSUME PathsTypeOK, NEW p \in TokenToPools(wrapped_token)
  PROVE  /\ OtherToken(p) \in Tokens
         /\ Swaps(p, wrapped_token, OtherToken(p))
         /\ \A t : Swaps(p, wrapped_token, t) => t = OtherToken(p)
BY DEF PathsTypeOK, PairsOfTokens, TokenToPools, OtherToken, Swaps

(* A pair of tokens is swapped by the pools on the edges between them.     *)
LEMMA SwapsAlongEdges ==
  ASSUME PathsTypeOK, NEW p, NEW s, NEW t
  PROVE  Swaps(p, s, t) <=> p \in Edges(s, t)
<1>1. ASSUME Swaps(p, s, t)
      PROVE  p \in Edges(s, t)
  <2>1. p \in listed /\ {token0[p], token1[p]} = {s, t}
    BY <1>1 DEF Swaps
  <2>2. \/ token0[p] = s /\ token1[p] = t
        \/ token0[p] = t /\ token1[p] = s
    BY <2>1, <1>1 DEF Swaps
  <2> QED
    BY <2>1, <2>2 DEF Edges
<1>2. ASSUME p \in Edges(s, t)
      PROVE  Swaps(p, s, t)
  <2>1. /\ p \in listed /\ p \in Pools
        /\ \/ token0[p] = s /\ token1[p] = t
           \/ token0[p] = t /\ token1[p] = s
    BY <1>2 DEF Edges, PathsTypeOK
  <2>2. token0[p] # token1[p]
    BY <2>1 DEF PathsTypeOK, PairsOfTokens
  <2> QED
    BY <2>1, <2>2 DEF Swaps
<1> QED
  BY <1>1, <1>2

-----------------------------------------------------------------------------
LEMMA TwoPools == PathsTypeOK => AllTwoPoolPathways
<1> SUFFICES ASSUME PathsTypeOK
             PROVE  TwoPoolArbPaths = TwoPoolCycles
  BY DEF AllTwoPoolPathways
<1>1. ASSUME NEW path \in TwoPoolArbPaths
      PROVE  path \in TwoPoolCycles
  <2> DEFINE t == OtherToken(path[1])
  <2>1. /\ path \in Pools \X Pools /\ path[1] # path[2]
        /\ path[1] \in TokenToPools(wrapped_token)
        /\ path[2] \in TokenToPools(t)
        /\ wrapped_token \in {token0[path[2]], token1[path[2]]}
    BY DEF TwoPoolArbPaths, PathsTypeOK
  <2>2. t \in Tokens /\ Swaps(path[1], wrapped_token, t)
    BY <2>1, SwapsOther
  <2>3. Swaps(path[2], t, wrapped_token)
    <3>1. path[2] \in listed /\ t \in {token0[path[2]], token1[path[2]]}
      BY <2>1 DEF TokenToPools
    <3>2. t # wrapped_token
      BY <2>2 DEF Swaps
    <3> HIDE DEF t
    <3> QED
      BY <3>1, <3>2, <2>1 DEF Swaps
  <2> QED
    BY <2>1, <2>2, <2>3 DEF TwoPoolCycles
<1>2. ASSUME NEW path \in TwoPoolCycles
      PROVE  path \in TwoPoolArbPaths
  <2>1. path \in Pools \X Pools /\ path[1] # path[2]
    BY DEF TwoPoolCycles
  <2>2. PICK t \in Tokens : /\ Swaps(path[1], wrapped_token, t)
                            /\ Swaps(path[2], t, wrapped_token)
    BY DEF TwoPoolCycles
  <2>3. path[1] \in listed /\ path[2] \in listed
    BY <2>2 DEF Swaps
  <2>4. /\ path[1] \in TokenToPools(wrapped_token)
        /\ path[2] \in TokenToPools(t)
        /\ wrapped_token \in {token0[path[2]], token1[path[2]]}
    BY <2>2, <2>3 DEF Swaps, TokenToPools
  <2>5. t = OtherToken(path[1])
    BY <2>2, <2>4, SwapsOther
  <2> QED
    BY <2>1, <2>3, <2>4, <2>5 DEF TwoPoolArbPaths
<1> QED
  BY <1>1, <1>2

-----------------------------------------------------------------------------
(* Two pools that hold a token give it a degree above one.                 *)
LEMMA DegreeOfTwo ==
  ASSUME PathsTypeOK, NEW t, NEW p \in TokenToPools(t), NEW q \in TokenToPools(t),
         p # q
  PROVE  Degree(t) > 1
<1> DEFINE S == TokenToPools(t)
<1>1. IsFiniteSet(S) /\ Cardinality(S) \in Nat
  <2>1. S \in SUBSET Pools
    BY DEF TokenToPools, PathsTypeOK
  <2>2. IsFiniteSet(S)
    BY <2>1, FS_Subset, TokensAssumption
  <2> QED
    BY <2>2, FS_CardinalityType
<1>2. IsFiniteSet({p}) /\ Cardinality({p}) = 1
  BY FS_Singleton
<1>3. Cardinality({p} \cup {q}) = 2
  <2>1. q \notin {p}
    OBVIOUS
  <2> QED
    BY <1>2, <2>1, FS_AddElement
<1>4. {p} \cup {q} \in SUBSET S
  OBVIOUS
<1>5. Cardinality({p} \cup {q}) <= Cardinality(S)
  BY <1>1, <1>4, FS_Subset
<1> HIDE DEF S
<1>6. Cardinality(S) > 1
  BY <1>1, <1>3, <1>5
<1> QED
  BY <1>6 DEF S, Degree

(* The tokens in the middle of a cycle pass the filter.                    *)
LEMMA FilterKeepsCycles ==
  ASSUME PathsTypeOK, NEW s \in Tokens, NEW t \in Tokens, NEW p, NEW q,
         Swaps(p, wrapped_token, s), Swaps(q, s, t), t # wrapped_token
  PROVE  s \in FilteredTokens
<1>1. p \in Edges(s, wrapped_token)
  <2>1. Swaps(p, s, wrapped_token)
    BY DEF Swaps
  <2> QED
    BY <2>1, SwapsAlongEdges
<1>2. p \in TokenToPools(s) /\ q \in TokenToPools(s)
  BY DEF Swaps, TokenToPools
<1>3. p # q
  BY DEF Swaps
<1>4. Degree(s) > 1
  BY <1>2, <1>3, DegreeOfTwo
<1> QED
  BY <1>1, <1>4 DEF FilteredTokens

(* Either token of a pair may be token_a: the paths are the same.          *)
LEMMA EitherOrder ==
  ASSUME NEW s, NEW t
  PROVE  PathsThrough(s, t) = PathsThrough(t, s)
<1>1. Edges(s, t) = Edges(t, s)
  BY DEF Edges
<1> QED
  BY <1>1 DEF PathsThrough

LEMMA PathsOfPair ==
  ASSUME NEW pair, NEW s, NEW t, pair = {s, t}, s # t
  PROVE  PathsOf(pair) = PathsThrough(s, t)
<1> DEFINE token_a == CHOOSE u \in pair : TRUE
<1> DEFINE token_b == CHOOSE u \in pair : u # token_a
<1>1. token_a \in pair
  <2>1. \E u \in pair : TRUE
    OBVIOUS
  <2> QED
    BY <2>1
<1> HIDE DEF token_a
<1>2. token_b \in pair /\ token_b # token_a
  <2>1. \E u \in pair : u # token_a
    BY <1>1
  <2> QED
    BY <2>1
<1> HIDE DEF token_b
<1>3. \/ token_a = s /\ token_b = t
      \/ token_a = t /\ token_b = s
  BY <1>1, <1>2
<1>4. PathsThrough(token_a, token_b) = PathsThrough(s, t)
  BY <1>3, EitherOrder
<1> QED
  BY <1>4 DEF PathsOf, token_a, token_b

LEMMA ThreePools == PathsTypeOK => AllThreePoolPathways
<1> SUFFICES ASSUME PathsTypeOK
             PROVE  ThreePoolArbPaths = ThreePoolCycles
  BY DEF AllThreePoolPathways
<1>1. ASSUME NEW path \in ThreePoolArbPaths
      PROVE  path \in ThreePoolCycles
  <2>1. PICK pair \in Pairs : path \in PathsOf(pair)
    BY DEF ThreePoolArbPaths
  <2>2. PICK s, t \in pair : s # t /\ pair = {s, t}
    BY <2>1 DEF Pairs
  <2>3. path \in PathsThrough(s, t)
    BY <2>1, <2>2, PathsOfPair
  <2>4. s \in Tokens /\ t \in Tokens
    BY <2>1, <2>2 DEF Pairs, FilteredTokens
  <2>5. path \in Pools \X Pools \X Pools
    BY <2>3 DEF PathsThrough, PathsTypeOK
  <2>6. /\ path[2] \in Edges(s, t) /\ path[2] \in Edges(t, s)
        /\ \/ /\ path[1] \in Edges(s, wrapped_token)
              /\ path[3] \in Edges(t, wrapped_token)
           \/ /\ path[3] \in Edges(s, wrapped_token)
              /\ path[1] \in Edges(t, wrapped_token)
    BY <2>3 DEF PathsThrough, Edges
  <2>7. /\ Swaps(path[2], s, t) /\ Swaps(path[2], t, s)
        /\ \/ /\ Swaps(path[1], s, wrapped_token)
              /\ Swaps(path[3], t, wrapped_token)
           \/ /\ Swaps(path[3], s, wrapped_token)
              /\ Swaps(path[1], t, wrapped_token)
    BY <2>6, SwapsAlongEdges
  <2>8. \A u : Swaps(path[1], u, wrapped_token) => Swaps(path[1], wrapped_token, u)
    BY DEF Swaps
  <2> QED
    BY <2>4, <2>5, <2>7, <2>8 DEF ThreePoolCycles
<1>2. ASSUME NEW path \in ThreePoolCycles
      PROVE  path \in ThreePoolArbPaths
  <2>1. path \in Pools \X Pools \X Pools
    BY DEF ThreePoolCycles
  <2>2. PICK s \in Tokens, t \in Tokens :
          /\ Swaps(path[1], wrapped_token, s)
          /\ Swaps(path[2], s, t)
          /\ Swaps(path[3], t, wrapped_token)
    BY DEF ThreePoolCycles
  <2>3. /\ s # wrapped_token /\ t # wrapped_token /\ s # t
        /\ path[1] \in listed /\ path[2] \in listed /\ path[3] \in listed
    BY <2>2 DEF Swaps
  <2>4. Swaps(path[2], t, s) /\ Swaps(path[3], wrapped_token, t)
        /\ Swaps(path[1], s, wrapped_token)
    BY <2>2 DEF Swaps
  <2>5. s \in FilteredTokens /\ t \in FilteredTokens
    BY <2>2, <2>3, <2>4, FilterKeepsCycles
  <2>6. {s, t} \in Pairs
    BY <2>3, <2>5 DEF Pairs
  <2>7. path \in listed \X listed \X listed
    BY <2>1, <2>3
  <2>8. path \in PathsThrough(s, t)
    <3>1. /\ path[1] \in Edges(s, wrapped_token)
          /\ path[2] \in Edges(s, t)
          /\ path[3] \in Edges(t, wrapped_token)
      BY <2>2, <2>4, SwapsAlongEdges
    <3> QED
      BY <2>7, <3>1 DEF PathsThrough
  <2>9. path \in PathsOf({s, t})
    BY <2>3, <2>8, PathsOfPair
  <2> QED
    BY <2>6, <2>9 DEF ThreePoolArbPaths
<1> QED
  BY <1>1, <1>2

-----------------------------------------------------------------------------
(* The two-pool builder writes all two-pool pathways and nothing else.     *)
THEOREM AllTwoPool == Spec => []AllTwoPoolPathways
BY PathsTypeCorrect, TwoPools, PTL

(* The three-pool builder writes all three-pool pathways and nothing else. *)
THEOREM AllThreePool == Spec => []AllThreePoolPathways
BY PathsTypeCorrect, ThreePools, PTL
=============================================================================

------------------------------ MODULE ArbPaths ------------------------------
(***************************************************************************)
(* The builders of arbitrage pathways, builders/arbs_2pool.py and          *)
(* builders/arbs_3pool.py, as functions of the pools that the pool         *)
(* fetchers have listed, and what they are to find: the cycles of two and  *)
(* three swaps that start and end with the wrapped token.                  *)
(***************************************************************************)
EXTENDS Integers, FiniteSets

CONSTANTS
  Pools,          \* pool addresses
  Tokens,
  wrapped_token

ASSUME TokensAssumption == wrapped_token \in Tokens /\ IsFiniteSet(Pools)

VARIABLES
  token0, token1,  \* the tokens of each pool
  listed           \* the pools in the files of the fetchers

vars == <<token0, token1, listed>>

(* A factory refuses a pair of one token with itself.                      *)
PairsOfTokens ==
  /\ token0 \in [Pools -> Tokens]
  /\ token1 \in [Pools -> Tokens]
  /\ \A p \in Pools : token0[p] # token1[p]

PathsTypeOK == PairsOfTokens /\ listed \subseteq Pools

Init == PairsOfTokens /\ listed = {}

(* lp_fetcher_v2 or lp_fetcher_v3 adds a pool to its file.                 *)
ListPool(p) ==
  /\ p \notin listed
  /\ listed' = listed \cup {p}
  /\ UNCHANGED <<token0, token1>>

Next == \E p \in Pools : ListPool(p)

Spec == Init /\ [][Next]_vars

-----------------------------------------------------------------------------
(* arbs_2pool: pools by token, and pairs of pools that share the wrapped   *)
(* token and the other token of the first pool.                            *)

TokenToPools(t) == {p \in listed : t \in {token0[p], token1[p]}}

\* A faulty variant of OtherToken.
AlwaysToken1(p) == token1[p]
OtherToken(p) == IF token0[p] = wrapped_token THEN token1[p] ELSE token0[p]

TwoPoolArbPaths ==
  {path \in listed \X listed :
     /\ path[1] \in TokenToPools(wrapped_token)
     /\ path[2] \in TokenToPools(OtherToken(path[1]))
     /\ wrapped_token \in {token0[path[2]], token1[path[2]]}
     /\ path[2] # path[1]}

-----------------------------------------------------------------------------
(* arbs_3pool: a multigraph with the tokens as nodes and an edge for every *)
(* pool.  When no listed pool holds the wrapped token, networkx raises and *)
(* nothing is written, where there is no pathway anyway.                   *)

(* G.get_edge_data(s, t)                                                   *)
Edges(s, t) == {p \in listed : \/ token0[p] = s /\ token1[p] = t
                               \/ token0[p] = t /\ token1[p] = s}

Degree(t) == Cardinality(TokenToPools(t))

\* A faulty variant of FilteredTokens.
DegreeOverTwo ==
  {t \in Tokens : Edges(t, wrapped_token) # {} /\ Degree(t) > 2}
FilteredTokens ==
  {t \in Tokens : Edges(t, wrapped_token) # {} /\ Degree(t) > 1}

(* itertools.product of the pools for one pair of tokens: each combination *)
(* is stored in both directions, (a, b, c) and (c, b, a).                  *)
PathsThrough(token_a, token_b) ==
  {path \in listed \X listed \X listed :
     /\ path[2] \in Edges(token_a, token_b)
     /\ \/ /\ path[1] \in Edges(token_a, wrapped_token)
           /\ path[3] \in Edges(token_b, wrapped_token)
        \/ /\ path[3] \in Edges(token_a, wrapped_token)
           /\ path[1] \in Edges(token_b, wrapped_token)}

(* itertools.combinations: each pair of tokens once; which of the two is   *)
(* token_a does not matter.                                                *)
Pairs == {pair \in SUBSET FilteredTokens : \E s, t \in pair : s # t /\ pair = {s, t}}

PathsOf(pair) ==
  LET token_a == CHOOSE t \in pair : TRUE
      token_b == CHOOSE t \in pair : t # token_a
  IN PathsThrough(token_a, token_b)

ThreePoolArbPaths == UNION {PathsOf(pair) : pair \in Pairs}

-----------------------------------------------------------------------------
(* What the pathways are: sequences of swaps from the wrapped token back   *)
(* to it that visit other tokens in between, no token twice.               *)

Swaps(p, s, t) == p \in listed /\ {token0[p], token1[p]} = {s, t} /\ s # t

TwoPoolCycles ==
  {path \in Pools \X Pools :
     /\ path[1] # path[2]
     /\ \E t \in Tokens : /\ Swaps(path[1], wrapped_token, t)
                          /\ Swaps(path[2], t, wrapped_token)}

ThreePoolCycles ==
  {path \in Pools \X Pools \X Pools :
     \E s, t \in Tokens : /\ Swaps(path[1], wrapped_token, s)
                          /\ Swaps(path[2], s, t)
                          /\ Swaps(path[3], t, wrapped_token)}

(* README: arbs_2pool "gets all two-pool arbitrage pathways", in both      *)
(* directions, and nothing else.                                           *)
AllTwoPoolPathways == TwoPoolArbPaths = TwoPoolCycles

(* README: arbs_3pool "gets all three-pool arbitrage pathways": neither    *)
(* the filter by degree nor the walk over unordered pairs of tokens loses  *)
(* one, and nothing else is written.                                       *)
AllThreePoolPathways == ThreePoolArbPaths = ThreePoolCycles
=============================================================================

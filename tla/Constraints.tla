------------------------------ MODULE Constraints ------------------------------
(***************************************************************************)
(* Payoff constraints (src/constraint/payoff.cpp): what a relationship     *)
(* between two markets compiles to, what a portfolio pays at least in the  *)
(* worlds it allows, and the registry that keys constraints by id, by key  *)
(* and by market.                                                          *)
(*                                                                         *)
(* A compiled constraint is a function of its definition, so the registry  *)
(* stores definitions; the provenance text is part of the version.  Cash   *)
(* is counted in units one of which a contract pays per unit of quantity.  *)
(***************************************************************************)
EXTENDS Naturals, FiniteSets, Sequences, SequencesExt

CONSTANTS
  ConstraintId,  \* ids of constraints, 0 included
  Version,       \* semantic versions, 0 included
  Key,           \* keys, NoKey included
  NoKey,         \* the empty key
  Market,        \* ids of markets, 0 included
  MaxPayout      \* largest payout

ASSUME ConstraintConstants ==
  /\ ConstraintId \subseteq Nat
  /\ Version \subseteq Nat
  /\ NoKey \in Key
  /\ Market \subseteq Nat
  /\ MaxPayout \in Nat

Definition ==
  [id : ConstraintId, version : Version, key : Key,
   kind : {"implication", "complement"}, first : Market, second : Market]

VARIABLES
  constraints,   \* constraints_: definitions by id
  keys,          \* keys_: ids by key
  dependencies   \* dependencies_: ids by market, in order of registration

registry == <<constraints, keys, dependencies>>

-----------------------------------------------------------------------------
(* compile_constraint. *)

Compiles(d) ==
  /\ d.id # 0 /\ d.version # 0 /\ d.key # NoKey
  /\ d.first # 0 /\ d.second # 0 /\ d.first # d.second

Dependents(d) == <<d.first, d.second>>

\* A world assigns a settlement to each market that it is about.
World(d, first, second) ==
  <<[market |-> d.first, yes |-> first], [market |-> d.second, yes |-> second]>>

Worlds(d) ==
  IF d.kind = "implication"
  THEN <<World(d, FALSE, FALSE), World(d, FALSE, TRUE), World(d, TRUE, TRUE)>>
  ELSE <<World(d, FALSE, TRUE), World(d, TRUE, FALSE)>>

Legs(d) ==
  IF d.kind = "implication"
  THEN <<[market |-> d.second, outcome |-> "yes"], [market |-> d.first, outcome |-> "no"]>>
  ELSE <<[market |-> d.first, outcome |-> "yes"], [market |-> d.second, outcome |-> "yes"]>>

-----------------------------------------------------------------------------
(* verify_payoff and construct_guaranteed_portfolio. *)

\* Does a contract on this outcome pay when the market settles like that?
Pays(outcome, yes) == (outcome = "yes") = yes

\* The first assignment of a market decides.
Assigned(world, market) == \E i \in DOMAIN world : world[i].market = market
Settles(world, market) ==
  world[CHOOSE i \in DOMAIN world :
          /\ world[i].market = market
          /\ \A j \in 1..(i - 1) : world[j].market # market].yes

Failed(error) == [error |-> error, sum |-> 0]
Sum(n) == [error |-> "none", sum |-> n]

\* Mutant of PayLeg: the sum is not checked.
PayLegUnchecked(world, paid, leg) ==
  CASE paid.error # "none"                 -> paid
    [] leg.quantity = 0                    -> Failed("zero_quantity")
    [] ~Assigned(world, leg.market)        -> Failed("missing_assignment")
    [] ~Pays(leg.outcome, Settles(world, leg.market)) -> paid
    [] leg.quantity > MaxPayout            -> Failed("payout_overflow")
    [] OTHER -> Sum(paid.sum + leg.quantity)

PayLeg(world, paid, leg) ==
  CASE paid.error # "none"                 -> paid
    [] leg.quantity = 0                    -> Failed("zero_quantity")
    [] ~Assigned(world, leg.market)        -> Failed("missing_assignment")
    [] ~Pays(leg.outcome, Settles(world, leg.market)) -> paid
    [] paid.sum + leg.quantity > MaxPayout -> Failed("payout_overflow")
    [] OTHER -> Sum(paid.sum + leg.quantity)

PayWorld(world, portfolio) ==
  IF \E i, j \in DOMAIN world : i # j /\ world[i].market = world[j].market
  THEN Failed("invalid_world")
  ELSE FoldLeft(LAMBDA paid, leg : PayLeg(world, paid, leg), Sum(0), portfolio)

\* The first world that fails decides; otherwise the one that pays least.
Verify(worlds, portfolio) ==
  LET paid == [i \in DOMAIN worlds |-> PayWorld(worlds[i], portfolio)]
      bad  == {i \in DOMAIN worlds : paid[i].error # "none"}
      sums == {paid[i].sum : i \in DOMAIN worlds}
  IN  CASE worlds = <<>>    -> Failed("empty_world_set")
        [] portfolio = <<>> -> Failed("empty_portfolio")
        [] bad # {}         -> paid[CHOOSE i \in bad : \A j \in bad : i <= j]
        [] OTHER            -> Sum(CHOOSE least \in sums : \A s \in sums : least <= s)

Sized(d, quantity) ==
  [i \in DOMAIN Legs(d) |-> Legs(d)[i] @@ [quantity |-> quantity]]

\* The minimum must be exactly what one contract of the quantity pays.
Guaranteed(d, quantity) ==
  LET verified == Verify(Worlds(d), Sized(d, quantity))
  IN  CASE quantity = 0                -> Failed("zero_quantity")
        [] quantity > MaxPayout        -> Failed("payout_overflow")
        [] verified.error # "none"     -> verified
        [] verified.sum # quantity     -> Failed("invalid_definition")
        [] OTHER                       -> verified

-----------------------------------------------------------------------------
(* ConstraintRegistry. *)

\* A map with one more entry.
With(map, at, value) ==
  [x \in DOMAIN map \cup {at} |-> IF x = at THEN value ELSE map[x]]

RegistryInit ==
  /\ constraints = <<>>
  /\ keys = <<>>
  /\ dependencies = [m \in Market |-> <<>>]

\* Mutant of AddResult: a key may name two constraints.
AddResultAnyKey(d) ==
  CASE ~Compiles(d)                 -> "invalid_definition"
    [] d.id \in DOMAIN constraints  -> IF constraints[d.id] = d
                                       THEN "already_registered" ELSE "constraint_id_conflict"
    [] OTHER                        -> "registered"

AddResult(d) ==
  CASE ~Compiles(d)                 -> "invalid_definition"
    [] d.id \in DOMAIN constraints  -> IF constraints[d.id] = d
                                       THEN "already_registered" ELSE "constraint_id_conflict"
    [] d.key \in DOMAIN keys        -> "key_conflict"
    [] OTHER                        -> "registered"

Register(d) ==
  /\ AddResult(d) = "registered"
  /\ constraints' = With(constraints, d.id, d)
  /\ keys' = With(keys, d.key, d.id)
  /\ dependencies' = [m \in Market |->
       IF m \in Range(Dependents(d)) THEN Append(dependencies[m], d.id) ELSE dependencies[m]]

Refuse(d) == AddResult(d) # "registered" /\ UNCHANGED registry

RegistryNext == \E d \in Definition : Register(d) \/ Refuse(d)

RegistrySpec == RegistryInit /\ [][RegistryNext]_registry

-----------------------------------------------------------------------------
(* Properties. *)

Registered == {constraints[i] : i \in DOMAIN constraints}

\* What the relationship itself says of a resolution, compiled or not.
Holds(d, resolution) ==
  IF d.kind = "implication" THEN resolution[d.first] => resolution[d.second]
                            ELSE resolution[d.first] # resolution[d.second]

\* The three maps of the registry are one relation whatever is registered,
\* repeated or refused: keys_ is the inverse of the ids, and a market lists
\* exactly the constraints that depend on it, each once.
RegistryConsistent ==
  /\ \A i \in DOMAIN constraints :
        /\ constraints[i] \in Definition /\ Compiles(constraints[i])
        /\ constraints[i].id = i
        /\ constraints[i].key \in DOMAIN keys /\ keys[constraints[i].key] = i
  /\ \A k \in DOMAIN keys :
        keys[k] \in DOMAIN constraints /\ constraints[keys[k]].key = k
  /\ \A m \in Market :
        /\ Range(dependencies[m]) =
             {i \in DOMAIN constraints : m \in Range(Dependents(constraints[i]))}
        /\ IsInjective(dependencies[m])

\* In every resolution that the relationship of a registered constraint
\* allows, one leg of its portfolio wins; the compiled worlds forget none.
OneLegPays ==
  \A d \in Registered : \A resolution \in [Market -> BOOLEAN] :
    Holds(d, resolution) =>
      \E i \in DOMAIN Legs(d) : Pays(Legs(d)[i].outcome, resolution[Legs(d)[i].market])
==============================================================================

------------------------------ MODULE EnvCache ------------------------------
(* The cache of environment variables in RAM (ef_env.c): partial functions *)
(* from names to values, with the room they take.                          *)
EXTENDS Integers, Functions

CONSTANTS
  Keys, Values,  \* names and values of variables
  Words,         \* words a variable takes in the cache, by its value
  Room           \* words of an area, the header taken off

\* Partial functions from names to values.
Envs == UNION {[K -> Values] : K \in SUBSET Keys}

\* get_env_user_used_size, without the header.
Used(e) == FoldFunction(LAMBDA v, n : Words[v] + n, 0, e)

\* write_env has room for one more variable.
Fits(e, v) == Words[v] + Used(e) < Room

del_env(e, k) == Restrict(e, DOMAIN e \ {k})

\* ef_set_env: a new value replaces the old one, which is deleted before it
\* is known whether the new one fits.
ef_set_env(e, k, v) ==
  IF k \in DOMAIN e /\ e[k] = v THEN e
  ELSE LET rest == del_env(e, k)
       IN  IF Fits(rest, v)
           THEN [x \in DOMAIN rest \union {k} |-> IF x = k THEN v ELSE rest[x]]
           ELSE rest
=============================================================================

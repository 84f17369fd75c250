-------------------------------- MODULE ResOrder -------------------------------
(***************************************************************************)
(* The order of a mode list, and what sort_restab relies on qsort for.     *)
(***************************************************************************)
EXTENDS Integers, Sequences

CONSTANT Size         \* Size[m]: m's place in the order of cmp_res, larger first

(* cmp_res never says "equal": it puts m before n only when m is larger *)
cmp_res(m, n) == Size[m] > Size[n]

(* what qsort may make of s: ties end up in any order, but the first element
   moves only when another one goes strictly before it *)
qsort(s) ==
    {t \in [DOMAIN s -> {s[i] : i \in DOMAIN s}] :
        /\ \A i \in DOMAIN s : \E j \in DOMAIN s : t[j] = s[i]
        /\ \A i, j \in DOMAIN s : i < j => t[i] # t[j] /\ ~cmp_res(t[j], t[i])
        /\ s # <<>> /\ (\A i \in DOMAIN s : ~cmp_res(s[i], s[1])) => t[1] = s[1]}
================================================================================

------------------------------- MODULE Khash --------------------------------
(***************************************************************************)
(* The hash table of framework/include/common/khash.h, as hash.c uses it:  *)
(* open addressing with a step that depends on the key.  A key is its hash *)
(* value; whether the key in a bucket equals the one looked up is a        *)
(* parameter, because a caller may have left a pointer in the table whose  *)
(* text has changed since.                                                 *)
(***************************************************************************)
LOCAL INSTANCE Naturals
LOCAL INSTANCE FiniteSets

\* __ac_prime_list, its beginning.
Primes == {0, 3, 11, 23, 53}

\* n_buckets * 0.77 + 0.5.
UpperBound(n) == (77 * n + 50) \div 100

Least(S) == CHOOSE x \in S : \A y \in S : x <= y

\* A table with n empty buckets; calloc gives one with none.
Buckets(n) ==
    [n |-> n, size |-> 0, occupied |-> 0, upper |-> UpperBound(n),
     flag |-> [i \in 0 .. n - 1 |-> "empty"], val |-> [i \in 0 .. n - 1 |-> "none"]]

kh_init == [Buckets(0) EXCEPT !.upper = 0]

\* kh_resize of a table nobody has put anything into.
kh_resize_empty(h) == Buckets(Least({p \in Primes : p > h.n + 1}))

\* The buckets a key with hash value k is looked for in, in turn.
Site(h, k, t) == ((k % h.n) + t * (1 + (k % (h.n - 1)))) % h.n

Ends(h, k, same, t) ==
    LET i == Site(h, k, t) IN
    h.flag[i] = "empty" \/ (h.flag[i] = "live" /\ i \in same)

Turns(h, k, same) == {t \in 0 .. h.n - 1 : Ends(h, k, same, t)}

\* The bucket of the key, or n; same: the buckets whose key equals it.
kh_get(h, k, same) ==
    IF h.n = 0 \/ Turns(h, k, same) = {}
      THEN h.n
      ELSE LET i == Site(h, k, Least(Turns(h, k, same)))
           IN IF h.flag[i] = "live" THEN i ELSE h.n

\* The bucket kh_put takes: that of an equal key, or the first empty one (no
\* caller deletes, so there is no deleted one to take).  A table that is all
\* full gives the bucket the search began at.
kh_site(h, k, same) ==
    IF Turns(h, k, same) = {} THEN k % h.n ELSE Site(h, k, Least(Turns(h, k, same)))

\* hash_set: kh_put, and the value into the bucket it gives.
hash_set(h0, k, same, v) ==
    LET h == IF h0.n = 0 THEN kh_resize_empty(h0) ELSE h0
        i == kh_site(h, k, same)
    IN IF h.flag[i] = "empty"
         THEN [h EXCEPT !.flag[i] = "live", !.val[i] = v, !.size = @ + 1, !.occupied = @ + 1]
         ELSE [h EXCEPT !.val[i] = v]

\* hash_get: the value, or NULL.
hash_get(h, k, same) ==
    LET i == kh_get(h, k, same) IN IF i = h.n THEN "none" ELSE h.val[i]
=============================================================================

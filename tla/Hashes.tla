------------------------------- MODULE Hashes -------------------------------
(***************************************************************************)
(* util-src/hashes.c: HMAC and the Hi() of SCRAM, over an ideal hash.      *)
(* util-src/crand.c: the loop that collects random bytes.                  *)
(*                                                                         *)
(* A byte is the set of the terms it is the exclusive or of, so that the   *)
(* exclusive or of two bytes is their symmetric difference and {} is 0.    *)
(* A digest is a sequence of bytes, each a term of what was hashed.        *)
(***************************************************************************)
EXTENDS Integers, SequencesExt

CONSTANTS Block,       \* bytes in the key block of hmac(): 64
          MaxKey,      \* bound: length of a key
          MaxIter,     \* bound: iterations of Hi()
          RandomLens,  \* lengths asked of random.bytes
          IntWord      \* number of values of an int; a size_t holds more

VARIABLES call,        \* what is being computed: key, salt, iterations, hash
          rnd          \* Lrandom: length, left, bytes filled, where it is

hashVars == <<call, rnd>>

(* An int has an even number of values; a negative length is refused.       *)
ASSUME HashAssumption ==
    /\ IntWord \in Nat \ {0} /\ IntWord % 2 = 0
    /\ RandomLens \subseteq Nat
    /\ Block \in Nat \ {0} /\ MaxKey \in Nat /\ MaxIter \in Nat \ {0}

(* Digest length and block size of a hash function, in the scale of Block.  *)
(* SHA-512 works on blocks of twice the size.                               *)
Hash == [sha1 |-> [digest |-> 1, block |-> Block], sha512 |-> [digest |-> 2, block |-> 2 * Block]]

Xor(a, b) == (a \ b) \cup (b \ a)
XorAll(s) == {t \in UNION Range(s) : Cardinality({i \in DOMAIN s : t \in s[i]}) % 2 = 1}
XorSeq(s, t) == [i \in DOMAIN s |-> Xor(s[i], t[i])]
Digest(h, s) == [i \in 1..Hash[h].digest |-> {<<"digest", h, i, s>>}]
Zeros(n) == [i \in 1..n |-> {}]
IPAD == {<<"ipad">>}
OPAD == {<<"opad">>}
-----------------------------------------------------------------------------
(* The key block is Block bytes for every hash. *)
hmac(h, key, msg) ==
    LET k == IF Len(key) > Block THEN Digest(h, key) ELSE key
        padded == k \o Zeros(Block - Len(k))
        inner == Digest(h, [i \in DOMAIN padded |-> Xor(padded[i], IPAD)] \o msg)
    IN  Digest(h, [i \in DOMAIN padded |-> Xor(padded[i], OPAD)] \o inner)

(* The loop of LscramHi: Ust and res after i turns. *)
Mut_LscramHi(str, salt, iter) ==
    LET first == hmac("sha1", str, salt \o <<{}, {}, {}, {<<"one">>}>>)
        turn[i \in 1..MaxIter] ==
            IF i = 1 THEN [Ust |-> first, res |-> first]
            ELSE LET Und == hmac("sha1", str, turn[i - 1].res)
                 IN  [Ust |-> Und, res |-> XorSeq(turn[i - 1].res, Und)]
    IN  turn[IF iter < 1 THEN 1 ELSE iter].res
LscramHi(str, salt, iter) ==
    LET first == hmac("sha1", str, salt \o <<{}, {}, {}, {<<"one">>}>>)
        turn[i \in 1..MaxIter] ==
            IF i = 1 THEN [Ust |-> first, res |-> first]
            ELSE LET Und == hmac("sha1", str, turn[i - 1].Ust)
                 IN  [Ust |-> Und, res |-> XorSeq(turn[i - 1].res, Und)]
    IN  turn[IF iter < 1 THEN 1 ELSE iter].res
-----------------------------------------------------------------------------
(* Lrandom.  "left" is an int, "len" a size_t: a length that an int cannot  *)
(* hold wraps around.  getrandom may give less than asked for, and fail.    *)
ToInt(n) == LET m == n % IntWord IN IF m >= IntWord \div 2 THEN m - IntWord ELSE m

Lrandom(len) ==
    /\ rnd.at = "idle"
    /\ rnd' = IF len = 0 THEN [at |-> "done", len |-> 0, left |-> 0, filled |-> 0]
              ELSE [at |-> "loop", len |-> len, left |-> ToInt(len), filled |-> 0]
    /\ UNCHANGED call

(* One turn of the loop.  The system never fills past the buffer: a count   *)
(* that came from a negative int is cut to what it can give at once.        *)
Mut_GetRandom(ret) ==
    /\ rnd.at = "loop" /\ (ret > 0 \/ rnd.left = 0)
    /\ ret <= IF rnd.left < 0 THEN IntWord \div 2 - 1 ELSE rnd.left
    /\ rnd' = [rnd EXCEPT !.left = 0, !.filled = @ + ret, !.at = "done"]
    /\ UNCHANGED call
GetRandom(ret) ==
    /\ rnd.at = "loop" /\ (ret > 0 \/ rnd.left = 0)
    /\ ret <= IF rnd.left < 0 THEN IntWord \div 2 - 1 ELSE rnd.left
    /\ rnd' = [rnd EXCEPT !.left = @ - ret, !.filled = @ + ret,
                          !.at = IF rnd.left - ret > 0 THEN "loop" ELSE "done"]
    /\ UNCHANGED call

(* An error, an interrupted call too, becomes an error of the caller's. *)
RandomFails ==
    /\ rnd.at = "loop" /\ rnd' = [rnd EXCEPT !.at = "failed"]
    /\ UNCHANGED call

RandomReturns ==
    /\ rnd.at \in {"done", "failed"} /\ rnd' = [rnd EXCEPT !.at = "idle"]
    /\ UNCHANGED call
-----------------------------------------------------------------------------
(* Another key: one byte longer, or another hash, salt or iteration count. *)
Compute(h, keylen, saltlen, iter) ==
    /\ rnd.at = "idle"
    /\ call' = [hash |-> h, key |-> [i \in 1..keylen |-> {<<"key", i>>}],
                salt |-> [i \in 1..saltlen |-> {<<"salt", i>>}], iter |-> iter]
    /\ UNCHANGED rnd

HashInit ==
    /\ call = [hash |-> "sha1", key |-> <<>>, salt |-> <<>>, iter |-> 1]
    /\ rnd = [at |-> "idle", len |-> 0, left |-> 0, filled |-> 0]
Hashing ==
    \E h \in DOMAIN Hash, keylen \in 0..MaxKey, saltlen \in 0..2, iter \in 0..MaxIter :
        Compute(h, keylen, saltlen, iter)
Drawing ==
    \/ \E len \in RandomLens : Lrandom(len)
    \/ \E ret \in 0..IntWord : GetRandom(ret)
    \/ RandomFails \/ RandomReturns
HashNext == Hashing \/ Drawing

HashSpec == HashInit /\ [][HashNext]_hashVars
-----------------------------------------------------------------------------
(* hmac is that of RFC 2104 for the hashes whose block has 64 bytes: a key  *)
(* of at most that length is used as it is, a longer one is hashed first.   *)
(* For SHA-512 it is not: the block is too short (hashes.c:77-113).         *)
HmacIsRfc2104 ==
    LET h == call.hash
        B == Hash[h].block
        K == IF Len(call.key) <= B THEN call.key ELSE Digest(h, call.key)
        Padded(p) == [i \in 1..B |-> Xor(IF i <= Len(K) THEN K[i] ELSE {}, p)]
    IN  B = Block =>
          hmac(h, call.key, call.salt) = Digest(h, Padded(OPAD) \o Digest(h, Padded(IPAD) \o call.salt))

(* Hi is that of RFC 5802: the exclusive or of U1 to Ui, where U1 is the    *)
(* HMAC of the salt and the number 1 and each other that of the one before; *)
(* no iterations count as one (hashes.c:145-196).                           *)
HiIsRfc5802 ==
    LET U[i \in 1..MaxIter] ==
            IF i = 1 THEN hmac("sha1", call.key, call.salt \o <<{}, {}, {}, {<<"one">>}>>)
            ELSE hmac("sha1", call.key, U[i - 1])
    IN  \A b \in 1..Hash.sha1.digest :
          LscramHi(call.key, call.salt, call.iter)[b] =
              XorAll([i \in 1..(IF call.iter = 0 THEN 1 ELSE call.iter) |-> U[i][b]])

(* The two functions SCRAM rests on are those of their standards. *)
ScramRight == HmacIsRfc2104 /\ HiIsRfc5802

(* However little getrandom gives at a time, it never writes behind the     *)
(* buffer, and for a length that an int can hold no byte of the result is   *)
(* left unset (crand.c:69-124).                                             *)
RandomFilled ==
    /\ rnd.filled <= rnd.len
    /\ rnd.at = "done" /\ rnd.len < IntWord \div 2 => rnd.filled = rnd.len
=============================================================================

------------------------------- MODULE Secp256k1 -------------------------------
(***************************************************************************)
(* The signature verifier written into the contract                        *)
(* (_verify_secp256k1_sha256 and the arithmetic under it), run bit by bit  *)
(* over a small curve y^2 = x^3 + 7 whose field and order are primes.      *)
(*                                                                         *)
(* SignedManifest assumes of it that a signature verifies under the key    *)
(* that made it, over the object it was made for.  The part of that which  *)
(* is arithmetic is checked here: the verifier accepts exactly the low-s   *)
(* solutions of the signature equation.  That nobody without the key finds *)
(* one is cryptography, and holds for no small curve.                      *)
(*                                                                         *)
(* Points are pairs, and the point at infinity (None) is << >>.            *)
(***************************************************************************)
EXTENDS Integers

CONSTANTS
    P, N,           \* the field, and the order of the curve's group
    Generator,
    PublicKeys,     \* pairs of numbers a caller may register or submit
    Digests,        \* message digests, as numbers
    Scalars         \* what r and s may be

ASSUME ParametersAssumption ==
    /\ P \in Nat /\ N \in Nat /\ P > 3 /\ N > 3
    /\ Generator \in (0..P-1) \X (0..P-1)
    /\ Digests \subseteq Nat /\ Scalars \subseteq Nat
    /\ PublicKeys \subseteq Nat \X Nat

VARIABLES
    public_key, r, s, message_number,   \* as submitted
    first, second,                      \* the two multiplications
    verdict                             \* "received", "pending", then the answer

verifierVars == <<public_key, r, s, message_number, first, second, verdict>>

-----------------------------------------------------------------------------
Infinity == << >>

\* base^exponent modulo modulus (Python's three-argument pow).
PowMod(base, exponent, modulus) ==
    LET pow[e \in 0..exponent] ==
            IF e = 0 THEN 1 % modulus ELSE (pow[e - 1] * base) % modulus
    IN  pow[exponent]

\* Fermat: the modulus is prime.  The inverse of zero raises.
ModInverse(number, modulus) == PowMod(number % modulus, modulus - 2, modulus)

IsOpposite(a, b) == a[1] = b[1] /\ (a[2] + b[2]) % P = 0

Slope(a, b) ==
    IF a = b
    THEN (3 * a[1] * a[1] * ModInverse(2 * a[2], P)) % P
    ELSE ((b[2] - a[2]) * ModInverse(b[1] - a[1], P)) % P

PointAdd(a, b) ==
    IF a = Infinity THEN b
    ELSE IF b = Infinity THEN a
    ELSE IF IsOpposite(a, b) THEN Infinity
    ELSE LET slope == Slope(a, b)
             x == (slope * slope - a[1] - b[1]) % P
             y == (slope * (a[1] - x) - a[2]) % P
         IN  <<x, y>>

\* Mutant: coordinates are not bounded by the field.
IsOnCurve(key) == (key[2] * key[2] - (key[1] * key[1] * key[1] + 7)) % P = 0

IsValidPublicKey(key) ==
    /\ key[1] < P /\ key[2] < P
    /\ (key[2] * key[2] - (key[1] * key[1] * key[1] + 7)) % P = 0

\* Mutant: half the order rounded up.
LooseRange == /\ r > 0 /\ r < N
              /\ s > 0 /\ s <= (N + 1) \div 2

InRange == /\ r > 0 /\ r < N
           /\ s > 0 /\ s <= N \div 2

\* A multiplication that is about to start.
Times(scalar, point) == [result |-> Infinity, addend |-> point, remaining |-> scalar]

NotStarted == Times(0, Infinity)

\* Mutant: the addend is doubled before it is added.
DoubledFirst(m) ==
    LET doubled == PointAdd(m.addend, m.addend)
    IN  [result    |-> IF m.remaining % 2 = 1 THEN PointAdd(m.result, doubled)
                       ELSE m.result,
         addend    |-> doubled,
         remaining |-> m.remaining \div 2]

\* Mutant: remaining is not shifted.
NeverShifted(m) ==
    [m EXCEPT !.result = IF m.remaining % 2 = 1 THEN PointAdd(m.result, m.addend)
                         ELSE m.result,
              !.addend = PointAdd(m.addend, m.addend)]

\* One turn of the loop of _point_mul.
NextBit(m) ==
    [result    |-> IF m.remaining % 2 = 1 THEN PointAdd(m.result, m.addend)
                   ELSE m.result,
     addend    |-> PointAdd(m.addend, m.addend),
     remaining |-> m.remaining \div 2]

-----------------------------------------------------------------------------
VerifierInit ==
    /\ public_key \in PublicKeys
    /\ r \in Scalars
    /\ s \in Scalars
    /\ message_number \in Digests
    /\ first = NotStarted
    /\ second = NotStarted
    /\ verdict = "received"

\* Keys and ranges first, then u1 * G + u2 * Q is set up.
Start ==
    /\ verdict = "received"
    /\ IF IsValidPublicKey(public_key) /\ InRange
       THEN LET inverse_s == ModInverse(s, N) IN
            /\ first' = Times((message_number * inverse_s) % N, Generator)
            /\ second' = Times((r * inverse_s) % N, public_key)
            /\ verdict' = "pending"
       ELSE /\ verdict' = "rejected"
            /\ UNCHANGED <<first, second>>
    /\ UNCHANGED <<public_key, r, s, message_number>>

Multiply ==
    /\ verdict = "pending"
    /\ \/ /\ first.remaining > 0
          /\ first' = NextBit(first)
          /\ UNCHANGED second
       \/ /\ first.remaining = 0
          /\ second.remaining > 0
          /\ second' = NextBit(second)
          /\ UNCHANGED first
    /\ UNCHANGED <<public_key, r, s, message_number, verdict>>

\* point is not None and point[0] % N == r
Matches(point) == point # Infinity /\ point[1] % N = r

Conclude ==
    /\ verdict = "pending"
    /\ first.remaining = 0
    /\ second.remaining = 0
    /\ verdict' = IF Matches(PointAdd(first.result, second.result))
                  THEN "accepted" ELSE "rejected"
    /\ UNCHANGED <<public_key, r, s, message_number, first, second>>

VerifierNext == Start \/ Multiply \/ Conclude

VerifierSpec == VerifierInit /\ [][VerifierNext]_verifierVars /\ WF_verifierVars(VerifierNext)
-----------------------------------------------------------------------------
(* The group, and the signature equation, by their definitions. *)

Group ==
    {Infinity} \cup
    {q \in (0..P-1) \X (0..P-1) : (q[2] * q[2]) % P = (q[1] * q[1] * q[1] + 7) % P}

\* The pairs of a number and that multiple of G, adding G one time after another.
Multiples ==
    LET multiple[k \in 0..N-1] ==
            IF k = 0 THEN Infinity ELSE PointAdd(multiple[k - 1], Generator)
    IN  {<<k, multiple[k]>> : k \in 0..N-1}

\* The curve is well chosen: adding G to itself goes once through all its
\* points, N of them with infinity, the order of additions of G does not
\* matter, and N is a prime (Fermat's little theorem).
ASSUME CurveAssumption ==
    /\ Generator \in Group
    /\ \A a \in Group : PointAdd(a, Generator) \in Group
    /\ \A a, b \in Group :
         PointAdd(PointAdd(a, b), Generator) = PointAdd(a, PointAdd(b, Generator))
    /\ Group = {m[2] : m \in Multiples}
    /\ \A m, n \in Multiples : m[2] = n[2] => m[1] = n[1]
    /\ \A m \in Multiples : m[1] = N - 1 => PointAdd(m[2], Generator) = Infinity
    /\ N % 2 = 1
    /\ \A x \in 1..N-1 : PowMod(x, N - 1, N) = 1

\* The number of times G was added: for a public key, the private key.
Log(point) == (CHOOSE m \in Multiples : m[2] = point)[1]

IsSignature ==
    /\ public_key \in Group \ {Infinity}
    /\ r \in 1..N-1
    /\ \E m \in Multiples :      \* the nonce, and the point it makes
         /\ m[2] # Infinity
         /\ m[2][1] % N = r
         /\ (s * m[1]) % N = (message_number + r * Log(public_key)) % N

\* Of s and N - s, which sign alike, s is the smaller.
IsLow == s \in 1..N-1 /\ s < N - s

(* The formulas of _point_add stay in the group of order N, whichever      *)
(* points the loops meet: no inverse of zero, and no point off the curve.  *)
VerifierTypeOK ==
    /\ Group = {m[2] : m \in Multiples}
    /\ \A m \in {first, second} :
         m.result \in Group /\ m.addend \in Group /\ m.remaining \in 0..N-1
    /\ verdict \in {"received", "pending", "accepted", "rejected"}

\* What a multiplication has added up, and what it still has to add.
Total(m) == Log(m.result) + m.remaining * Log(m.addend)

(* Bit by bit, no term is lost or counted twice: what both loops have and  *)
(* still have to add are message/s times G and r/s times the public key,   *)
(* also when a scalar is zero or a sum passes through infinity.            *)
MultiplicationIsExact ==
    verdict = "pending" =>
        /\ (s * Total(first)) % N = message_number % N
        /\ (s * Total(second)) % N = (r * Log(public_key)) % N

(* The verifier accepts a signature exactly when it solves the equation    *)
(* for the key and the message and is the low one of its pair: also where  *)
(* x exceeds the order, r or s is zero or out of range, the digest exceeds *)
(* the order, and the sum is the point at infinity.                        *)
VerdictIsExact ==
    /\ verdict = "accepted" => IsSignature /\ IsLow
    /\ verdict = "rejected" => ~(IsSignature /\ IsLow)

(* Whatever the caller submits, verification comes to an answer.           *)
VerificationEnds == <>(verdict \in {"accepted", "rejected"})
=============================================================================

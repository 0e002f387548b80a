----------------------------- MODULE DigestAuth -----------------------------
(***************************************************************************)
(* Digest authentication (src/http-auth.c), as the RTSP server uses it.    *)
(*                                                                         *)
(* A hash is perfect here: a response fits exactly the user, realm,        *)
(* password, method and uri it was made from, and a nonce that validates   *)
(* against our secret is one create_nonce made since the program started.  *)
(* A nonce is then its date, or Foreign; the 12 random bytes and whoever   *)
(* else was given the same nonce make no difference to check_digest_       *)
(* response.  The date travels as hexadecimal digits.                      *)
(***************************************************************************)
EXTENDS Integers

CONSTANTS
  Digits,      \* the hexadecimal digits of a date: 8 in the code
  Lifetime     \* 15 seconds

ASSUME DigitsAssumption   == Digits \in Nat \ {0}
ASSUME LifetimeAssumption == Lifetime \in Nat

Foreign == -1         \* a nonce that this process has not made

\* The weight of the digit with n digits after it; Width is 2^32 in the code.
Weight[n \in 0 .. Digits] == IF n = 0 THEN 1 ELSE 16 * Weight[n - 1]
Width == Weight[Digits]

\* PUT_32 and "%02x": the first digit is the most significant.
Hex(n) == [i \in 1 .. Digits |-> (n \div Weight[Digits - i]) % 16]

\* get_hex_u32.  The value of a decimal digit d is hex[i] - 0, that is 48 + d, and
\* the 3 of its upper four bits is ORed into the digit before.
Digit_NoTen(val, d) == (16 * val + (IF d < 10 THEN d ELSE d - 10)) % Width

Digit(val, d) ==
  LET or3 == (val - (val % 4)) + 3
  IN  (IF d < 10 THEN 16 * or3 + d ELSE 16 * val + d) % Width

GetHexU32(hex) ==
  LET read[i \in 0 .. Digits] == IF i = 0 THEN 0 ELSE Digit(read[i - 1], hex[i])
  IN  read[Digits]

\* The date of a nonce is never read as an earlier one: what is ORed into its digits
\* only adds, so that no nonce ends before its Lifetime.
NeverEarlier(n) == GetHexU32(Hex(n)) >= n

\* check_digest_response for a header that can be parsed: -1 the password is
\* wrong, 0 the nonce is stale, 1 authenticated.
CheckDigestResponse(right, nonce, now) ==
  IF ~ right THEN -1
  ELSE IF nonce = Foreign \/ now > GetHexU32(Hex(nonce)) + Lifetime THEN 0
  ELSE 1

=============================================================================

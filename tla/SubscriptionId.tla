--------------------------- MODULE SubscriptionId ---------------------------
(***************************************************************************)
(* The textual form of a subscription id.  Every call of `subscribe` takes *)
(* the next u64 and writes it on the wire in upper-case hexadecimal, the   *)
(* resend loop of a new connection writes the same number in decimal, and  *)
(* what comes back from the server is read in base 16.  A string is a      *)
(* sequence of digit values; two strings are equal exactly when their      *)
(* digits are.                                                             *)
(***************************************************************************)
EXTENDS Integers, Sequences

NoId == -1

\* Sixteen digits: in base 16 those of every u64, in base 10 of the numbers below 10^16, the
\* ones that read in base 16 do not overflow.
MaxWidth == 16

\* What is left of n after so many divisions, and how many it takes to leave nothing.
Quotients(n, base) ==
    LET left[k \in 0 .. MaxWidth] == IF k = 0 THEN n ELSE left[k - 1] \div base IN left
Width(n, base) ==
    CHOOSE k \in 1 .. MaxWidth :
        Quotients(n, base)[k] = 0 /\ \A j \in 1 .. k - 1 : Quotients(n, base)[j] # 0

Digits(n, base) ==
    [i \in 1 .. Width(n, base) |-> Quotients(n, base)[Width(n, base) - i] % base]

\* format!("{:X}", id), the id `subscribe` sends and the Subscription keeps.
UpperHex(n) == Digits(n, 16)

\* id.to_string(), the id the resend loop sends.
Decimal(n) == Digits(n, 10)

\* The number the first so many digits make.
Values(s, radix) ==
    LET value[i \in 0 .. Len(s)] == IF i = 0 THEN 0 ELSE value[i - 1] * radix + s[i] IN value

FromStrRadix(s, radix) ==
    IF s # <<>> /\ \A i \in DOMAIN s : s[i] < radix THEN Values(s, radix)[Len(s)] ELSE NoId

\* Mutation: the radix is not the one format! writes.
BugMessageId(s) == FromStrRadix(s, 10)

\* ServerMessage::id(): from_str_radix(id, 16).ok(), None being NoId.
MessageId(s) == FromStrRadix(s, 16)
=============================================================================

------------------------------ MODULE Signature ------------------------------
(***************************************************************************)
(* internal/webhook/signature.go (called through jsm/signature.go): is a   *)
(* delivery fresh and signed by the holder of the secret?                  *)
(*                                                                         *)
(* Header and body are texts over a small alphabet, so that ParseInt and   *)
(* the canonical message are what they are in the code.  Integers are      *)
(* int64 in Go and Width bits here, a second is a billion nanoseconds in   *)
(* Go and Nanos here.  The HMAC is ideal: it is valid for the message it   *)
(* was computed for and for no other.                                      *)
(***************************************************************************)
EXTENDS Integers, Sequences

CONSTANTS
    Width,       \* bits of an integer
    Nanos,       \* nanoseconds in a second
    UnixEpoch,   \* internal seconds of the Unix epoch (unixToInternal)
    Skew,        \* cfg.TimestampSkew, in nanoseconds
    MaxHeader,   \* bound on the length of the timestamp header
    MaxBody,     \* bound on the length of the body
    MaxNow       \* bound on the receiver's clock, in Unix seconds

\* Half of the integers are negative.
Half == 2^(Width - 1)

\* That Half is a positive integer follows from the first line, but not for
\* provers that know nothing of exponents.
ASSUME SignatureAssumption ==
    /\ {Width, Nanos} \subseteq Nat \ {0}
    /\ {UnixEpoch, Skew, MaxHeader, MaxBody, MaxNow} \subseteq Nat
    /\ Half \in Nat \ {0}

\* Internal seconds count from the year 1 and have not come to their end; a
\* Duration does not reach back from 1970 to there; and it exceeds the skew.
ASSUME EpochAssumption ==
    /\ MaxNow + UnixEpoch < Half
    /\ Half < (UnixEpoch + 1) * Nanos
    /\ Skew < Half - 1

Texts(max) == UNION {[1..n -> {"1", "-", ":"}] : n \in 0..max}
Messages == [ts : Texts(MaxHeader), body : Texts(MaxBody)]

Wrap(x) == ((x + Half) % (2 * Half)) - Half
MaxInt == Half - 1
MinInt == -Half

VARIABLES
    now,       \* the receiver's clock
    signed,    \* the message the holder of the secret signed
    received,  \* the last message delivered
    verdict    \* what Verify said of it

vars == <<now, signed, received, verdict>>

Verdicts == {"ok", "ErrTimestampMissing", "ErrTimestampMalformed",
             "ErrTimestampSkewed", "ErrMalformed", "ErrInvalidSignature"}

(***************************************************************************)
(* strconv.ParseInt and package time, which are external.                  *)
(***************************************************************************)
Digits(text) == IF text # <<>> /\ text[1] = "-" THEN Tail(text) ELSE text

\* The integer that a text of digits, with or without a sign, stands for.
Number(text) ==
    LET d == Digits(text)
        value[i \in 0..Len(d)] == IF i = 0 THEN 0 ELSE 10 * value[i - 1] + 1
    IN  IF d = text THEN value[Len(d)] ELSE -value[Len(d)]

ParseIntOk(text) ==
    /\ Digits(text) # <<>>
    /\ \A i \in 1..Len(Digits(text)) : Digits(text)[i] = "1"
    /\ Number(text) \in MinInt..MaxInt

\* time.Unix
Unix(secs) == Wrap(secs + UnixEpoch)

\* Time.Sub, which saturates: d is checked by adding it back.
Sub(t, u) ==
    LET d == Wrap(Wrap(t - u) * Nanos)
    IN  IF d % Nanos = 0 /\ Wrap(u + (d \div Nanos)) = t THEN d
        ELSE IF t < u THEN MinInt ELSE MaxInt

(***************************************************************************)
(* signature.go                                                            *)
(***************************************************************************)
\* Mutant: a timestamp ahead of the clock is never too far ahead.
VerifyTimestampPastOnly(header) ==
    IF header = <<>> THEN "ErrTimestampMissing"
    ELSE IF ~ParseIntOk(header) THEN "ErrTimestampMalformed"
    ELSE IF Sub(Unix(now), Unix(Number(header))) > Skew THEN "ErrTimestampSkewed"
    ELSE "ok"

VerifyTimestamp(header) ==
    IF header = <<>> THEN "ErrTimestampMissing"
    ELSE IF ~ParseIntOk(header) THEN "ErrTimestampMalformed"
    ELSE LET diff == Sub(Unix(now), Unix(Number(header)))
             delta == IF diff < 0 THEN Wrap(-diff) ELSE diff
         IN  IF delta > Skew THEN "ErrTimestampSkewed" ELSE "ok"

\* Mutant: no separator between timestamp and body.
canonicalMessageUnseparated(m) == <<"v0", ":">> \o m.ts \o m.body

canonicalMessage(m) == <<"v0", ":">> \o m.ts \o <<":">> \o m.body

\* A signature header without the prefix or not in hex is garbled.
VerifyHMAC(canonical, sig) ==
    IF sig = "garbled" THEN "ErrMalformed"
    ELSE IF sig = "signed" /\ canonical = canonicalMessage(signed) THEN "ok"
    ELSE "ErrInvalidSignature"

\* Mutant: the signature is checked first.
VerifySignatureFirst(m, sig) ==
    LET hmac == VerifyHMAC(canonicalMessage(m), sig)
    IN  IF hmac # "ok" THEN hmac ELSE VerifyTimestamp(m.ts)

\* Mutant: an error that wraps no sentinel.
VerifyWrapped(m, sig) ==
    LET fresh == VerifyTimestamp(m.ts)
    IN  IF fresh # "ok" THEN "timestamp rejected" ELSE VerifyHMAC(canonicalMessage(m), sig)

Verify(m, sig) ==
    LET fresh == VerifyTimestamp(m.ts)
    IN  IF fresh # "ok" THEN fresh ELSE VerifyHMAC(canonicalMessage(m), sig)

(***************************************************************************)
(* The sender signs one message with an integer for a timestamp, right or  *)
(* wrong; anything may be delivered, with that signature, another one or a *)
(* garbled one, at any time.                                               *)
(***************************************************************************)
TypeOK ==
    /\ now \in 0..MaxNow
    /\ signed \in Messages
    /\ received \in Messages
    /\ verdict \in Verdicts \cup {"none"}

Init ==
    /\ now = 0
    /\ signed \in {m \in Messages : ParseIntOk(m.ts)}
    /\ received = signed
    /\ verdict = "none"

Deliver(m, sig) ==
    /\ received' = m
    /\ verdict' = Verify(m, sig)
    /\ UNCHANGED <<now, signed>>

Tick ==
    /\ now < MaxNow
    /\ now' = now + 1
    /\ verdict' = "none"
    /\ UNCHANGED <<signed, received>>

Next ==
    \/ \E m \in Messages, sig \in {"signed", "other", "garbled"} : Deliver(m, sig)
    \/ Tick

Spec == Init /\ [][Next]_vars

(***************************************************************************)
(* Properties                                                              *)
(***************************************************************************)
\* The distance between the clock and the received timestamp.
Distance ==
    LET d == (now - Number(received.ts)) * Nanos IN IF d < 0 THEN -d ELSE d

(* Only the message that was signed is accepted, text for text: with the    *)
(* timestamp parsed first, no other split of the canonical message into     *)
(* timestamp and body gets through with the same signature.                 *)
Authentic == verdict = "ok" => received = signed

(* As far as Duration reaches, the window is exact on both sides: a         *)
(* well-formed timestamp is reported as skewed if and only if it is more    *)
(* than Skew away from the clock.                                           *)
WindowExact ==
    verdict # "none" /\ ParseIntOk(received.ts) /\ Distance <= MaxInt =>
      (verdict = "ErrTimestampSkewed" <=> Distance > Skew)

(* A signature is called invalid or malformed only for a message whose      *)
(* timestamp is well-formed, so that a replay is never taken for            *)
(* corruption.                                                              *)
ReplayToldFromCorruption ==
    verdict \in {"ErrMalformed", "ErrInvalidSignature"} =>
      ParseIntOk(received.ts) /\ (Distance <= MaxInt => Distance <= Skew)

(* Nothing outside the window is accepted, but for the one case in which    *)
(* the code departs from "rejects any value outside [now-skew, now+skew]":  *)
(* a timestamp so far ahead that the difference saturates at the smallest   *)
(* Duration, which stays negative when it is negated.  A timestamp of the   *)
(* past is refused however long ago it was.                                 *)
WindowRespected ==
    verdict = "ok" =>
      Distance <= Skew \/ (Number(received.ts) > now /\ Distance > MaxInt)

=============================================================================

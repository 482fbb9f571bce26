---------------------------- MODULE TokenBuilder ----------------------------
(***************************************************************************)
(* TokenBuilder of peios/src/token.rs: chained setters that cannot fail    *)
(* one by one.  There are two places an error can latch: `pending`, for    *)
(* what Rust refuses before the C call (a source name that is too long, an *)
(* interior NUL), and the C builder's own sticky error.                    *)
(*                                                                         *)
(* The C builder is external: an argument it refuses latches an errno and, *)
(* from then on, it ignores what it is given until it is reset.            *)
(***************************************************************************)
EXTENDS Naturals, Sequences

CONSTANTS Plain,     \* setters that only pass their argument on (user, ...)
          Errnos,    \* what the C builder may latch (EINVAL, ENOMEM, ...)
          EINVAL,    \* what Rust latches
          None,      \* 0: no error
          MaxCalls   \* bound: setters called between two resets

ASSUME TokenBuilderAssumption ==
    /\ None \notin Errnos \union {EINVAL}
    /\ MaxCalls \in Nat

Setters == Plain \union {"source", "claim", "lcs_credentials"}

VARIABLES content,   \* what the C builder has taken, in order
          sticky,    \* the C builder's latched error
          pending,   \* the Rust-side latch
          asked,     \* history: the setters called since new or reset
          first,     \* history: the first refusal since new or reset
          answer     \* the last answer of to_bytes or create

vars == <<content, sticky, pending, asked, first, answer>>

NoAnswer == [kind |-> "none", got |-> <<>>, asked |-> <<>>]

Init ==
    /\ content = <<>> /\ sticky = None /\ pending = None
    /\ asked = <<>> /\ first = None /\ answer = NoAnswer

-----------------------------------------------------------------------------
\* Latch a Rust-side error; the first one wins.
latch(e) == pending' = IF pending = None THEN e ELSE pending

Refused(e) == first' = IF first = None THEN e ELSE first

Called(f) == Len(asked) < MaxCalls /\ asked' = Append(asked, f)

\* The C builder takes what it is given, refuses it, or is past caring.
Hand(f) ==
    \/ /\ sticky = None
       /\ content' = Append(content, f) /\ UNCHANGED <<sticky, first>>
    \/ /\ sticky = None /\ UNCHANGED content
       /\ \E e \in Errnos : sticky' = e /\ Refused(e)
    \/ sticky # None /\ UNCHANGED <<content, sticky, first>>

(* The setters that hand their argument to the C builder as it is. *)
PlainSetter(f) ==
    Called(f) /\ Hand(f) /\ UNCHANGED <<pending, answer>>

(* source: a name longer than its field latches EINVAL and goes no further. *)
source(fits) ==
    /\ Called("source")
    /\ \/ fits /\ Hand("source") /\ UNCHANGED pending
       \/ ~fits /\ latch(EINVAL) /\ Refused(EINVAL) /\ UNCHANGED <<content, sticky>>
    /\ UNCHANGED answer

(* add_user_claim and add_device_claim, through with_claim: a name with an *)
(* interior NUL latches EINVAL and skips the C call.                       *)
with_claim(fits) ==
    /\ Called("claim")
    /\ \/ fits /\ Hand("claim") /\ UNCHANGED pending
       \/ ~fits /\ latch(EINVAL) /\ Refused(EINVAL) /\ UNCHANGED <<content, sticky>>
    /\ UNCHANGED answer

(* lcs_credentials: likewise for a private layer's name. *)
lcs_credentials(fits) ==
    /\ Called("lcs_credentials")
    /\ \/ fits /\ Hand("lcs_credentials") /\ UNCHANGED pending
       \/ ~fits /\ latch(EINVAL) /\ Refused(EINVAL) /\ UNCHANGED <<content, sticky>>
    /\ UNCHANGED answer

\* A bug: the Rust-side latch outlives the reset.
ResetKeepsPending ==
    /\ content' = <<>> /\ sticky' = None
    /\ asked' = <<>> /\ first' = None
    /\ UNCHANGED <<pending, answer>>

(* reset clears both latches and the contents. *)
reset ==
    /\ pending' = None
    /\ content' = <<>> /\ sticky' = None
    /\ asked' = <<>> /\ first' = None
    /\ UNCHANGED answer

(* error: the Rust-side latch when there is one, else the C builder's. *)
error == IF pending # None THEN pending ELSE sticky

Answer(k) == answer' = [kind |-> k, got |-> content, asked |-> asked]

Err == answer' = NoAnswer

(* to_bytes: the latched error, what the C serialiser refuses, or the spec. *)
to_bytes ==
    /\ \/ error # None /\ Err
       \/ error = None /\ (Err \/ Answer("bytes"))
    /\ UNCHANGED <<content, sticky, pending, asked, first>>

\* A bug: create leaves it to the C builder to report errors.
CreateTrustsC ==
    /\ \/ sticky # None /\ Err
       \/ sticky = None /\ (Err \/ Answer("token"))
    /\ UNCHANGED <<content, sticky, pending, asked, first>>

(* create: the latched error, a refusal of the kernel, or the token. *)
create ==
    /\ \/ error # None /\ Err
       \/ error = None /\ (Err \/ Answer("token"))
    /\ UNCHANGED <<content, sticky, pending, asked, first>>

Next ==
    \/ \E f \in Plain : PlainSetter(f)
    \/ \E fits \in BOOLEAN : source(fits) \/ with_claim(fits) \/ lcs_credentials(fits)
    \/ reset \/ to_bytes \/ create

Spec == Init /\ [][Next]_vars

-----------------------------------------------------------------------------
(* The type invariant. *)
TypeOK ==
    /\ content \in Seq(Setters) /\ asked \in Seq(Setters)
    /\ Len(content) <= Len(asked)
    /\ sticky \in Errnos \union {None} /\ pending \in {EINVAL, None}
    /\ first \in Errnos \union {EINVAL, None}
    /\ answer \in [kind : {"none", "bytes", "token"},
                   got : Seq(Setters), asked : Seq(Setters)]

(* A spec or token that is handed out has everything the caller asked for  *)
(* since the last reset, in order: a setting that was refused, in Rust or  *)
(* in C, at any point of the chain, is never just missing from the token.  *)
BuiltAsAsked == answer.got = answer.asked

(* error() reports an error exactly when a setter since the last reset was *)
(* refused: a reused builder starts clean and no refusal is forgotten.     *)
ErrorIffRefused == error = None <=> first = None

(* The inductive invariant: as long as nothing was refused the C builder   *)
(* holds what was asked for.                                               *)
BuilderInv ==
    /\ TypeOK /\ BuiltAsAsked /\ ErrorIffRefused
    /\ first = None => content = asked

=============================================================================

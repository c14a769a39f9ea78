---------------------------- MODULE Pages_proofs ----------------------------
(***************************************************************************)
(* Theorems about SignIn, Ownership, Projects and Tail, for any number of  *)
(* addresses, codes and attempts, of users, offers and requests under way, *)
(* of projects and answers, and of rows.                                   *)
(***************************************************************************)
EXTENDS SignIn, Ownership, Projects, Tail, Ordering

-----------------------------------------------------------------------------
(* Signing in: the invariant                                               *)

Addresses == Email \cup {NoEmail}
Form ==
  [step : {"email", "password", "code", "reset-email", "reset-code", "reset-password"},
   mode : {"login", "signup"}, email : Addresses, resetEmail : Addresses,
   token : [email : Addresses, by : Nat]]
CliLogin ==
  [step : {"email", "asked", "code", "password", "reset-code", "done"}, email : Addresses]

SiTypes ==
  /\ codes \in Seq(Code) /\ Len(codes) <= MaxCodes
  /\ accounts \subseteq Email
  /\ password \in [Email -> CodeId \cup {Unset, Initial}]
  /\ sessions \subseteq [email : Email, by : CodeId \cup {Initial}]
  /\ form \in Form /\ cliLogin \in CliLogin /\ user \in Addresses
  /\ overlap \in [CodeId -> 0..Cardinality(Client)]

(* A request is a record of its four fields. Only the login of an address  *)
(* is known to have one: the others are as the form is.                    *)
IsRequest(r) ==
  /\ r = [kind |-> r.kind, email |-> r.email, arg |-> r.arg, record |-> r.record]
  /\ r.kind = "login" => r.email \in Email

(* A check that is under way works on a code of its own address.           *)
Reads(r) == r.record # Wrong =>
  /\ r.record \in 1..Len(codes) /\ r.kind \in Checks
  /\ codes[r.record].email = r.email

RequestsAreFit ==
  /\ requests = [c \in Client |-> requests[c]]
  /\ \A c \in Client : IsRequest(requests[c]) /\ Reads(requests[c])

(* The token of the form was given for a used code of its address.         *)
TokenIsProven ==
  /\ form.token # NoToken =>
       /\ form.token.by \in 1..Len(codes)
       /\ codes[form.token.by].email = form.token.email /\ codes[form.token.by].used
  /\ form.step = "reset-password" => form.token # NoToken

(* What proves a password or a session is a code that was sent.            *)
ProofsExist ==
  /\ \A s \in sessions : s.by # Initial => s.by \in 1..Len(codes)
  /\ \A e \in Email : password[e] \in CodeId => password[e] \in 1..Len(codes)

(* GuessesBounded is not inductive: a check that has read a code will      *)
(* still count its guess.                                                  *)
Pending(n) == Cardinality(Checking(n))
CountedOf(n) ==
  codes[n].attempts + Pending(n) < MaxAttempts + overlap[n] /\ Pending(n) <= overlap[n]
GuessesCounted == \A n \in 1..Len(codes) : CountedOf(n)

SiInv == /\ SiTypes /\ RequestsAreFit /\ TokenIsProven
         /\ ProofsExist /\ CredentialsAreProven /\ GuessesCounted

-----------------------------------------------------------------------------
(* Signing in: the constants                                               *)

(* What the model's constants are.                                         *)
LEMMA Numbers ==
  /\ Wrong = 0 /\ MaxCodes \in Nat /\ MaxAttempts \in Nat \ {0}
  /\ Unset \notin CodeId /\ Initial \notin CodeId /\ CodeId \subseteq Nat \ {0}
  /\ NoEmail \notin Email
  BY SignInAssumption DEF Wrong, Unset, Initial, CodeId

-----------------------------------------------------------------------------
(* Signing in: what requests, answers and codes do to the invariant        *)

(* No code is lost, changes its address or becomes unused again.           *)
Grow ==
  /\ codes' \in Seq(Code) /\ Len(codes) <= Len(codes') /\ Len(codes') <= MaxCodes
  /\ \A n \in 1..Len(codes) :
       codes'[n].email = codes[n].email /\ (codes[n].used => codes'[n].used)

(* Codes that are left alone.                                              *)
LEMMA CodesStay ==
  ASSUME SiTypes, codes' = codes
  PROVE  Grow
  BY DEF SiTypes, Grow

(* A code that was sent is a code.                                         *)
LEMMA CodeTyped ==
  ASSUME SiTypes, NEW n \in 1..Len(codes)
  PROVE  codes[n] \in Code
<1>1. codes \in Seq(Code)
  BY DEF SiTypes
<1> QED
  BY <1>1

(* The number of a code is an id, and nothing that stands for no code.     *)
LEMMA CodeNumbered ==
  ASSUME SiTypes, NEW n \in 1..Len(codes)
  PROVE  n \in Nat /\ n \in CodeId /\ n # Wrong /\ n # Initial
<1>1. Len(codes) \in Nat /\ Len(codes) <= MaxCodes
  BY DEF SiTypes
<1>2. n \in CodeId
  BY <1>1, Numbers DEF CodeId
<1> QED
  BY <1>2, Numbers

(* One code is changed.                                                    *)
LEMMA CodeChanges ==
  ASSUME SiTypes, NEW n \in 1..Len(codes), NEW x \in Code,
         x.email = codes[n].email, codes[n].used => x.used,
         codes' = [codes EXCEPT ![n] = x]
  PROVE  Grow /\ Len(codes') = Len(codes) /\ codes'[n] = x
         /\ \A k \in 1..Len(codes) \ {n} : codes'[k] = codes[k]
<1>1. codes \in Seq(Code) /\ Len(codes) <= MaxCodes
  BY DEF SiTypes
<1>2. codes' \in Seq(Code) /\ Len(codes') = Len(codes)
  BY <1>1
<1>3. \A k \in 1..Len(codes) : codes'[k] = IF k = n THEN x ELSE codes[k]
  BY <1>1
<1> QED
  BY <1>1, <1>2, <1>3 DEF Grow

(* An answer frees the client.                                             *)
LEMMA AnswerFrees ==
  ASSUME SiTypes, RequestsAreFit, NEW c \in Client, Answered(c), Grow
  PROVE  /\ RequestsAreFit'
         /\ requests'[c].record = Wrong
         /\ \A d \in Client \ {c} : requests'[d] = requests[d]
<1>1. /\ requests' = [d \in Client |-> requests'[d]]
      /\ requests'[c] = Idle
      /\ \A d \in Client \ {c} : requests'[d] = requests[d]
  BY DEF RequestsAreFit, Answered
<1>2. IsRequest(requests[c])' /\ Reads(requests[c])' /\ requests'[c].record = Wrong
  BY <1>1 DEF IsRequest, Reads, Idle
<1>3. ASSUME NEW d \in Client \ {c}
      PROVE  IsRequest(requests[d])' /\ Reads(requests[d])'
  BY <1>1 DEF RequestsAreFit, IsRequest, Reads, Grow, SiTypes
<1> QED
  BY <1>1, <1>2, <1>3 DEF RequestsAreFit

(* A client that sends a request.                                          *)
LEMMA PostFits ==
  ASSUME SiTypes, RequestsAreFit, NEW c \in Client, NEW kind, NEW e, NEW arg,
         Post(c, kind, e, arg), kind = "login" => e \in Email, codes' = codes
  PROVE  /\ RequestsAreFit'
         /\ requests'[c].record = Wrong
         /\ \A d \in Client \ {c} : requests'[d] = requests[d]
<1> DEFINE r == [kind |-> kind, email |-> e, arg |-> arg, record |-> Wrong]
<1>1. /\ requests' = [d \in Client |-> requests'[d]]
      /\ requests'[c] = r
      /\ \A d \in Client \ {c} : requests'[d] = requests[d]
  BY DEF RequestsAreFit, Post
<1>2. IsRequest(requests[c])' /\ Reads(requests[c])' /\ requests'[c].record = Wrong
  BY <1>1 DEF IsRequest, Reads
<1>3. ASSUME NEW d \in Client \ {c}
      PROVE  IsRequest(requests[d])' /\ Reads(requests[d])'
  BY <1>1 DEF RequestsAreFit, IsRequest, Reads
<1> QED
  BY <1>1, <1>2, <1>3 DEF RequestsAreFit

(* The form keeps its token or drops it, and what an answer or a click     *)
(* shows needs none.                                                       *)
FormSafe ==
  /\ form' \in Form
  /\ form'.token = form.token \/ (form'.token = NoToken /\ form'.step # "reset-password")
  /\ form'.step = "reset-password" => form.step = "reset-password"

(* A token stays proven while codes only grow and the form is safe.        *)
LEMMA TokenKept ==
  ASSUME SiTypes, Grow, TokenIsProven, FormSafe
  PROVE  TokenIsProven'
<1>1. CASE form'.token = form.token
  BY <1>1 DEF TokenIsProven, FormSafe, Grow, SiTypes
<1>2. CASE form'.token = NoToken /\ form'.step # "reset-password"
  BY <1>2 DEF TokenIsProven
<1> QED
  BY <1>1, <1>2 DEF FormSafe

(* Credentials stay proven when none is added.                             *)
LEMMA CredentialsKept ==
  ASSUME SiTypes, Grow, ProofsExist, CredentialsAreProven, UNCHANGED <<sessions, password>>
  PROVE  ProofsExist' /\ CredentialsAreProven'
<1>1. \A n \in 1..Len(codes) : n \in 1..Len(codes')
  BY DEF Grow, SiTypes
<1>2. ProofsExist'
  BY <1>1 DEF ProofsExist
<1>3. CredentialsAreProven'
  BY DEF ProofsExist, CredentialsAreProven, Grow
<1> QED
  BY <1>2, <1>3

(* The greater of two numbers.                                             *)
LEMMA GreaterOfTwo ==
  ASSUME NEW a \in Nat, NEW b \in Nat
  PROVE  Max({a, b}) \in {a, b} /\ Max({a, b}) >= a /\ Max({a, b}) >= b
<1>1. \E x \in {a, b} : \A y \in {a, b} : x >= y
  <2>1. CASE a >= b
    BY <2>1
  <2>2. CASE ~(a >= b)
    <3>1. b >= a /\ b >= b
      BY <2>2
    <3> QED
      BY <3>1
  <2> QED
    BY <2>1, <2>2
<1> QED
  BY <1>1 DEF Max

(* The clients are finitely many, and so are those that check a code.      *)
LEMMA ClientsAreFinite ==
  /\ IsFiniteSet(Client) /\ Cardinality(Client) \in Nat
  /\ {"browser", "cli"} \subseteq Client
<1> DEFINE S == OtherClient \cup {"browser"}
<1>1. IsFiniteSet(OtherClient)
  BY SignInAssumption
<1>2. IsFiniteSet(S)
  BY <1>1, FS_AddElement
<1>3. Client = S \cup {"cli"}
  BY DEF Client
<1> HIDE DEF S
<1>4. IsFiniteSet(Client)
  BY <1>2, <1>3, FS_AddElement
<1> QED
  BY <1>4, FS_CardinalityType DEF Client

LEMMA ChecksAreFinite ==
  ASSUME NEW n
  PROVE  /\ IsFiniteSet(Checking(n)) /\ Pending(n) \in Nat
         /\ \A S \in SUBSET Checking(n) : Cardinality(S) \in Nat /\ Cardinality(S) <= Pending(n)
<1>1. Checking(n) \in SUBSET Client
  BY DEF Checking
<1>2. IsFiniteSet(Checking(n))
  BY <1>1, ClientsAreFinite, FS_Subset
<1>3. ASSUME NEW S \in SUBSET Checking(n)
      PROVE  Cardinality(S) \in Nat /\ Cardinality(S) <= Pending(n)
  BY <1>2, FS_Subset, FS_CardinalityType DEF Pending
<1>4. Pending(n) \in Nat
  BY <1>2, FS_CardinalityType DEF Pending
<1> QED
  BY <1>2, <1>3, <1>4

(* A check of a code that ends frees one guess; no other step adds one.    *)
LEMMA PendingFalls ==
  ASSUME NEW n, n # Wrong,
         \A d \in Client : requests'[d].record \in {requests[d].record, Wrong}
  PROVE  /\ Pending(n)' \in Nat /\ Pending(n)' <= Pending(n)
         /\ \A c \in Client : requests[c].record = n /\ requests'[c].record = Wrong
                            => Pending(n)' <= Pending(n) - 1
<1>1. Checking(n)' \in SUBSET Checking(n)
  BY DEF Checking
<1>2. Pending(n)' \in Nat /\ Pending(n)' <= Pending(n)
  BY <1>1, ChecksAreFinite DEF Pending
<1>3. ASSUME NEW c \in Client, requests[c].record = n, requests'[c].record = Wrong
      PROVE  Pending(n)' <= Pending(n) - 1
  <2> DEFINE R == Checking(n) \ {c}
  <2>1. Checking(n)' \in SUBSET R
    BY <1>1, <1>3 DEF Checking
  <2>2. c \in Checking(n) /\ IsFiniteSet(Checking(n))
    BY <1>3, ChecksAreFinite DEF Checking
  <2>3. IsFiniteSet(R) /\ Cardinality(R) = Pending(n) - 1
    BY <2>2, FS_RemoveElement DEF Pending
  <2> HIDE DEF R
  <2>4. Cardinality(Checking(n)') <= Cardinality(R)
    BY <2>1, <2>3, FS_Subset
  <2> QED
    BY <2>3, <2>4 DEF Pending
<1> QED
  BY <1>2, <1>3

(* No guess is added: no attempt counts and no code is read.               *)
LEMMA GuessesKept ==
  ASSUME SiTypes, RequestsAreFit, GuessesCounted, Grow, overlap' = overlap,
         \A n \in 1..Len(codes) : codes'[n].attempts = codes[n].attempts,
         \A n \in 1..Len(codes') : n \notin 1..Len(codes) => codes'[n].attempts = 0,
         \A d \in Client : requests'[d].record \in {requests[d].record, Wrong}
  PROVE  GuessesCounted'
<1>1. ASSUME NEW n \in 1..Len(codes')
      PROVE  CountedOf(n)'
  <2>0. n \in Nat /\ n # Wrong /\ MaxAttempts \in Nat \ {0}
    BY Numbers
  <2>1. Pending(n)' \in Nat /\ Pending(n)' <= Pending(n) /\ Pending(n) \in Nat
    BY <2>0, PendingFalls, ChecksAreFinite
  <2>2. overlap[n] \in Nat
    <3>1. n \in CodeId
      BY <2>0, Numbers DEF Grow, CodeId
    <3> QED
      BY <3>1, ClientsAreFinite DEF SiTypes
  <2>3. CASE n \in 1..Len(codes)
    <3>1. codes[n].attempts \in Nat /\ codes'[n].attempts = codes[n].attempts
      BY <2>3, CodeTyped DEF Code
    <3>2. CountedOf(n)
      BY <2>3 DEF GuessesCounted
    <3> QED
      BY <2>0, <2>1, <2>2, <3>1, <3>2 DEF CountedOf
  <2>4. CASE n \notin 1..Len(codes)
    <3>1. \A d \in Client : requests[d].record # n
      BY <2>0, <2>4 DEF RequestsAreFit, Reads
    <3>2. Checking(n) = {}
      BY <3>1 DEF Checking
    <3>3. Pending(n) = 0
      BY <3>2, FS_EmptySet DEF Pending
    <3> QED
      BY <2>0, <2>1, <2>2, <2>4, <3>3 DEF CountedOf
  <2> QED
    BY <2>3, <2>4
<1> QED
  BY <1>1 DEF GuessesCounted

-----------------------------------------------------------------------------
(* Signing in: the server                                                  *)

(* What a client does with an answer that brings no token.                 *)
LEMMA RepliesAreSafe ==
  ASSUME SiTypes, NEW c \in Client,
         \/ Refused(c) \/ \E intent : WrongTab(c, intent)
         \/ \E e \in Email : SignedIn(c, e)
         \/ \E step \in {"password", "code", "reset-code"} : GoTo(c, step)
  PROVE  Answered(c) /\ FormSafe /\ cliLogin' \in CliLogin /\ user' \in Addresses
<1>0. form \in Form /\ cliLogin \in CliLogin /\ user \in Addresses
  BY DEF SiTypes
<1>1. ASSUME Refused(c)
      PROVE  Answered(c) /\ FormSafe /\ cliLogin' \in CliLogin /\ user' \in Addresses
  BY <1>0, <1>1 DEF Refused, FormSafe, CliLogin
<1>2. ASSUME NEW intent, WrongTab(c, intent)
      PROVE  Answered(c) /\ FormSafe /\ cliLogin' \in CliLogin /\ user' \in Addresses
  <2>1. CASE Refused(c)
    BY <1>1, <2>1
  <2>2. CASE ~Refused(c)
    <3>1. /\ Answered(c) /\ UNCHANGED <<cliLogin, user>>
          /\ form' = [form EXCEPT !.mode = IF intent = "login" THEN "signup" ELSE "login"]
      BY <1>2, <2>2 DEF WrongTab
    <3> QED
      BY <1>0, <3>1 DEF FormSafe, Form
  <2> QED
    BY <2>1, <2>2
<1>3. ASSUME NEW e \in Email, SignedIn(c, e)
      PROVE  Answered(c) /\ FormSafe /\ cliLogin' \in CliLogin /\ user' \in Addresses
  <2>1. Blank \in Form /\ Blank.token = NoToken /\ Blank.step = "email"
    BY Numbers DEF Blank, Form, NoToken, Addresses
  <2> QED
    BY <1>0, <1>3, <2>1 DEF SignedIn, FormSafe, CliLogin, Addresses
<1>4. ASSUME NEW step \in {"password", "code", "reset-code"}, GoTo(c, step)
      PROVE  Answered(c) /\ FormSafe /\ cliLogin' \in CliLogin /\ user' \in Addresses
  BY <1>0, <1>4 DEF GoTo, Step, FormSafe, CliLogin, Form
<1> QED
  BY <1>1, <1>2, <1>3, <1>4

(* An answer that adds no credential, no code and no guess.                *)
LEMMA QuietAnswer ==
  ASSUME SiInv, NEW c \in Client, Answered(c), FormSafe,
         cliLogin' \in CliLogin, user' \in Addresses,
         UNCHANGED <<codes, accounts, password, sessions, overlap>>
  PROVE  SiInv'
<1>0. SiTypes /\ RequestsAreFit /\ TokenIsProven /\ ProofsExist /\ CredentialsAreProven
      /\ GuessesCounted
  BY DEF SiInv
<1>1. Grow
  BY <1>0, CodesStay
<1>2. SiTypes'
  BY <1>0 DEF SiTypes, FormSafe
<1>3. RequestsAreFit' /\ \A d \in Client : requests'[d].record \in {requests[d].record, Wrong}
  BY <1>0, <1>1, AnswerFrees
<1>4. TokenIsProven' /\ ProofsExist' /\ CredentialsAreProven'
  BY <1>0, <1>1, TokenKept, CredentialsKept
<1>5. GuessesCounted'
  BY <1>0, <1>1, <1>3, GuessesKept
<1> QED
  BY <1>2, <1>3, <1>4, <1>5 DEF SiInv

(* A login sends a new code or none.                                       *)
LEMMA LoginKeeps ==
  ASSUME SiInv, NEW c \in Client, Login(c)
  PROVE  SiInv'
<1> DEFINE e == requests[c].email
           intent == requests[c].arg
           x == [email |-> e, attempts |-> 0, used |-> FALSE, expired |-> FALSE]
<1>0. SiTypes /\ RequestsAreFit /\ TokenIsProven /\ ProofsExist /\ CredentialsAreProven
      /\ GuessesCounted
  BY DEF SiInv
<1>1. UNCHANGED <<accounts, password, sessions, overlap>> /\ requests[c].kind = "login"
  BY DEF Login
<1>2. e \in Email
  BY <1>0, <1>1 DEF RequestsAreFit, IsRequest
<1>3. \/ UNCHANGED codes /\ (Refused(c) \/ WrongTab(c, intent) \/ GoTo(c, "password"))
      \/ /\ Len(codes) < MaxCodes /\ codes' = Append(codes, x)
         /\ GoTo(c, "reset-code") \/ GoTo(c, "code")
  BY DEF Login
<1>4. /\ Answered(c) /\ FormSafe /\ cliLogin' \in CliLogin /\ user' \in Addresses
  <2>1. \/ Refused(c) \/ WrongTab(c, intent)
        \/ GoTo(c, "password") \/ GoTo(c, "reset-code") \/ GoTo(c, "code")
    BY <1>3
  <2> QED
    BY <1>0, <2>1, RepliesAreSafe
<1>5. CASE UNCHANGED codes
  BY <1>1, <1>4, <1>5, QuietAnswer
<1>6. CASE Len(codes) < MaxCodes /\ codes' = Append(codes, x)
  <2>1. x \in Code /\ codes \in Seq(Code) /\ MaxCodes \in Nat
    BY <1>0, <1>2, Numbers DEF Code, SiTypes
  <2>2. /\ codes' \in Seq(Code) /\ Len(codes') = Len(codes) + 1
        /\ codes'[Len(codes) + 1] = x
        /\ \A n \in 1..Len(codes) : codes'[n] = codes[n]
    BY <1>6, <2>1
  <2>3. Grow
    BY <1>6, <2>1, <2>2 DEF Grow
  <2>4. SiTypes'
    BY <1>0, <1>1, <1>4, <2>3 DEF SiTypes, Grow, FormSafe
  <2>5. RequestsAreFit' /\ \A d \in Client : requests'[d].record \in {requests[d].record, Wrong}
    BY <1>0, <1>4, <2>3, AnswerFrees
  <2>6. TokenIsProven' /\ ProofsExist' /\ CredentialsAreProven'
    BY <1>0, <1>1, <1>4, <2>3, TokenKept, CredentialsKept
  <2>7. GuessesCounted'
    <3>1. \A n \in 1..Len(codes') : n \notin 1..Len(codes) => codes'[n].attempts = 0
      BY <2>1, <2>2
    <3> QED
      BY <1>0, <1>1, <2>2, <2>3, <2>5, <3>1, GuessesKept
  <2> QED
    BY <2>4, <2>5, <2>6, <2>7 DEF SiInv
<1> QED
  BY <1>3, <1>5, <1>6

(* The latest unused code of the address is read: it still takes a guess.  *)
LEMMA ReadCodeKeeps ==
  ASSUME SiInv, NEW c \in Client, ReadCode(c)
  PROVE  SiInv'
<1> DEFINE open == UnusedOf(requests[c].email)
           latest == CHOOSE m \in open : \A k \in open : k <= m
<1>0. SiTypes /\ RequestsAreFit /\ TokenIsProven /\ ProofsExist /\ CredentialsAreProven
      /\ GuessesCounted
  BY DEF SiInv
<1>1. UNCHANGED <<codes, accounts, password, sessions>> /\ Grow
  BY <1>0, CodesStay DEF ReadCode
<1>2. CASE Refused(c) /\ UNCHANGED overlap
  BY <1>0, <1>1, <1>2, RepliesAreSafe, QuietAnswer
<1>3. CASE ~(Refused(c) /\ UNCHANGED overlap)
  <2>0. PICK n : n = latest
    OBVIOUS
  <2>1. /\ overlap' = [overlap EXCEPT ![n] = Max({@, Pending(n) + 1})]
        /\ open # {} /\ ~TooMany(n) /\ UNCHANGED <<form, cliLogin, user>>
        /\ requests' = [requests EXCEPT ![c].record = n]
        /\ requests[c].kind \in Checks /\ requests[c].record = Wrong
    BY <1>3, <2>0 DEF ReadCode, Pending
  <2>2. n \in open
    <3>1. Len(codes) \in Nat /\ open \in SUBSET (1..Len(codes))
      BY <1>0 DEF UnusedOf, Unused, SiTypes
    <3>2. \E m \in open : \A k \in open : k <= m
      BY <2>1, <3>1, LastPosition
    <3> QED
      BY <2>0, <3>2
  <2>3. n \in 1..Len(codes) /\ codes[n].email = requests[c].email
    BY <2>2 DEF UnusedOf, Unused
  <2>4. codes[n].attempts \in Nat /\ codes[n].attempts < MaxAttempts
    BY <1>0, <2>1, <2>3, CodeTyped, Numbers DEF TooMany, Code
  <2> HIDE DEF latest, open
  <2>5. /\ requests' = [d \in Client |-> requests'[d]]
        /\ requests'[c] = [requests[c] EXCEPT !.record = n]
        /\ \A d \in Client \ {c} : requests'[d] = requests[d]
    BY <1>0, <2>1 DEF RequestsAreFit
  <2>6. /\ requests'[c] = [kind |-> requests[c].kind, email |-> requests[c].email,
                           arg |-> requests[c].arg, record |-> n]
        /\ requests[c].kind = "login" => requests[c].email \in Email
    BY <1>0, <2>5 DEF RequestsAreFit, IsRequest
  <2>7. RequestsAreFit'
    <3>1. IsRequest(requests[c])' /\ Reads(requests[c])'
      BY <1>1, <2>1, <2>3, <2>6 DEF IsRequest, Reads
    <3>2. ASSUME NEW d \in Client \ {c}
          PROVE  IsRequest(requests[d])' /\ Reads(requests[d])'
      BY <1>0, <1>1, <2>5 DEF RequestsAreFit, IsRequest, Reads
    <3> QED
      BY <2>5, <3>1, <3>2 DEF RequestsAreFit
  <2>8. TokenIsProven' /\ ProofsExist' /\ CredentialsAreProven'
    BY <1>0, <1>1, <2>1 DEF TokenIsProven, ProofsExist, CredentialsAreProven
  <2>9. n \in Nat /\ n # Wrong /\ n \in CodeId /\ MaxAttempts \in Nat \ {0}
    BY <1>0, <2>3, Numbers DEF SiTypes, CodeId
  <2>10. /\ overlap[n] \in Nat /\ overlap[n] <= Cardinality(Client)
         /\ Cardinality(Client) \in Nat /\ Pending(n) \in Nat
    BY <1>0, <2>9, ClientsAreFinite, ChecksAreFinite DEF SiTypes
  <2>11. Pending(n)' = Pending(n) + 1 /\ Pending(n) + 1 <= Cardinality(Client)
    <3>1. Checking(n)' = Checking(n) \cup {c} /\ c \notin Checking(n)
      <4>1. \A d \in Client : requests'[d].record = n <=> d = c \/ requests[d].record = n
        BY <2>5, <2>6
      <4>2. requests[c].record # n
        BY <2>1, <2>9
      <4> QED
        BY <4>1, <4>2 DEF Checking
    <3>2. IsFiniteSet(Checking(n)) /\ Checking(n) \cup {c} \in SUBSET Client
      BY ChecksAreFinite DEF Checking
    <3>3. Cardinality(Checking(n) \cup {c}) = Pending(n) + 1
      BY <3>1, <3>2, FS_AddElement DEF Pending
    <3>4. Cardinality(Checking(n) \cup {c}) <= Cardinality(Client)
      BY <3>2, ClientsAreFinite, FS_Subset
    <3> QED
      BY <3>1, <3>3, <3>4 DEF Pending
  <2>12. overlap' \in [CodeId -> 0..Cardinality(Client)]
         /\ overlap'[n] \in Nat /\ overlap'[n] >= overlap[n] /\ overlap'[n] >= Pending(n) + 1
         /\ \A k \in CodeId \ {n} : overlap'[k] = overlap[k]
    <3> DEFINE m == Max({overlap[n], Pending(n) + 1})
    <3>1. m \in {overlap[n], Pending(n) + 1} /\ m >= overlap[n] /\ m >= Pending(n) + 1
      BY <2>10, GreaterOfTwo
    <3>2. overlap' = [overlap EXCEPT ![n] = m]
      BY <2>1
    <3>3. m \in 0..Cardinality(Client)
      BY <2>10, <2>11, <3>1
    <3> HIDE DEF m
    <3> QED
      BY <1>0, <2>9, <3>1, <3>2, <3>3 DEF SiTypes
  <2>13. SiTypes'
    BY <1>0, <1>1, <2>1, <2>12 DEF SiTypes
  <2>14. GuessesCounted'
    <3>1. ASSUME NEW k \in 1..Len(codes)
          PROVE  CountedOf(k)'
      <4>1. codes'[k].attempts = codes[k].attempts /\ codes[k].attempts \in Nat
        BY <1>0, <1>1, CodeTyped DEF Code
      <4>2. CASE k = n
        <5>1. codes'[k].attempts \in Nat /\ codes'[k].attempts < MaxAttempts
          BY <1>1, <2>4, <4>2
        <5>2. Pending(k)' \in Nat
          BY <2>10, <2>11, <4>2
        <5>3. overlap'[k] \in Nat /\ Pending(k)' <= overlap'[k]
          BY <2>10, <2>11, <2>12, <4>2
        <5>4. MaxAttempts \in Nat
          BY <2>9
        <5>5. \A a, p, m, o \in Nat : a < m /\ p <= o => a + p < m + o
          OBVIOUS
        <5>6. codes'[k].attempts + Pending(k)' < MaxAttempts + overlap'[k]
          BY <5>1, <5>2, <5>3, <5>4, <5>5
        <5> QED
          BY <5>3, <5>6 DEF CountedOf
      <4>3. CASE k # n
        <5>1. Checking(k)' = Checking(k)
          BY <2>1, <2>5, <2>6, <4>3, Numbers DEF Checking
        <5>2. Pending(k)' = Pending(k)
          BY <5>1 DEF Pending
        <5>3. overlap'[k] = overlap[k]
          BY <1>0, <2>12, <4>3, Numbers DEF SiTypes, CodeId
        <5>4. CountedOf(k)
          BY <1>0 DEF GuessesCounted
        <5> QED
          BY <4>1, <5>2, <5>3, <5>4 DEF CountedOf
      <4> QED
        BY <4>2, <4>3
    <3> QED
      BY <1>1, <3>1 DEF GuessesCounted
  <2> QED
    BY <2>7, <2>8, <2>13, <2>14 DEF SiInv
<1> QED
  BY <1>2, <1>3

(* A wrong guess: it was counted as pending, and now as an attempt.        *)
LEMMA MismatchKeeps ==
  ASSUME SiInv, NEW c \in Client, Mismatch(c)
  PROVE  SiInv'
<1> DEFINE n == requests[c].record
           x == [codes[n] EXCEPT !.attempts = @ + 1]
<1>0. SiTypes /\ RequestsAreFit /\ TokenIsProven /\ ProofsExist /\ CredentialsAreProven
      /\ GuessesCounted
  BY DEF SiInv
<1>1. /\ n # Wrong /\ codes' = [codes EXCEPT ![n].attempts = @ + 1] /\ Refused(c)
      /\ UNCHANGED <<accounts, password, sessions, overlap>>
  BY DEF Mismatch
<1>2. n \in 1..Len(codes)
  BY <1>0, <1>1 DEF RequestsAreFit, Reads
<1>3. codes[n] \in Code
  BY <1>0, <1>2, CodeTyped
<1>4. /\ x \in Code /\ x.email = codes[n].email /\ x.used = codes[n].used
      /\ x.attempts = codes[n].attempts + 1 /\ codes[n].attempts \in Nat
  BY <1>3 DEF Code
<1>5. codes' = [codes EXCEPT ![n] = x]
  BY <1>1
<1>6. Grow /\ Len(codes') = Len(codes) /\ codes'[n] = x
      /\ \A k \in 1..Len(codes) \ {n} : codes'[k] = codes[k]
  <2> HIDE DEF x, n
  <2> QED
    BY <1>0, <1>2, <1>4, <1>5, CodeChanges
<1>7. Answered(c) /\ FormSafe /\ cliLogin' \in CliLogin /\ user' \in Addresses
  BY <1>0, <1>1, RepliesAreSafe
<1>8. SiTypes'
  BY <1>0, <1>1, <1>6, <1>7 DEF SiTypes, Grow, FormSafe
<1>9. RequestsAreFit' /\ requests'[c].record = Wrong
      /\ \A d \in Client \ {c} : requests'[d] = requests[d]
  BY <1>0, <1>6, <1>7, AnswerFrees
<1>10. TokenIsProven' /\ ProofsExist' /\ CredentialsAreProven'
  BY <1>0, <1>1, <1>6, <1>7, TokenKept, CredentialsKept
<1>11. GuessesCounted'
  <2>1. ASSUME NEW k \in 1..Len(codes)
        PROVE  CountedOf(k)'
    <3>0. /\ MaxAttempts \in Nat /\ k \in Nat /\ k # Wrong /\ k \in CodeId
          /\ codes[k].attempts \in Nat /\ overlap[k] \in Nat
      <4>1. k \in Nat /\ k # Wrong /\ k \in CodeId
        BY <1>0, CodeNumbered
      <4>2. codes[k] \in Code /\ overlap[k] \in 0..Cardinality(Client)
        BY <1>0, <4>1, CodeTyped DEF SiTypes
      <4> QED
        BY <4>1, <4>2, Numbers, ClientsAreFinite DEF Code
    <3>1. \A d \in Client : requests'[d].record \in {requests[d].record, Wrong}
      BY <1>9
    <3>2. Pending(k)' \in Nat /\ Pending(k) \in Nat /\ Pending(k)' <= Pending(k)
      BY <3>0, <3>1, PendingFalls, ChecksAreFinite
    <3>3. CountedOf(k) /\ overlap' = overlap
      BY <1>0, <1>1 DEF GuessesCounted
    <3>4. CASE k = n
      <4>1. Pending(k)' <= Pending(k) - 1
        BY <1>9, <3>0, <3>1, <3>4, PendingFalls
      <4>2. codes'[k].attempts = codes[k].attempts + 1
        BY <1>4, <1>6, <3>4
      <4> HIDE DEF n
      <4> QED
        BY <3>0, <3>2, <3>3, <4>1, <4>2 DEF CountedOf
    <3>5. CASE k # n
      <4>1. codes'[k].attempts = codes[k].attempts
        BY <1>6, <3>5
      <4> HIDE DEF n
      <4> QED
        BY <3>0, <3>2, <3>3, <4>1 DEF CountedOf
    <3> QED
      BY <3>4, <3>5
  <2> QED
    BY <1>6, <2>1 DEF GuessesCounted
<1> QED
  BY <1>8, <1>9, <1>10, <1>11 DEF SiInv

(* A code is used up.                                                      *)
LEMMA CodeUsed ==
  ASSUME SiTypes, NEW n \in 1..Len(codes), codes' = [codes EXCEPT ![n].used = TRUE]
  PROVE  /\ Grow /\ Len(codes') = Len(codes) /\ codes'[n].used
         /\ \A k \in 1..Len(codes) : codes'[k].attempts = codes[k].attempts
         /\ \A k \in 1..Len(codes') : k \in 1..Len(codes)
<1> DEFINE x == [codes[n] EXCEPT !.used = TRUE]
<1>1. codes[n] \in Code
  BY CodeTyped
<1>2. /\ x \in Code /\ x.email = codes[n].email /\ x.used /\ x.attempts = codes[n].attempts
  BY <1>1 DEF Code
<1>3. codes' = [codes EXCEPT ![n] = x]
  OBVIOUS
<1>4. Grow /\ Len(codes') = Len(codes) /\ codes'[n] = x
      /\ \A k \in 1..Len(codes) \ {n} : codes'[k] = codes[k]
  <2> HIDE DEF x
  <2> QED
    BY <1>2, <1>3, CodeChanges
<1> QED
  BY <1>2, <1>4

(* The right code opens a session and may set the first password.          *)
LEMMA VerifyKeeps ==
  ASSUME SiInv, NEW c \in Client, Verify(c)
  PROVE  SiInv'
<1> DEFINE n == requests[c].record
           e == requests[c].email
<1>0. SiTypes /\ RequestsAreFit /\ TokenIsProven /\ ProofsExist /\ CredentialsAreProven
      /\ GuessesCounted
  BY DEF SiInv
<1>1. /\ n # Wrong /\ codes' = [codes EXCEPT ![n].used = TRUE] /\ UNCHANGED overlap
      /\ SignedIn(c, e) \/ Refused(c)
      /\ accounts' = accounts \cup {e}
      /\ sessions' = sessions \/ sessions' = sessions \cup {[email |-> e, by |-> n]}
      /\ password' = password \/ password' = [password EXCEPT ![e] = n]
  BY DEF Verify
<1>2. n \in 1..Len(codes) /\ codes[n].email = e
  BY <1>0, <1>1 DEF RequestsAreFit, Reads
<1>3. e \in Email /\ n \in CodeId /\ n \in Nat /\ n # Initial
  <2>1. codes[n] \in Code /\ codes[n].email = e
    BY <1>0, <1>2, CodeTyped
  <2>2. n \in Nat /\ n \in CodeId /\ n # Initial
    BY <1>0, <1>2, CodeNumbered
  <2> HIDE DEF n, e
  <2> QED
    BY <2>1, <2>2 DEF Code
<1>4. /\ Grow /\ Len(codes') = Len(codes) /\ codes'[n].used
      /\ \A k \in 1..Len(codes) : codes'[k].attempts = codes[k].attempts
      /\ \A k \in 1..Len(codes') : k \in 1..Len(codes)
  <2> HIDE DEF n
  <2> QED
    BY <1>0, <1>1, <1>2, CodeUsed
<1>5. Answered(c) /\ FormSafe /\ cliLogin' \in CliLogin /\ user' \in Addresses
  BY <1>0, <1>1, <1>3, RepliesAreSafe
<1> HIDE DEF n, e
<1>6. SiTypes'
  <2>1. password' \in [Email -> CodeId \cup {Unset, Initial}]
    BY <1>0, <1>1, <1>3 DEF SiTypes
  <2>2. sessions' \subseteq [email : Email, by : CodeId \cup {Initial}]
    BY <1>0, <1>1, <1>3 DEF SiTypes
  <2> QED
    BY <1>0, <1>1, <1>3, <1>4, <1>5, <2>1, <2>2 DEF SiTypes, Grow, FormSafe
<1>7. RequestsAreFit' /\ \A d \in Client : requests'[d].record \in {requests[d].record, Wrong}
  BY <1>0, <1>4, <1>5, AnswerFrees
<1>8. TokenIsProven'
  BY <1>0, <1>4, <1>5, TokenKept
<1>9. ProofsExist' /\ CredentialsAreProven'
  <2>1. \A s \in sessions' : s.by # Initial =>
          s.by \in 1..Len(codes) /\ codes[s.by].email = s.email
    BY <1>0, <1>1, <1>2 DEF ProofsExist, CredentialsAreProven
  <2>2. ASSUME NEW a \in Email, password'[a] \in CodeId
        PROVE  password'[a] \in 1..Len(codes)
               /\ codes'[password'[a]].email = a /\ codes'[password'[a]].used
    <3>1. CASE password'[a] = password[a]
      BY <1>0, <1>4, <2>2, <3>1 DEF ProofsExist, CredentialsAreProven, Grow
    <3>2. CASE a = e /\ password'[a] = n
      BY <1>2, <1>4, <3>2 DEF Grow
    <3> QED
      BY <1>0, <1>1, <3>1, <3>2 DEF SiTypes
  <2> QED
    BY <1>4, <2>1, <2>2 DEF ProofsExist, CredentialsAreProven, Grow
<1>10. GuessesCounted'
  BY <1>0, <1>1, <1>4, <1>7, GuessesKept
<1> QED
  BY <1>6, <1>7, <1>8, <1>9, <1>10 DEF SiInv

(* The right code of a reset gives the form a token for its own address.   *)
LEMMA ResetVerifyKeeps ==
  ASSUME SiInv, NEW c \in Client, ResetVerify(c)
  PROVE  SiInv'
<1> DEFINE n == requests[c].record
           e == requests[c].email
<1>0. SiTypes /\ RequestsAreFit /\ TokenIsProven /\ ProofsExist /\ CredentialsAreProven
      /\ GuessesCounted
  BY DEF SiInv
<1>1. /\ n # Wrong /\ codes' = [codes EXCEPT ![n].used = TRUE]
      /\ UNCHANGED <<accounts, password, sessions, overlap>>
      /\ Refused(c) \/ (form' = Proven(e, n) /\ Answered(c) /\ UNCHANGED <<cliLogin, user>>)
  BY DEF ResetVerify
<1>2. n \in 1..Len(codes) /\ codes[n].email = e
  BY <1>0, <1>1 DEF RequestsAreFit, Reads
<1>3. e \in Email /\ n \in Nat
  BY <1>0, <1>2, CodeTyped DEF Code
<1>4. /\ Grow /\ Len(codes') = Len(codes) /\ codes'[n].used
      /\ \A k \in 1..Len(codes) : codes'[k].attempts = codes[k].attempts
      /\ \A k \in 1..Len(codes') : k \in 1..Len(codes)
  <2> HIDE DEF n
  <2> QED
    BY <1>0, <1>1, <1>2, CodeUsed
<1> HIDE DEF n, e
<1>5. /\ Answered(c) /\ form' \in Form /\ cliLogin' \in CliLogin /\ user' \in Addresses
      /\ TokenIsProven'
  <2>1. CASE Refused(c)
    <3>1. Answered(c) /\ FormSafe /\ cliLogin' \in CliLogin /\ user' \in Addresses
      BY <1>0, <2>1, RepliesAreSafe
    <3> QED
      BY <1>0, <1>4, <3>1, TokenKept DEF FormSafe
  <2>2. CASE form' = Proven(e, n) /\ Answered(c) /\ UNCHANGED <<cliLogin, user>>
    <3>1. form \in Form /\ [email |-> e, by |-> n] \in [email : Addresses, by : Nat]
      BY <1>0, <1>3 DEF SiTypes, Addresses
    <3>2. form' \in Form /\ form'.token = [email |-> e, by |-> n]
      BY <2>2, <3>1 DEF Proven, Form
    <3>3. TokenIsProven'
      BY <1>2, <1>3, <1>4, <3>2, Numbers DEF TokenIsProven, Grow, NoToken
    <3> QED
      BY <1>0, <2>2, <3>2, <3>3 DEF SiTypes
  <2> QED
    BY <1>1, <2>1, <2>2
<1>6. SiTypes'
  BY <1>0, <1>1, <1>4, <1>5 DEF SiTypes, Grow
<1>7. RequestsAreFit' /\ \A d \in Client : requests'[d].record \in {requests[d].record, Wrong}
  BY <1>0, <1>4, <1>5, AnswerFrees
<1>8. ProofsExist' /\ CredentialsAreProven'
  BY <1>0, <1>1, <1>4, CredentialsKept
<1>9. GuessesCounted'
  BY <1>0, <1>1, <1>4, <1>7, GuessesKept
<1> QED
  BY <1>5, <1>6, <1>7, <1>8, <1>9 DEF SiInv

(* The password of the address the token was given for is changed.         *)
LEMMA ResetConfirmKeeps ==
  ASSUME SiInv, NEW c \in Client, ResetConfirm(c)
  PROVE  SiInv'
<1> DEFINE e == requests[c].email
           n == form.token.by
<1>0. SiTypes /\ RequestsAreFit /\ TokenIsProven /\ ProofsExist /\ CredentialsAreProven
      /\ GuessesCounted
  BY DEF SiInv
<1>1. UNCHANGED <<codes, accounts, sessions, overlap>> /\ Grow
  BY <1>0, CodesStay DEF ResetConfirm
<1>2. CASE Refused(c) /\ UNCHANGED password
  BY <1>0, <1>1, <1>2, RepliesAreSafe, QuietAnswer
<1>3. CASE ~(Refused(c) /\ UNCHANGED password)
  <2>1. /\ TokenFits(form.token, e) /\ e \in accounts
        /\ password' = [password EXCEPT ![e] = n]
        /\ form' = [Blank EXCEPT !.email = e]
        /\ Answered(c) /\ UNCHANGED <<cliLogin, user>>
    BY <1>3 DEF ResetConfirm
  <2>2. e \in Email /\ n \in 1..Len(codes) /\ codes[n].email = e /\ codes[n].used
    BY <1>0, <2>1 DEF TokenFits, TokenIsProven, SiTypes
  <2>3. n \in CodeId
    BY <1>0, <2>2, Numbers DEF SiTypes, CodeId
  <2> HIDE DEF e, n
  <2>4. FormSafe
    BY <2>1, <2>2, Numbers DEF FormSafe, Blank, NoToken, Form, Addresses
  <2>5. SiTypes'
    BY <1>0, <1>1, <2>1, <2>2, <2>3, <2>4 DEF SiTypes, FormSafe
  <2>6. RequestsAreFit' /\ \A d \in Client : requests'[d].record \in {requests[d].record, Wrong}
    BY <1>0, <1>1, <2>1, AnswerFrees
  <2>7. TokenIsProven'
    BY <1>0, <1>1, <2>4, TokenKept
  <2>8. ProofsExist' /\ CredentialsAreProven'
    BY <1>0, <1>1, <2>1, <2>2 DEF ProofsExist, CredentialsAreProven, SiTypes
  <2>9. GuessesCounted'
    BY <1>0, <1>1, <2>6, GuessesKept
  <2> QED
    BY <2>5, <2>6, <2>7, <2>8, <2>9 DEF SiInv
<1> QED
  BY <1>2, <1>3

(* A session that a password opens needs no code.                          *)
LEMMA PasswordLoginKeeps ==
  ASSUME SiInv, NEW c \in Client, PasswordLogin(c)
  PROVE  SiInv'
<1> DEFINE e == requests[c].email
<1>0. SiTypes /\ RequestsAreFit /\ TokenIsProven /\ ProofsExist /\ CredentialsAreProven
      /\ GuessesCounted
  BY DEF SiInv
<1>1. UNCHANGED <<codes, accounts, password, overlap>> /\ Grow
  BY <1>0, CodesStay DEF PasswordLogin
<1>2. CASE Refused(c) /\ UNCHANGED sessions
  BY <1>0, <1>1, <1>2, RepliesAreSafe, QuietAnswer
<1>3. CASE ~(Refused(c) /\ UNCHANGED sessions)
  <2>1. /\ e \in Email /\ SignedIn(c, e)
        /\ sessions' = sessions \cup {[email |-> e, by |-> Initial]}
    BY <1>3 DEF PasswordLogin
  <2>2. Answered(c) /\ FormSafe /\ cliLogin' \in CliLogin /\ user' \in Addresses
    BY <1>0, <2>1, RepliesAreSafe
  <2> HIDE DEF e
  <2>3. SiTypes'
    BY <1>0, <1>1, <2>1, <2>2 DEF SiTypes, FormSafe
  <2>4. RequestsAreFit' /\ \A d \in Client : requests'[d].record \in {requests[d].record, Wrong}
    BY <1>0, <1>1, <2>2, AnswerFrees
  <2>5. TokenIsProven'
    BY <1>0, <1>1, <2>2, TokenKept
  <2>6. ProofsExist' /\ CredentialsAreProven'
    BY <1>0, <1>1, <2>1 DEF ProofsExist, CredentialsAreProven
  <2>7. GuessesCounted'
    BY <1>0, <1>1, <2>4, GuessesKept
  <2> QED
    BY <2>3, <2>4, <2>5, <2>6, <2>7 DEF SiInv
<1> QED
  BY <1>2, <1>3

(* A code that expires loses neither address nor use.                      *)
LEMMA ExpireKeeps ==
  ASSUME SiInv, Expire
  PROVE  SiInv'
<1>0. SiTypes /\ RequestsAreFit /\ TokenIsProven /\ ProofsExist /\ CredentialsAreProven
      /\ GuessesCounted
  BY DEF SiInv
<1>1. PICK n \in Unused : codes' = [codes EXCEPT ![n].expired = TRUE]
  BY DEF Expire
<1>2. UNCHANGED <<accounts, password, sessions, requests, form, cliLogin, user, overlap>>
  BY DEF Expire
<1> DEFINE x == [codes[n] EXCEPT !.expired = TRUE]
<1>3. n \in 1..Len(codes) /\ codes[n] \in Code
  BY <1>0, CodeTyped DEF Unused
<1>4. /\ x \in Code /\ x.email = codes[n].email /\ x.used = codes[n].used
      /\ x.attempts = codes[n].attempts /\ codes' = [codes EXCEPT ![n] = x]
  BY <1>1, <1>3 DEF Code
<1>5. Grow /\ Len(codes') = Len(codes) /\ codes'[n] = x
      /\ \A k \in 1..Len(codes) \ {n} : codes'[k] = codes[k]
  <2> HIDE DEF x
  <2> QED
    BY <1>0, <1>3, <1>4, CodeChanges
<1>6. SiTypes'
  BY <1>0, <1>2, <1>5 DEF SiTypes, Grow
<1>7. RequestsAreFit'
  <2>1. ASSUME NEW d \in Client
        PROVE  IsRequest(requests[d])' /\ Reads(requests[d])'
    BY <1>0, <1>2, <1>5 DEF RequestsAreFit, IsRequest, Reads, Grow
  <2> QED
    BY <1>0, <1>2, <2>1 DEF RequestsAreFit
<1>8. TokenIsProven' /\ ProofsExist' /\ CredentialsAreProven'
  <2>1. FormSafe
    BY <1>0, <1>2 DEF SiTypes, FormSafe
  <2> QED
    BY <1>0, <1>2, <1>5, <2>1, TokenKept, CredentialsKept
<1>9. GuessesCounted'
  BY <1>0, <1>2, <1>4, <1>5, GuessesKept
<1> QED
  BY <1>6, <1>7, <1>8, <1>9 DEF SiInv

-----------------------------------------------------------------------------
(* Signing in: the clients                                                 *)

(* A step of a client leaves the server alone, sends at most one request   *)
(* and shows nothing that needs a token.                                   *)
LEMMA ClientStep ==
  ASSUME SiInv, UNCHANGED <<codes, accounts, password, sessions, user, overlap>>,
         FormSafe, cliLogin' \in CliLogin,
         \/ UNCHANGED requests
         \/ \E c \in Client : \E kind, e, arg :
              Post(c, kind, e, arg) /\ (kind = "login" => e \in Email)
  PROVE  SiInv'
<1>0. SiTypes /\ RequestsAreFit /\ TokenIsProven /\ ProofsExist /\ CredentialsAreProven
      /\ GuessesCounted /\ Grow
  BY CodesStay DEF SiInv
<1>1. SiTypes'
  BY <1>0 DEF SiTypes, FormSafe
<1>2. RequestsAreFit' /\ \A d \in Client : requests'[d].record \in {requests[d].record, Wrong}
  <2>1. CASE UNCHANGED requests
    BY <1>0, <2>1 DEF RequestsAreFit, IsRequest, Reads
  <2>2. ASSUME NEW c \in Client, NEW kind, NEW e, NEW arg,
               Post(c, kind, e, arg), kind = "login" => e \in Email
        PROVE  RequestsAreFit' /\ \A d \in Client : requests'[d].record \in {requests[d].record, Wrong}
    BY <1>0, <2>2, PostFits
  <2> QED
    BY <2>1, <2>2
<1>3. TokenIsProven' /\ ProofsExist' /\ CredentialsAreProven'
  BY <1>0, TokenKept, CredentialsKept
<1>4. GuessesCounted'
  BY <1>0, <1>2, GuessesKept
<1> QED
  BY <1>1, <1>2, <1>3, <1>4 DEF SiInv

(* The steps of the form that send nothing.                                *)
LEMMA FormStepKeeps ==
  ASSUME SiInv,
         \/ SwitchMode \/ StartForgotPassword \/ LeaveStep \/ OtherResetEmail
         \/ \E e \in Email : TypeEmail(e) \/ TypeResetEmail(e)
  PROVE  SiInv'
<1>0. form \in Form /\ cliLogin \in CliLogin /\ NoToken \in [email : Addresses, by : Nat]
      /\ Email \subseteq Addresses /\ NoEmail \in Addresses
  BY Numbers DEF SiInv, SiTypes, Addresses, NoToken
<1>1. UNCHANGED <<codes, accounts, password, sessions, requests, cliLogin, user, overlap>>
  BY DEF SwitchMode, StartForgotPassword, LeaveStep, OtherResetEmail, TypeEmail, TypeResetEmail,
         FormOnly, authVars
<1>2. CASE SwitchMode
  <2>1. FormSafe
    BY <1>0, <1>2 DEF SwitchMode, FormSafe, Form
  <2> QED
    BY <1>0, <1>1, <2>1, ClientStep
<1>3. CASE StartForgotPassword
  <2>1. FormSafe
    BY <1>0, <1>3 DEF StartForgotPassword, FormSafe, Form
  <2> QED
    BY <1>0, <1>1, <2>1, ClientStep
<1>4. CASE LeaveStep
  <2>1. FormSafe
    BY <1>0, <1>4 DEF LeaveStep, FormSafe, Form
  <2> QED
    BY <1>0, <1>1, <2>1, ClientStep
<1>5. CASE OtherResetEmail
  <2>1. FormSafe
    BY <1>0, <1>5 DEF OtherResetEmail, Step, FormSafe, Form
  <2> QED
    BY <1>0, <1>1, <2>1, ClientStep
<1>6. ASSUME NEW e \in Email, TypeEmail(e) \/ TypeResetEmail(e)
      PROVE  SiInv'
  <2>1. FormSafe
    BY <1>0, <1>6 DEF TypeEmail, TypeResetEmail, FormSafe, Form
  <2> QED
    BY <1>0, <1>1, <2>1, ClientStep
<1> QED
  BY <1>2, <1>3, <1>4, <1>5, <1>6

(* The steps of the clients that send a request.                           *)
LEMMA PostStepKeeps ==
  ASSUME SiInv,
         \/ RequestCode \/ SendResetCode \/ ConfirmPasswordReset \/ Command
         \/ \E n \in Typed : SubmitCode(n) \/ VerifyResetCode(n)
         \/ \E n \in {Wrong, Initial} : SubmitPassword(n)
         \/ \E c \in OtherClient, e \in Email, n \in Typed : OtherGuess(c, e, n)
  PROVE  SiInv'
<1>0. form \in Form /\ cliLogin \in CliLogin /\ {"browser", "cli"} \subseteq Client
      /\ Email \subseteq Addresses
  BY DEF SiInv, SiTypes, Client, Addresses
<1>1. UNCHANGED <<codes, accounts, password, sessions, form, user, overlap>>
  BY DEF RequestCode, SendResetCode, ConfirmPasswordReset, Command, SubmitCode, VerifyResetCode,
         SubmitPassword, CliRequest, CliAnswers, OtherGuess, Posts, authVars
<1>2. FormSafe
  BY <1>0, <1>1 DEF FormSafe
<1>3. CASE RequestCode \/ SendResetCode
  <2>1. form.email \in Addresses /\ form.resetEmail \in Addresses
    BY <1>0 DEF Form
  <2>2. \E e \in Email : \E arg : Post("browser", "login", e, arg)
    BY <1>3, <2>1 DEF RequestCode, SendResetCode, Addresses
  <2>3. cliLogin' = cliLogin
    BY <1>3 DEF RequestCode, SendResetCode, Posts
  <2> QED
    BY <1>0, <1>1, <1>2, <2>2, <2>3, ClientStep
<1>4. CASE ConfirmPasswordReset
  <2>1. \E e, arg : Post("browser", "reset-confirm", e, arg)
    BY <1>4 DEF ConfirmPasswordReset
  <2>2. cliLogin' = cliLogin
    BY <1>4 DEF ConfirmPasswordReset, Posts
  <2> QED
    BY <1>0, <1>1, <1>2, <2>1, <2>2, ClientStep
<1>5. CASE Command
  <2>1. cliLogin' \in CliLogin
    BY <1>0, <1>5, SignInAssumption DEF Command, CliRequest, CliAnswers, CliLogin, Addresses
  <2>2. \E kind, e, arg : Post("cli", kind, e, arg) /\ (kind = "login" => e \in Email)
    BY <1>5, SignInAssumption DEF Command, CliRequest, CliAnswers
  <2> QED
    BY <1>0, <1>1, <1>2, <2>1, <2>2, ClientStep
<1>6. ASSUME NEW n, SubmitCode(n) \/ VerifyResetCode(n) \/ SubmitPassword(n)
      PROVE  SiInv'
  <2>1. \E kind \in {"verify", "signup", "reset-verify", "password"} : \E e, arg :
          Post("browser", kind, e, arg)
    BY <1>6 DEF SubmitCode, VerifyResetCode, SubmitPassword
  <2>2. cliLogin' = cliLogin
    BY <1>6 DEF SubmitCode, VerifyResetCode, SubmitPassword, Posts
  <2> QED
    BY <1>0, <1>1, <1>2, <2>1, <2>2, ClientStep
<1>7. ASSUME NEW c \in OtherClient, NEW e \in Email, NEW n, OtherGuess(c, e, n)
      PROVE  SiInv'
  <2>1. Post(c, "verify", e, n) /\ c \in Client /\ cliLogin' = cliLogin
    BY <1>7 DEF OtherGuess, Posts, Client
  <2> QED
    BY <1>0, <1>1, <1>2, <2>1, ClientStep
<1> QED
  BY <1>3, <1>4, <1>5, <1>6, <1>7

-----------------------------------------------------------------------------
(* Signing in: theorems                                                    *)

(* The invariant holds at the start: no code was sent, nobody signed in.   *)
LEMMA SignInStart == SignInInit => SiInv
<1> SUFFICES ASSUME SignInInit PROVE SiInv
  OBVIOUS
<1>1. codes = <<>> /\ Len(codes) = 0 /\ 1..Len(codes) = {} /\ sessions = {}
      /\ codes \in Seq(Code)
  BY DEF SignInInit
<1>2. \A e \in Email : password[e] \in {Unset, Initial}
  BY DEF SignInInit
<1>3. SiTypes
  BY <1>1, Numbers, SignInAssumption, ClientsAreFinite
     DEF SignInInit, SiTypes, Form, CliLogin, Addresses, Blank, NoToken
<1>4. RequestsAreFit
  BY DEF SignInInit, RequestsAreFit, IsRequest, Reads, Idle
<1>5. TokenIsProven
  BY DEF SignInInit, TokenIsProven, Blank
<1>6. ProofsExist /\ CredentialsAreProven
  BY <1>1, <1>2, Numbers DEF ProofsExist, CredentialsAreProven
<1>7. GuessesCounted
  BY <1>1 DEF GuessesCounted
<1> QED
  BY <1>3, <1>4, <1>5, <1>6, <1>7 DEF SiInv

(* Every step keeps the invariant.                                         *)
LEMMA SignInStep == SiInv /\ [SignInNext]_siVars => SiInv'
<1> SUFFICES ASSUME SiInv, [SignInNext]_siVars PROVE SiInv'
  OBVIOUS
<1>1. ASSUME NEW c \in Client, Server(c)
      PROVE  SiInv'
  BY <1>1, LoginKeeps, ReadCodeKeeps, MismatchKeeps, VerifyKeeps, ResetVerifyKeeps,
     ResetConfirmKeeps, PasswordLoginKeeps DEF Server
<1>2. CASE Expire
  BY <1>2, ExpireKeeps
<1>3. CASE Fill \/ Command \/ \E c \in OtherClient, e \in Email, n \in Typed : OtherGuess(c, e, n)
  BY <1>3, FormStepKeeps, PostStepKeeps DEF Fill
<1>4. CASE UNCHANGED siVars
  <2>1. UNCHANGED <<codes, accounts, password, sessions, requests, form, cliLogin, user, overlap>>
    BY <1>4 DEF siVars
  <2>2. FormSafe /\ cliLogin' \in CliLogin
    BY <2>1 DEF SiInv, SiTypes, FormSafe
  <2> QED
    BY <2>1, <2>2, ClientStep
<1> QED
  BY <1>1, <1>2, <1>3, <1>4 DEF SignInNext

(* The invariant holds whatever browser, command and clock do.             *)
THEOREM SignInInvariance == SignInInit /\ [][SignInNext]_siVars => []SiInv
  BY SignInStart, SignInStep, PTL

(* The invariant bounds the guesses and proves the credentials.            *)
LEMMA SignInSafe == SiInv => GuessesBounded /\ CredentialsAreProven
<1> SUFFICES ASSUME SiInv PROVE GuessesBounded
  BY DEF SiInv
<1>1. ASSUME NEW n \in 1..Len(codes)
      PROVE  codes[n].attempts < MaxAttempts + overlap[n]
  <2>1. codes[n].attempts \in Nat /\ MaxAttempts \in Nat /\ n \in CodeId
    BY CodeTyped, Numbers DEF SiInv, SiTypes, Code, CodeId
  <2>2. overlap[n] \in Nat /\ Pending(n) \in Nat
    BY <2>1, ClientsAreFinite, ChecksAreFinite DEF SiInv, SiTypes
  <2>3. codes[n].attempts + Pending(n) < MaxAttempts + overlap[n]
    BY DEF SiInv, GuessesCounted, CountedOf
  <2> QED
    BY <2>1, <2>2, <2>3
<1> QED
  BY <1>1 DEF GuessesBounded

-----------------------------------------------------------------------------
(* Owners: the invariant                                                   *)

AccountState ==
  [open : BOOLEAN, busy : BOOLEAN, hasPassword : BOOLEAN, step : AccountSteps]
ImportState == [mode : {"github", "url"}, selected : Repo \cup {NoRepo}, busy : BOOLEAN]
CardState == [repo : Repo \cup {NoRepo}, pending : BOOLEAN, busy : BOOLEAN]

OwnTypes ==
  /\ members \subseteq User /\ owner \in [Repo -> User \cup {NoUser}]
  /\ offersMade \in 0..MaxOffers /\ offers \subseteq Offer
  /\ passwords \subseteq members /\ lateImports \subseteq Repo
  /\ account \in AccountState /\ import \in ImportState /\ card \in CardState

(* A request was let in for a user; what is to be transferred or deleted   *)
(* is a project.                                                           *)
OfProject == {"transfer", "delete-project"}
Proper(r) ==
  /\ r = Request(r.kind, r.by, r.repo, r.arg)
  /\ r.by \in User /\ (r.kind \in OfProject => r.repo \in Repo)

AdmittedAreProper ==
  /\ IsFiniteSet(admitted) /\ Cardinality(admitted) <= MaxAdmitted
  /\ \A r \in admitted : Proper(r)

(* ProjectsAreOwned is not inductive: after an acceptance the owner is     *)
(* another one, and a second offer of the project would go from the old.   *)
OneOffer == \A o1, o2 \in offers : o1.repo = o2.repo => o1 = o2

OwnInv == OwnTypes /\ AdmittedAreProper /\ OneOffer /\ ProjectsAreOwned

-----------------------------------------------------------------------------
(* Owners: requests and pages                                              *)

(* What the model's constants are.                                         *)
LEMMA OwnershipConstants ==
  /\ Me \in User /\ Admin \in User /\ NoUser \notin User /\ NoRepo \notin Repo
  /\ MaxOffers \in Nat /\ MaxAdmitted \in Nat
  BY OwnershipAssumption

(* The pages rest in states they can be in.                                *)
LEMMA FormsTyped == NoForm \in ImportState /\ NoCard \in CardState
  BY DEF NoForm, NoCard, ImportState, CardState

(* A request that is let in is one more, below the bound.                  *)
LEMMA AdmitProper ==
  ASSUME AdmittedAreProper, NEW r, Proper(r), Admit(r)
  PROVE  AdmittedAreProper'
<1>1. /\ IsFiniteSet(admitted) /\ Cardinality(admitted) \in Nat
      /\ Cardinality(admitted) < MaxAdmitted /\ admitted' = admitted \cup {r}
      /\ MaxAdmitted \in Nat
  BY FS_CardinalityType, OwnershipConstants DEF AdmittedAreProper, Admit
<1>2. /\ IsFiniteSet(admitted') /\ Cardinality(admitted') \in
           {Cardinality(admitted), Cardinality(admitted) + 1}
  BY <1>1, FS_AddElement
<1> QED
  BY <1>1, <1>2 DEF AdmittedAreProper, Proper

(* A request that is handled is one less.                                  *)
LEMMA HandledProper ==
  ASSUME AdmittedAreProper, NEW r \in admitted, Handled(r)
  PROVE  AdmittedAreProper' /\ Proper(r)
<1>1. /\ IsFiniteSet(admitted) /\ Cardinality(admitted) \in Nat
      /\ admitted' = admitted \ {r} /\ MaxAdmitted \in Nat
      /\ Cardinality(admitted) <= MaxAdmitted
  BY FS_CardinalityType, OwnershipConstants DEF AdmittedAreProper, Handled
<1>2. IsFiniteSet(admitted') /\ Cardinality(admitted') = Cardinality(admitted) - 1
  BY <1>1, FS_RemoveElement
<1> QED
  BY <1>1, <1>2 DEF AdmittedAreProper, Proper

(* A request that stays admitted with another argument.                    *)
LEMMA FoundProper ==
  ASSUME AdmittedAreProper, NEW r \in admitted, r.kind = "create",
         admitted' = (admitted \ {r}) \cup {[r EXCEPT !.arg = "found"]}
  PROVE  AdmittedAreProper'
<1> DEFINE s == [r EXCEPT !.arg = "found"]
           T == admitted \ {r}
<1>1. /\ IsFiniteSet(admitted) /\ Cardinality(admitted) \in Nat /\ MaxAdmitted \in Nat
      /\ Cardinality(admitted) <= MaxAdmitted
  BY FS_CardinalityType, OwnershipConstants DEF AdmittedAreProper
<1>2. IsFiniteSet(T) /\ Cardinality(T) = Cardinality(admitted) - 1
  BY <1>1, FS_RemoveElement
<1>3. /\ IsFiniteSet(T \cup {s})
      /\ Cardinality(T \cup {s}) \in {Cardinality(T), Cardinality(T) + 1}
  BY <1>2, FS_AddElement
<1>4. Proper(s)
  <2>1. r = Request(r.kind, r.by, r.repo, r.arg) /\ r.by \in User
    BY DEF AdmittedAreProper, Proper
  <2>2. s = Request("create", r.by, r.repo, "found")
    BY <2>1 DEF Request
  <2> QED
    BY <2>1, <2>2 DEF Proper, Request, OfProject
<1>5. \A q \in T \cup {s} : Proper(q)
  BY <1>4 DEF AdmittedAreProper
<1>6. IsFiniteSet(admitted') /\ Cardinality(admitted') <= MaxAdmitted
  BY <1>1, <1>2, <1>3
<1> QED
  BY <1>5, <1>6 DEF AdmittedAreProper, Proper

(* A step that leaves members, projects and offers alone.                  *)
LEMMA QuietStep ==
  ASSUME OwnInv, UNCHANGED <<members, owner, offers, offersMade, lateImports>>,
         AdmittedAreProper', passwords' \subseteq members,
         account' \in AccountState, import' \in ImportState, card' \in CardState
  PROVE  OwnInv'
<1>1. OwnTypes'
  BY DEF OwnInv, OwnTypes
<1>2. OneOffer' /\ ProjectsAreOwned'
  BY DEF OwnInv, OneOffer, ProjectsAreOwned
<1> QED
  BY <1>1, <1>2 DEF OwnInv

(* The answer of the card.                                                 *)
LEMMA CardStays ==
  ASSUME OwnTypes, NEW r, NEW pending \in BOOLEAN, CardShows(r, pending)
  PROVE  card' \in CardState /\ UNCHANGED <<account, import>>
  BY DEF OwnTypes, CardShows, CardState

-----------------------------------------------------------------------------
(* Owners: the handlers                                                    *)

(* A request of another page.                                              *)
LEMMA RequestKeeps ==
  ASSUME OwnInv, NEW kind \in Kinds, NEW u \in User, NEW p \in Repo, NEW arg,
         SendRequest(kind, u, p, arg)
  PROVE  OwnInv'
<1>1. Proper(Request(kind, u, p, arg)) /\ Admit(Request(kind, u, p, arg))
  BY DEF Proper, Request, SendRequest
<1>2. AdmittedAreProper'
  BY <1>1, AdmitProper DEF OwnInv
<1> QED
  BY <1>2, QuietStep DEF SendRequest, PagesStay, OwnInv, OwnTypes

(* A handler that refuses.                                                 *)
LEMMA RefuseKeeps ==
  ASSUME OwnInv, NEW r, Refuse(r)
  PROVE  OwnInv'
<1>1. r \in admitted /\ Handled(r) /\ CardShows(r, card.pending) /\ card.pending \in BOOLEAN
  BY DEF Refuse, Handles, OwnInv, OwnTypes, CardState
<1>2. AdmittedAreProper' /\ card' \in CardState /\ UNCHANGED <<account, import>>
  BY <1>1, HandledProper, CardStays DEF OwnInv
<1> QED
  BY <1>2, QuietStep DEF Refuse, OwnInv, OwnTypes

(* A new offer is the only one of its project.                             *)
LEMMA TransferKeeps ==
  ASSUME OwnInv, NEW r, Transfer(r)
  PROVE  OwnInv'
<1> DEFINE o == [id |-> offersMade + 1, repo |-> r.repo, from |-> r.by, to |-> r.arg]
<1>1. r \in admitted /\ Handled(r) /\ r.kind = "transfer"
  BY DEF Transfer, Handles
<1>2. AdmittedAreProper' /\ r.by \in User /\ r.repo \in Repo
  BY <1>1, HandledProper DEF OwnInv, Proper, OfProject
<1>3. card' \in CardState /\ UNCHANGED <<account, import>>
  BY CardStays DEF Transfer, OwnInv
<1>4. /\ offers' = offers \cup {o} /\ offersMade' = offersMade + 1 /\ offersMade < MaxOffers
      /\ owner[r.repo] = r.by /\ PendingFor(r.repo) = {} /\ r.arg \in members \ {r.by}
      /\ UNCHANGED <<members, owner, passwords, lateImports>>
  BY DEF Transfer
<1>5. offersMade \in 0..MaxOffers /\ MaxOffers \in Nat /\ members \subseteq User
  BY OwnershipConstants DEF OwnInv, OwnTypes
<1>6. o \in Offer
  BY <1>2, <1>4, <1>5 DEF Offer
<1>7. OwnTypes'
  BY <1>3, <1>4, <1>5, <1>6 DEF OwnInv, OwnTypes
<1>8. OneOffer'
  BY <1>4 DEF OwnInv, OneOffer, PendingFor
<1>9. ProjectsAreOwned'
  BY <1>4 DEF OwnInv, ProjectsAreOwned
<1> QED
  BY <1>2, <1>7, <1>8, <1>9 DEF OwnInv

(* Withdrawing an offer leaves the others as they are.                     *)
LEMMA CancelTransferKeeps ==
  ASSUME OwnInv, NEW r, CancelTransfer(r)
  PROVE  OwnInv'
<1>1. AdmittedAreProper'
  BY HandledProper DEF CancelTransfer, Handles, OwnInv
<1>2. card' \in CardState /\ UNCHANGED <<account, import>>
  BY CardStays DEF CancelTransfer, OwnInv
<1>3. /\ offers' \subseteq offers
      /\ UNCHANGED <<members, owner, offersMade, passwords, lateImports>>
  BY DEF CancelTransfer
<1>4. OwnTypes'
  BY <1>2, <1>3 DEF OwnInv, OwnTypes
<1>5. OneOffer' /\ ProjectsAreOwned'
  BY <1>3 DEF OwnInv, OneOffer, ProjectsAreOwned
<1> QED
  BY <1>1, <1>4, <1>5 DEF OwnInv

(* Whoever accepts is a member, and no other offer of the project is left. *)
LEMMA RespondKeeps ==
  ASSUME OwnInv, NEW r, Respond(r)
  PROVE  OwnInv'
<1>1. PICK o \in offers :
        /\ r.kind \in {"accept", "decline"} /\ Handles(r) /\ o.id = r.arg /\ o.to = r.by
        /\ offers' = offers \ {o}
        /\ owner' = IF r.kind = "accept" THEN [owner EXCEPT ![o.repo] = r.by] ELSE owner
        /\ lateImports' = IF r.kind = "accept" THEN lateImports \ {o.repo} ELSE lateImports
        /\ UNCHANGED <<members, offersMade, passwords>> /\ PagesStay
  BY DEF Respond
<1>2. AdmittedAreProper'
  BY <1>1, HandledProper DEF Handles, OwnInv
<1>3. o \in Offer /\ o.repo \in Repo /\ r.by \in members /\ r.by \in User
  BY <1>1 DEF OwnInv, OwnTypes, ProjectsAreOwned, Offer
<1>4. owner \in [Repo -> User \cup {NoUser}] /\ owner' \in [Repo -> User \cup {NoUser}]
  BY <1>1, <1>3 DEF OwnInv, OwnTypes
<1>5. OwnTypes'
  BY <1>1, <1>4 DEF OwnInv, OwnTypes, PagesStay
<1>6. OneOffer'
  BY <1>1 DEF OwnInv, OneOffer
<1>7. \A q \in offers' : q \in offers /\ q.repo \in Repo /\ q.repo # o.repo
  BY <1>1 DEF OwnInv, OwnTypes, OneOffer, Offer
<1>8. ProjectsAreOwned'
  <2>1. CASE r.kind = "accept"
    <3>1. \A p \in Repo : owner'[p] = IF p = o.repo THEN r.by ELSE owner[p]
      BY <1>1, <1>3, <1>4, <2>1
    <3>2. lateImports' = lateImports \ {o.repo} /\ members' = members
      BY <1>1, <2>1
    <3> QED
      BY <1>3, <1>7, <3>1, <3>2 DEF OwnInv, ProjectsAreOwned
  <2>2. CASE r.kind # "accept"
    BY <1>1, <2>2 DEF OwnInv, ProjectsAreOwned
  <2> QED
    BY <2>1, <2>2
<1> QED
  BY <1>2, <1>5, <1>6, <1>8 DEF OwnInv

(* The offers of a project go with it.                                     *)
LEMMA DeleteProjectKeeps ==
  ASSUME OwnInv, NEW r, DeleteProject(r)
  PROVE  OwnInv'
<1>1. r \in admitted /\ Handled(r) /\ r.kind = "delete-project"
  BY DEF DeleteProject, Handles
<1>2. AdmittedAreProper' /\ r.repo \in Repo
  BY <1>1, HandledProper DEF OwnInv, Proper, OfProject
<1>3. /\ owner' = [owner EXCEPT ![r.repo] = NoUser]
      /\ offers' = {q \in offers : q.repo # r.repo} /\ lateImports' = lateImports \ {r.repo}
      /\ UNCHANGED <<members, offersMade, passwords>> /\ PagesStay
  BY DEF DeleteProject, PendingFor
<1>4. owner \in [Repo -> User \cup {NoUser}] /\ owner' \in [Repo -> User \cup {NoUser}]
  BY <1>3 DEF OwnInv, OwnTypes
<1>5. OwnTypes'
  BY <1>3, <1>4 DEF OwnInv, OwnTypes, PagesStay
<1>6. OneOffer'
  BY <1>3 DEF OwnInv, OneOffer
<1>7. \A p \in Repo : owner'[p] = IF p = r.repo THEN NoUser ELSE owner[p]
  BY <1>2, <1>3, <1>4
<1>8. \A q \in offers' : q \in offers /\ q.repo \in Repo /\ q.repo # r.repo
  BY <1>3 DEF OwnInv, OwnTypes, Offer
<1>9. ProjectsAreOwned'
  BY <1>3, <1>7, <1>8 DEF OwnInv, ProjectsAreOwned
<1> QED
  BY <1>2, <1>5, <1>6, <1>9 DEF OwnInv

(* The repository is looked up.                                            *)
LEMMA LookUpKeeps ==
  ASSUME OwnInv, NEW r, LookUpRepo(r)
  PROVE  OwnInv'
<1>1. AdmittedAreProper'
  BY HandledProper, FoundProper DEF LookUpRepo, OwnInv
<1>2. import' \in ImportState
  BY DEF LookUpRepo, OwnInv, OwnTypes, ImportState
<1> QED
  BY <1>1, <1>2, QuietStep DEF LookUpRepo, OwnInv, OwnTypes

(* The slug is free, so no offer of it is pending.                         *)
LEMMA CreateProjectKeeps ==
  ASSUME OwnInv, NEW r, CreateProject(r)
  PROVE  OwnInv'
<1>1. r \in admitted /\ Handled(r) /\ r.kind = "create"
  BY DEF CreateProject, Handles
<1>2. AdmittedAreProper' /\ r.by \in User
  BY <1>1, HandledProper DEF OwnInv, Proper
<1>3. PICK p \in UniqueSlug(r.repo) :
        /\ owner' = [owner EXCEPT ![p] = r.by]
        /\ lateImports' = IF r.by \in members THEN lateImports ELSE lateImports \cup {p}
  BY DEF CreateProject
<1>4. p \in Repo /\ owner[p] = NoUser
  BY <1>3 DEF UniqueSlug
<1>5. UNCHANGED <<members, offers, offersMade, passwords, account, card>>
  BY DEF CreateProject
<1>6. import' \in ImportState
  BY FormsTyped DEF CreateProject, OwnInv, OwnTypes, ImportState
<1>7. owner \in [Repo -> User \cup {NoUser}] /\ owner' \in [Repo -> User \cup {NoUser}]
  BY <1>2, <1>3 DEF OwnInv, OwnTypes
<1>8. OwnTypes'
  BY <1>3, <1>4, <1>5, <1>6, <1>7 DEF OwnInv, OwnTypes
<1>9. OneOffer'
  BY <1>5 DEF OwnInv, OneOffer
<1>10. \A q \in Repo : owner'[q] = IF q = p THEN r.by ELSE owner[q]
  BY <1>3, <1>7
<1>11. \A o \in offers : o.repo \in Repo /\ o.repo # p
  BY <1>4, OwnershipConstants DEF OwnInv, OwnTypes, ProjectsAreOwned, Offer
<1>12. \A q \in Repo : owner'[q] \in members \cup {NoUser} \/ q \in lateImports'
  BY <1>3, <1>10 DEF OwnInv, ProjectsAreOwned
<1>13. ProjectsAreOwned'
  BY <1>5, <1>10, <1>11, <1>12 DEF OwnInv, ProjectsAreOwned
<1> QED
  BY <1>2, <1>8, <1>9, <1>13 DEF OwnInv

(* An import that fails.                                                   *)
LEMMA CreateFailsKeeps ==
  ASSUME OwnInv, NEW r, CreateFails(r)
  PROVE  OwnInv'
<1>1. AdmittedAreProper'
  BY HandledProper DEF CreateFails, Handles, OwnInv
<1>2. import' \in ImportState
  BY DEF CreateFails, OwnInv, OwnTypes, ImportState
<1> QED
  BY <1>1, <1>2, QuietStep DEF CreateFails, OwnInv, OwnTypes

(* Only a member gets a password.                                          *)
LEMMA SetPasswordKeeps ==
  ASSUME OwnInv, NEW r, SetPassword(r)
  PROVE  OwnInv'
<1>1. AdmittedAreProper'
  BY HandledProper DEF SetPassword, Handles, OwnInv
<1>2. account' \in AccountState /\ passwords' \subseteq members
  BY DEF SetPassword, OwnInv, OwnTypes, AccountState
<1> QED
  BY <1>1, <1>2, QuietStep DEF SetPassword, OwnInv, OwnTypes

(* Who leaves owns nothing and takes the offers along.                     *)
LEMMA DeleteAccountKeeps ==
  ASSUME OwnInv, NEW r, DeleteAccount(r)
  PROVE  OwnInv'
<1>1. AdmittedAreProper'
  BY HandledProper DEF DeleteAccount, Handles, OwnInv
<1>2. account' \in AccountState /\ UNCHANGED <<owner, offersMade, import, card, lateImports>>
  BY DEF DeleteAccount, OwnInv, OwnTypes, AccountState, AccountSteps
<1>3. CASE \E p \in Repo : owner[p] = r.by
  <2>1. UNCHANGED <<members, offers, passwords>>
    BY <1>3 DEF DeleteAccount
  <2> QED
    BY <1>1, <1>2, <2>1, QuietStep DEF OwnInv, OwnTypes
<1>4. CASE \A p \in Repo : owner[p] # r.by
  <2>1. /\ members' = members \ {r.by} /\ passwords' = passwords \ {r.by}
        /\ offers' = {o \in offers : r.by \notin {o.from, o.to}}
    BY <1>4 DEF DeleteAccount, OffersWithout
  <2>2. OwnTypes'
    BY <1>2, <2>1 DEF OwnInv, OwnTypes
  <2>3. OneOffer'
    BY <2>1 DEF OwnInv, OneOffer
  <2>4. ProjectsAreOwned'
    BY <1>2, <1>4, <2>1 DEF OwnInv, ProjectsAreOwned
  <2> QED
    BY <1>1, <2>2, <2>3, <2>4 DEF OwnInv
<1> QED
  BY <1>3, <1>4

-----------------------------------------------------------------------------
(* Owners: the pages                                                       *)

(* A page sends at most one request of its user.                           *)
LEMMA PageKeeps ==
  ASSUME OwnInv, UNCHANGED <<members, owner, offers, offersMade, passwords, lateImports>>,
         account' \in AccountState, import' \in ImportState, card' \in CardState,
         \/ UNCHANGED admitted
         \/ \E kind, p, arg : /\ Admit(Request(kind, Me, p, arg))
                              /\ kind \in OfProject => p \in Repo
  PROVE  OwnInv'
<1>1. CASE UNCHANGED admitted
  BY <1>1, QuietStep DEF OwnInv, OwnTypes, AdmittedAreProper, Proper
<1>2. ASSUME NEW kind, NEW p, NEW arg, Admit(Request(kind, Me, p, arg)),
             kind \in OfProject => p \in Repo
      PROVE  OwnInv'
  <2>1. Proper(Request(kind, Me, p, arg))
    BY <1>2, OwnershipConstants DEF Proper, Request
  <2>2. AdmittedAreProper'
    BY <1>2, <2>1, AdmitProper DEF OwnInv
  <2> QED
    BY <2>2, QuietStep DEF OwnInv, OwnTypes
<1> QED
  BY <1>1, <1>2

(* The steps of the card.                                                  *)
LEMMA CardKeeps ==
  ASSUME OwnInv, CancelRequest \/ (\E p \in Repo : ShowCard(p))
                 \/ \E u \in User : RequestTransfer(u)
  PROVE  OwnInv'
<1>1. account \in AccountState /\ import \in ImportState /\ card \in CardState
  BY DEF OwnInv, OwnTypes
<1>2. CASE CancelRequest
  BY <1>1, <1>2, PageKeeps DEF CancelRequest, CardOnly, CardState, OfProject
<1>3. ASSUME NEW p \in Repo, ShowCard(p)
      PROVE  OwnInv'
  <2>1. card' \in CardState
    BY <1>3 DEF ShowCard, CardState
  <2> QED
    BY <1>1, <1>3, <2>1, PageKeeps DEF ShowCard, CardOnly
<1>4. ASSUME NEW u \in User, RequestTransfer(u)
      PROVE  OwnInv'
  <2>1. card' \in CardState /\ card.repo \in Repo
    BY <1>1, <1>4 DEF RequestTransfer, CardState
  <2> QED
    BY <1>1, <1>4, <2>1, PageKeeps DEF RequestTransfer, CardOnly
<1> QED
  BY <1>2, <1>3, <1>4

(* The steps of the form for imports.                                      *)
LEMMA ImportKeeps ==
  ASSUME OwnInv, SetImportMode \/ SubmitImport \/ \E p \in Repo : ChooseRepo(p)
  PROVE  OwnInv'
<1>1. account \in AccountState /\ import \in ImportState /\ card \in CardState
  BY DEF OwnInv, OwnTypes
<1>2. CASE SetImportMode
  BY <1>1, <1>2, PageKeeps DEF SetImportMode, ImportOnly, ImportState
<1>3. CASE SubmitImport
  BY <1>1, <1>3, PageKeeps DEF SubmitImport, ImportState, OfProject
<1>4. ASSUME NEW p \in Repo, ChooseRepo(p)
      PROVE  OwnInv'
  BY <1>1, <1>4, PageKeeps DEF ChooseRepo, ImportOnly, ImportState
<1> QED
  BY <1>2, <1>3, <1>4

(* The steps of the account page.                                          *)
LEMMA AccountKeeps ==
  ASSUME OwnInv, \/ OpenPasswordForm \/ ClosePasswordForm \/ SavePassword
                 \/ StartDeleting \/ StopDeleting \/ ConfirmDeleteAccount
  PROVE  OwnInv'
<1>1. account \in AccountState /\ import \in ImportState /\ card \in CardState
  BY DEF OwnInv, OwnTypes
<1>2. AccountOnly /\ account' \in AccountState
  BY <1>1 DEF OpenPasswordForm, ClosePasswordForm, SavePassword, StartDeleting, StopDeleting,
              ConfirmDeleteAccount, AccountState, AccountSteps
<1>3. \/ UNCHANGED admitted
      \/ \E kind \in {"password", "delete-account"} :
           \E arg : Admit(Request(kind, Me, NoRepo, arg))
  BY DEF OpenPasswordForm, ClosePasswordForm, SavePassword, StartDeleting, StopDeleting,
         ConfirmDeleteAccount
<1> QED
  BY <1>1, <1>2, <1>3, PageKeeps DEF AccountOnly, OfProject

-----------------------------------------------------------------------------
(* Owners: theorems                                                        *)

(* The invariant holds at the start: nothing is offered, nobody is gone.   *)
LEMMA OwnershipStart == OwnershipInit => OwnInv
<1> SUFFICES ASSUME OwnershipInit PROVE OwnInv
  OBVIOUS
<1>1. OwnTypes
  BY OwnershipConstants, FormsTyped DEF OwnershipInit, OwnTypes, AccountState, AccountSteps
<1>2. AdmittedAreProper
  BY FS_EmptySet, OwnershipConstants DEF OwnershipInit, AdmittedAreProper
<1>3. OneOffer /\ ProjectsAreOwned
  BY DEF OwnershipInit, OneOffer, ProjectsAreOwned
<1> QED
  BY <1>1, <1>2, <1>3 DEF OwnInv

(* Every step keeps the invariant.                                         *)
LEMMA OwnershipStep == OwnInv /\ [OwnershipNext]_ownershipVars => OwnInv'
<1> SUFFICES ASSUME OwnInv, [OwnershipNext]_ownershipVars PROVE OwnInv'
  OBVIOUS
<1>1. ASSUME NEW u \in User, NEW p \in Repo, NEW kind \in Kinds, NEW arg,
             SendRequest(kind, u, p, arg)
      PROVE  OwnInv'
  BY <1>1, RequestKeeps
<1>2. ASSUME NEW o \in offers, NEW kind \in {"accept", "decline"},
             SendRequest(kind, o.to, o.repo, o.id)
      PROVE  OwnInv'
  <2>1. o.to \in User /\ o.repo \in Repo /\ kind \in Kinds
    BY DEF OwnInv, OwnTypes, Offer, Kinds
  <2> QED
    BY <1>2, <2>1, RequestKeeps
<1>3. ASSUME NEW r \in admitted,
             \/ Refuse(r) \/ Transfer(r) \/ CancelTransfer(r) \/ Respond(r) \/ DeleteProject(r)
             \/ LookUpRepo(r) \/ CreateProject(r) \/ CreateFails(r)
             \/ SetPassword(r) \/ DeleteAccount(r)
      PROVE  OwnInv'
  BY <1>3, RefuseKeeps, TransferKeeps, CancelTransferKeeps, RespondKeeps, DeleteProjectKeeps,
     LookUpKeeps, CreateProjectKeeps, CreateFailsKeeps, SetPasswordKeeps, DeleteAccountKeeps
<1>4. CASE UNCHANGED ownershipVars
  BY <1>4, PageKeeps DEF ownershipVars, OwnInv, OwnTypes
<1> QED
  <2>1. {"withdraw", "delete-project", "transfer"} \subseteq Kinds
    BY DEF Kinds
  <2> QED
    BY <1>1, <1>2, <1>3, <1>4, <2>1, CardKeeps, ImportKeeps, AccountKeeps DEF OwnershipNext

(* Every project has an owner who is a member, or is one of the late       *)
(* imports, and every offer goes from the owner to another member,         *)
(* whatever handlers, pages and deletions do.                              *)
THEOREM OwnershipInvariance == OwnershipInit /\ [][OwnershipNext]_ownershipVars => []OwnInv
  BY OwnershipStart, OwnershipStep, PTL

-----------------------------------------------------------------------------
(* Projects: the invariant                                                 *)

Slugs == Project \cup {NoProject}
SettingsState ==
  [tab : Tabs \cup {"none"}, project : Slugs, step : {"idle", "confirming", "deleting"},
   typed : Slugs]
CallState ==
  [kind : {"none", "save", "delete"}, slug : Slugs, typed : Slugs, next : Slugs,
   phase : {"sent", "ok", "refused"}, mounted : BOOLEAN]

PrTypes ==
  /\ exists \subseteq Project /\ list \subseteq Slugs /\ removed \subseteq Project
  /\ route \in Slugs /\ settings \in SettingsState /\ call \in CallState

(* What the settings show and ask for is the project in the route.         *)
SettingsFollow ==
  /\ settings.project \in {NoProject, route} /\ settings.typed \in {NoProject, route}
  /\ call.mounted => call.slug = route

(* DeletesWhatWasConfirmed, and what has been deleted is gone.             *)
CallIsKnown == call.kind = "delete" =>
  /\ call.slug = call.typed /\ call.typed \in Project
  /\ call.phase = "ok" => call.slug \notin exists

(* An answer is about what was asked for. Unless it was under way at the   *)
(* deletion, it does not mention what was deleted here.                    *)
Sound(a) ==
  /\ a.of \in Slugs /\ a.row \in {NoProject, a.of} /\ a.rows \subseteq Project
  /\ a.to = "settings" => a.of = route
  /\ \A p \in removed \ late : ~Mentions(a, p)
AnswersAreSound == (\A a \in answers : Sound(a)) /\ removed \cap exists = {}

PrInv == /\ PrTypes /\ SettingsFollow /\ CallIsKnown /\ AnswersAreSound
         /\ DeletedStaysGone

-----------------------------------------------------------------------------
(* Projects: the steps                                                     *)

(* The states of rest are states.                                          *)
LEMMA RestTyped ==
  /\ Closed \in SettingsState /\ NoCall \in CallState /\ NoProject \notin Project
  /\ Closed.project = NoProject /\ Closed.typed = NoProject
  /\ NoCall.kind = "none" /\ ~NoCall.mounted
  BY ProjectsAssumption DEF Closed, SettingsState, NoCall, CallState, Slugs, Tabs

(* The server answers with what there is.                                  *)
LEMMA AnswerIsSound ==
  ASSUME PrInv, NEW to, NEW p \in Slugs, to = "settings" => p = route
  PROVE  Sound(Answer(to, p))
<1>1. /\ exists \subseteq Project /\ removed \cap exists = {} /\ removed \subseteq Project
      /\ NoProject \notin Project
  BY RestTyped DEF PrInv, PrTypes, AnswersAreSound
<1>2. /\ Answer(to, p).to = to /\ Answer(to, p).of = p
      /\ Answer(to, p).row \in {NoProject, p} /\ Answer(to, p).rows \subseteq exists
      /\ Answer(to, p).row \in exists \cup {NoProject}
  BY DEF Answer, Row
<1> HIDE DEF Answer
<1> QED
  BY <1>1, <1>2 DEF Sound, Mentions, Slugs

(* A page asks for what it needs.                                          *)
LEMMA AskKeeps ==
  ASSUME PrInv, UNCHANGED <<exists, list, route, call, removed, late>>,
         settings' \in SettingsState, settings'.project \in {NoProject, route},
         settings'.typed \in {NoProject, route},
         \A a \in answers' : a \in answers \/ Sound(a)
  PROVE  PrInv'
<1>1. PrTypes' /\ SettingsFollow' /\ CallIsKnown' /\ DeletedStaysGone'
  BY DEF PrInv, PrTypes, SettingsFollow, CallIsKnown, DeletedStaysGone
<1>2. AnswersAreSound'
  BY DEF PrInv, AnswersAreSound, Sound, Mentions
<1> QED
  BY <1>1, <1>2 DEF PrInv

(* The actions that only ask for something keep the invariant.             *)
LEMMA AskStepKeeps ==
  ASSUME PrInv, LoadProjects \/ SignInAgain \/ Activity \/ \E tab \in Tabs : OpenSettings(tab)
  PROVE  PrInv'
<1>0. /\ settings \in SettingsState /\ settings.project \in {NoProject, route}
      /\ settings.typed \in {NoProject, route} /\ route \in Slugs /\ NoProject \in Slugs
  BY DEF PrInv, PrTypes, SettingsFollow, Slugs
<1>1. Sound(Answer("list", NoProject)) /\ Sound(Answer("shell", route))
      /\ Sound(Answer("settings", route))
  BY <1>0, AnswerIsSound
<1>2. CASE LoadProjects \/ SignInAgain \/ Activity
  <2>1. \A a \in answers' : a \in answers \/ Sound(a)
    BY <1>1, <1>2 DEF LoadProjects, SignInAgain, Activity, Ask
  <2>2. UNCHANGED <<exists, list, route, call, removed, late, settings>>
    BY <1>2 DEF LoadProjects, SignInAgain, Activity, pageVars, history
  <2> QED
    BY <1>0, <2>1, <2>2, AskKeeps
<1>3. ASSUME NEW tab \in Tabs, OpenSettings(tab)
      PROVE  PrInv'
  <2>1. \A a \in answers' : a \in answers \/ Sound(a)
    BY <1>1, <1>3 DEF OpenSettings, Ask
  <2>2. UNCHANGED <<exists, list, route, call, removed, late>>
    BY <1>3 DEF OpenSettings, history
  <2>3. /\ settings' \in SettingsState /\ settings'.project = NoProject
        /\ settings'.typed = NoProject
    BY <1>3, RestTyped DEF OpenSettings, SettingsState, Closed, Slugs
  <2> QED
    BY <2>1, <2>2, <2>3, AskKeeps
<1> QED
  BY <1>2, <1>3

(* The user leaves the page, or it is closed: its answers are not waited   *)
(* for any more, and its call is not its own.                              *)
LEMMA LeaveKeeps ==
  ASSUME PrInv, UNCHANGED <<exists, removed, late>>, route' \in Slugs, settings' = Closed,
         call' = [call EXCEPT !.mounted = FALSE],
         list' \subseteq list \cup {NoProject},
         \A a \in answers' : \/ a \in answers /\ a.to # "settings"
                             \/ Sound(a) /\ a.to # "settings"
  PROVE  PrInv'
<1>1. call' \in CallState /\ ~call'.mounted
      /\ call'.kind = call.kind /\ call'.slug = call.slug /\ call'.typed = call.typed
      /\ call'.phase = call.phase
  BY DEF PrInv, PrTypes, CallState
<1>2. PrTypes'
  BY <1>1, RestTyped DEF PrInv, PrTypes, Slugs
<1>3. SettingsFollow' /\ CallIsKnown'
  BY <1>1, RestTyped DEF PrInv, SettingsFollow, CallIsKnown
<1>4. AnswersAreSound'
  BY DEF PrInv, AnswersAreSound, Sound, Mentions
<1>5. DeletedStaysGone'
  BY RestTyped DEF PrInv, PrTypes, DeletedStaysGone
<1> QED
  BY <1>2, <1>3, <1>4, <1>5 DEF PrInv

(* The actions that leave a project keep the invariant.                    *)
LEMMA LeaveStepKeeps ==
  ASSUME PrInv, \/ SignOut \/ Home \/ (\E p \in Project : Navigate(p))
                \/ \E a \in answers : ProjectGone(a) \/ ShellFails(a)
  PROVE  PrInv'
<1>0. list \subseteq Slugs /\ route \in Slugs /\ NoProject \in Slugs /\ Project \subseteq Slugs
  BY DEF PrInv, PrTypes, Slugs
<1>1. CASE SignOut
  BY <1>0, <1>1, LeaveKeeps DEF SignOut, GoHome, NotLoaded, history
<1>2. CASE Home
  BY <1>0, <1>2, LeaveKeeps DEF Home, GoHome, history
<1>3. ASSUME NEW p \in Project, Navigate(p)
      PROVE  PrInv'
  <2>1. Sound(Answer("shell", p)) /\ Answer("shell", p).to = "shell"
    BY <1>0, AnswerIsSound DEF Answer
  <2>2. \A a \in answers' : \/ a \in answers /\ a.to # "settings"
                            \/ Sound(a) /\ a.to # "settings"
    BY <1>3, <2>1 DEF Navigate, EnterProject
  <2> QED
    BY <1>0, <1>3, <2>2, LeaveKeeps DEF Navigate, EnterProject, Unloaded, history
<1>4. ASSUME NEW a \in answers, ProjectGone(a)
      PROVE  PrInv'
  BY <1>0, <1>4, LeaveKeeps DEF ProjectGone, Removed, history
<1>5. ASSUME NEW a \in answers, ShellFails(a)
      PROVE  PrInv'
  BY <1>0, <1>5, LeaveKeeps DEF ShellFails, history
<1> QED
  BY <1>1, <1>2, <1>3, <1>4, <1>5

(* What is typed is the name on the page, which is the one in the route.   *)
LEMMA SettingsKeeps ==
  ASSUME PrInv, \/ StartConfirming \/ TypeName \/ CancelConfirm
                \/ \E tab \in Tabs : SetTab(tab)
  PROVE  PrInv'
<1>0. /\ settings \in SettingsState /\ settings.project \in {NoProject, route}
      /\ settings.typed \in {NoProject, route} /\ route \in Slugs /\ NoProject \in Slugs
      /\ call \in CallState
  BY DEF PrInv, PrTypes, SettingsFollow, Slugs
<1>1. CASE StartConfirming \/ TypeName \/ CancelConfirm
  <2>1. /\ settings' \in SettingsState /\ settings'.project = settings.project
        /\ settings'.typed \in {NoProject, route}
    BY <1>0, <1>1 DEF StartConfirming, TypeName, CancelConfirm, SettingsState
  <2> QED
    BY <1>0, <1>1, <2>1, AskKeeps
       DEF StartConfirming, TypeName, CancelConfirm, OnlySettings, history
<1>2. ASSUME NEW tab \in Tabs, SetTab(tab)
      PROVE  PrInv'
  <2>1. /\ settings' \in SettingsState /\ settings'.project = settings.project
        /\ settings'.typed = NoProject
    BY <1>0, <1>2 DEF SetTab, SettingsState
  <2>2. UNCHANGED <<exists, list, route, answers, removed, late>>
    BY <1>2 DEF SetTab, history
  <2>3. call' = call \/ call' = [call EXCEPT !.mounted = FALSE]
    BY <1>2 DEF SetTab
  <2>4. /\ call' \in CallState /\ call'.kind = call.kind /\ call'.slug = call.slug
        /\ call'.typed = call.typed /\ call'.phase = call.phase
        /\ call'.mounted => call.mounted
    BY <1>0, <2>3 DEF CallState
  <2>5. PrTypes' /\ SettingsFollow' /\ CallIsKnown'
    BY <1>0, <2>1, <2>2, <2>4 DEF PrInv, PrTypes, SettingsFollow, CallIsKnown
  <2>6. AnswersAreSound' /\ DeletedStaysGone'
    BY <2>2 DEF PrInv, AnswersAreSound, Sound, Mentions, DeletedStaysGone
  <2> QED
    BY <2>5, <2>6 DEF PrInv
<1> QED
  BY <1>1, <1>2

(* A call names the project in the route, and a deletion the one that was  *)
(* typed.                                                                  *)
LEMMA SendKeeps ==
  ASSUME PrInv, Save \/ ConfirmDelete
  PROVE  PrInv'
<1>0. /\ settings \in SettingsState /\ settings.typed \in {NoProject, route}
      /\ settings.project \in {NoProject, route} /\ route \in Slugs /\ list \subseteq Slugs
      /\ NoProject \in Slugs
  BY DEF PrInv, PrTypes, SettingsFollow, Slugs
<1>1. PICK kind \in {"save", "delete"}, slug \in Slugs, after \in Slugs :
        /\ Send(kind, slug, after)
        /\ kind = "delete" => slug = route /\ slug # NoProject
  <2>1. CASE Save
    BY <1>0, <2>1 DEF Save
  <2>2. CASE ConfirmDelete
    <3>1. NextSlugAfter(settings.project) \in Slugs
      BY <1>0 DEF NextSlugAfter
    <3> QED
      BY <1>0, <2>2, <3>1 DEF ConfirmDelete
  <2> QED
    BY <2>1, <2>2
<1>2. /\ call' \in CallState /\ call'.slug = route /\ call'.phase = "sent"
      /\ call'.kind = "delete" => call'.typed = route /\ call'.typed \in Project
  BY <1>0, <1>1 DEF Send, CallState, Slugs
<1>3. UNCHANGED <<exists, list, route, answers, removed, late>>
  BY <1>1 DEF Send, history
<1>4. /\ settings' \in SettingsState /\ settings'.project = settings.project
      /\ settings'.typed = settings.typed
  BY <1>0 DEF Save, ConfirmDelete, SettingsState
<1>5. PrTypes' /\ SettingsFollow' /\ CallIsKnown'
  BY <1>0, <1>2, <1>3, <1>4 DEF PrInv, PrTypes, SettingsFollow, CallIsKnown
<1>6. AnswersAreSound' /\ DeletedStaysGone'
  BY <1>3 DEF PrInv, AnswersAreSound, Sound, Mentions, DeletedStaysGone
<1> QED
  BY <1>5, <1>6 DEF PrInv

(* The server deletes what is named, and others may be faster.             *)
LEMMA ServerKeeps ==
  ASSUME PrInv, Serve \/ \E p \in Project : OthersDelete(p)
  PROVE  PrInv'
<1>1. /\ exists' \subseteq exists
      /\ UNCHANGED <<list, route, settings, answers, removed, late>>
  BY DEF Serve, OthersDelete, pageVars, history
<1>0. call \in CallState
  BY DEF PrInv, PrTypes
<1>2. /\ call' \in CallState /\ call'.kind = call.kind /\ call'.slug = call.slug
      /\ call'.typed = call.typed /\ (call'.mounted => call.mounted)
      /\ call'.kind = "delete" /\ call'.phase = "ok" =>
           (call.phase = "ok" \/ call.slug \notin exists')
  <2>1. CASE call' = call
    BY <1>0, <2>1
  <2>2. CASE call' = [call EXCEPT !.phase = "refused"]
    BY <1>0, <2>2 DEF CallState
  <2>3. CASE /\ call' = [call EXCEPT !.phase = "ok"]
             /\ exists' = IF call.kind = "delete" THEN exists \ {call.slug} ELSE exists
    <3>1. call'.kind = "delete" => call.slug \notin exists'
      BY <1>0, <2>3 DEF CallState
    <3>2. /\ call' \in CallState /\ call'.kind = call.kind /\ call'.slug = call.slug
          /\ call'.typed = call.typed /\ (call'.mounted => call.mounted)
      BY <1>0, <2>3 DEF CallState
    <3> QED
      BY <3>1, <3>2
  <2>4. CASE Serve
    BY <2>2, <2>3, <2>4 DEF Serve
  <2>5. CASE \E p \in Project : OthersDelete(p)
    BY <2>1, <2>5 DEF OthersDelete
  <2> QED
    BY <2>4, <2>5
<1>3. PrTypes' /\ SettingsFollow' /\ CallIsKnown'
  BY <1>1, <1>2 DEF PrInv, PrTypes, SettingsFollow, CallIsKnown
<1>4. AnswersAreSound' /\ DeletedStaysGone'
  BY <1>1 DEF PrInv, AnswersAreSound, Sound, Mentions, DeletedStaysGone
<1> QED
  BY <1>3, <1>4 DEF PrInv

(* The page shows what was saved only if it is still the same page.        *)
LEMMA AnsweredKeeps ==
  ASSUME PrInv, Saved \/ DeleteRefused
  PROVE  PrInv'
<1>0. /\ settings \in SettingsState /\ settings.project \in {NoProject, route}
      /\ settings.typed \in {NoProject, route} /\ call \in CallState /\ NoProject \in Slugs
      /\ call.mounted => call.slug = route
  BY DEF PrInv, PrTypes, SettingsFollow, Slugs
<1>1. /\ settings' \in SettingsState /\ settings'.project \in {NoProject, route}
      /\ settings'.typed \in {NoProject, route}
  BY <1>0 DEF Saved, DeleteRefused, SettingsState, CallState
<1>2. call' = NoCall /\ UNCHANGED <<exists, list, route, answers, removed, late>>
  BY DEF Saved, DeleteRefused, history
<1>3. PrTypes' /\ SettingsFollow' /\ CallIsKnown'
  BY <1>0, <1>1, <1>2, RestTyped DEF PrInv, PrTypes, SettingsFollow, CallIsKnown
<1>4. AnswersAreSound' /\ DeletedStaysGone'
  BY <1>2 DEF PrInv, AnswersAreSound, Sound, Mentions, DeletedStaysGone
<1> QED
  BY <1>3, <1>4 DEF PrInv

(* Answers that come in name no project that was deleted here before they  *)
(* were asked for.                                                         *)
LEMMA ShowKeeps ==
  ASSUME PrInv, NEW a \in answers, ShowProjects(a) \/ ShowProject(a) \/ ShowSettings(a)
  PROVE  PrInv'
<1>0. /\ Sound(a) /\ settings \in SettingsState /\ route \in Slugs
      /\ settings.project \in {NoProject, route} /\ settings.typed \in {NoProject, route}
      /\ list \subseteq Slugs
  BY DEF PrInv, PrTypes, SettingsFollow, AnswersAreSound
<1>1. CASE ShowSettings(a)
  <2>1. /\ settings' \in SettingsState /\ settings'.project \in {NoProject, route}
        /\ settings'.typed = settings.typed
    BY <1>0, <1>1 DEF ShowSettings, Sound, SettingsState, Slugs
  <2>2. answers' \subseteq answers /\ UNCHANGED <<exists, list, route, call, removed, late>>
    BY <1>1 DEF ShowSettings, history
  <2> QED
    BY <1>0, <2>1, <2>2, AskKeeps
<1>2. CASE ShowProjects(a) \/ ShowProject(a)
  <2>1. /\ answers' \subseteq answers
        /\ UNCHANGED <<exists, route, settings, call, removed, late>>
    BY <1>2 DEF ShowProjects, ShowProject, history
  <2>2. list' \subseteq a.rows \/ (a.row # NoProject /\ list' \subseteq list \cup {a.of})
    BY <1>2 DEF ShowProjects, ShowProject, Upserted
  <2>3. /\ list' \subseteq Slugs
        /\ \A p \in list' : p \in list \/ Mentions(a, p)
    BY <1>0, <2>2 DEF Sound, Mentions, Slugs
  <2>4. PrTypes' /\ SettingsFollow' /\ CallIsKnown'
    BY <2>1, <2>3 DEF PrInv, PrTypes, SettingsFollow, CallIsKnown
  <2>5. AnswersAreSound'
    BY <2>1 DEF PrInv, AnswersAreSound, Sound, Mentions
  <2>6. DeletedStaysGone'
    BY <1>0, <2>1, <2>3 DEF PrInv, DeletedStaysGone, Sound
  <2> QED
    BY <2>4, <2>5, <2>6 DEF PrInv
<1> QED
  BY <1>1, <1>2

(* The project that is gone is counted as removed, and as late if an       *)
(* answer still mentions it.                                               *)
LEMMA FinishDeleteKeeps ==
  ASSUME PrInv, FinishDelete
  PROVE  PrInv'
<1> DEFINE p == call.typed
<1>0. /\ PrTypes /\ SettingsFollow /\ AnswersAreSound /\ DeletedStaysGone
      /\ call \in CallState /\ call.next \in Slugs /\ Project \subseteq Slugs
      /\ NoProject \in Slugs
  BY DEF PrInv, PrTypes, CallState, Slugs
<1>1. p \in Project /\ p \notin exists
  BY DEF FinishDelete, PrInv, CallIsKnown
<1>2. /\ call' = NoCall /\ list' = list \ {p} /\ removed' = removed \cup {p}
      /\ late' = IF \E a \in answers : Mentions(a, p) THEN late \cup {p} ELSE late
      /\ exists' = exists
  BY DEF FinishDelete, Removed
<1>3. \/ UNCHANGED <<route, settings, answers>>
      \/ /\ route' \in Slugs /\ settings' = Closed
         /\ \A a \in answers' : a.to # "settings" /\ (a \in answers \/ a = Answer("shell", route'))
  <2>1. CASE call.next = NoProject \/ ~session
    BY <1>0, <2>1 DEF FinishDelete, GoHome
  <2>2. CASE call.next # NoProject /\ session /\ route = call.next
    BY <2>2 DEF FinishDelete
  <2>3. CASE call.next # NoProject /\ session /\ route # call.next
    BY <1>0, <2>3 DEF FinishDelete, EnterProject, Unloaded, Answer
  <2> QED
    BY <2>1, <2>2, <2>3
<1>4. PrTypes' /\ SettingsFollow' /\ CallIsKnown'
  BY <1>0, <1>1, <1>2, <1>3, RestTyped DEF PrTypes, SettingsFollow, CallIsKnown
<1>5. \A a \in answers : \A q \in removed' \ late' : ~Mentions(a, q)
  BY <1>0, <1>2 DEF AnswersAreSound, Sound
<1>6. ASSUME route' \in Slugs
      PROVE  /\ Answer("shell", route').of = route'
             /\ Answer("shell", route').row \in {NoProject, route'}
             /\ Answer("shell", route').rows = {}
             /\ \A q \in removed' \ late' : ~Mentions(Answer("shell", route'), q)
  BY <1>0, <1>1, <1>2, RestTyped DEF Answer, Row, Mentions, AnswersAreSound, PrTypes
<1>7. AnswersAreSound'
  <2>1. ASSUME NEW a \in answers'
        PROVE  Sound(a)'
    <3>1. CASE UNCHANGED <<route, settings, answers>>
      BY <1>0, <1>5, <2>1, <3>1 DEF AnswersAreSound, Sound, Mentions
    <3>2. CASE /\ route' \in Slugs /\ a.to # "settings"
               /\ a \in answers \/ a = Answer("shell", route')
      BY <1>0, <1>5, <1>6, <3>2 DEF AnswersAreSound, Sound, Mentions
    <3> QED
      BY <1>3, <2>1, <3>1, <3>2
  <2>2. (removed \cap exists = {})'
    BY <1>0, <1>1, <1>2 DEF AnswersAreSound
  <2> QED
    BY <2>1, <2>2 DEF AnswersAreSound, Sound, Mentions
<1>8. DeletedStaysGone'
  BY <1>0, <1>2 DEF DeletedStaysGone
<1> QED
  BY <1>4, <1>7, <1>8 DEF PrInv

(* The invariant holds at the start: nothing is loaded.                    *)
LEMMA ProjectsStart == ProjectsInit => PrInv
<1> SUFFICES ASSUME ProjectsInit PROVE PrInv
  OBVIOUS
<1>1. PrTypes
  BY RestTyped DEF ProjectsInit, PrTypes, NotLoaded, Slugs
<1>2. SettingsFollow /\ CallIsKnown
  BY RestTyped DEF ProjectsInit, SettingsFollow, CallIsKnown
<1>3. AnswersAreSound /\ DeletedStaysGone
  BY DEF ProjectsInit, AnswersAreSound, DeletedStaysGone
<1> QED
  BY <1>1, <1>2, <1>3 DEF PrInv

(* Every step of the project pages keeps the invariant.                    *)
LEMMA ProjectsStep == PrInv /\ [ProjectsNext]_projectVars => PrInv'
<1> SUFFICES ASSUME PrInv, [ProjectsNext]_projectVars PROVE PrInv'
  OBVIOUS
<1>1. CASE UNCHANGED projectVars
  <2>1. UNCHANGED <<exists, list, route, call, removed, late, settings, answers>>
    BY <1>1 DEF projectVars
  <2> QED
    BY <2>1, AskKeeps DEF PrInv, PrTypes, SettingsFollow
<1>2. CASE ProjectsNext
  BY <1>2, AskStepKeeps, LeaveStepKeeps, SettingsKeeps, SendKeeps, ServerKeeps, AnsweredKeeps,
     ShowKeeps, FinishDeleteKeeps DEF ProjectsNext
<1> QED
  BY <1>1, <1>2
-----------------------------------------------------------------------------
(* Projects: types                                                         *)

(* The types of the pages need more than PrInv: what was loaded is of the  *)
(* route that is still shown.                                              *)
ListTyped == (list \subseteq Project \/ list = NotLoaded) /\ current \in Slugs
ShellFollows ==
  /\ shell # NoProject => route # NoProject
  /\ settings.tab # "none" => shell # NoProject
FewAnswers == IsFiniteSet(answers) /\ Cardinality(answers) <= MaxAnswers
PagesTyped == ListTyped /\ ShellFollows /\ FewAnswers

(* One project is added to the list, or taken from it.                     *)
LEMMA ListChanges ==
  ASSUME ListTyped, NEW p
  PROVE  /\ p \in Project => Upserted(p) \subseteq Project
         /\ Removed(p) \subseteq Project \/ Removed(p) = NotLoaded
  BY DEF ListTyped, Upserted, Removed, NotLoaded

(* The list and the project in the switcher.                               *)
LEMMA ListTypedStep ==
  ASSUME PrInv, ListTyped, ProjectsNext
  PROVE  ListTyped'
<1>1. CASE UNCHANGED <<list, current>>
  BY <1>1 DEF ListTyped, Slugs, NotLoaded
<1>2. CASE SignOut \/ Home
  BY <1>2 DEF SignOut, Home, ListTyped, Slugs, NotLoaded
<1>3. ASSUME NEW a \in answers, ShowProjects(a)
      PROVE  ListTyped'
  BY <1>3 DEF ShowProjects, ListTyped, Slugs, PrInv, AnswersAreSound, Sound
<1>4. ASSUME NEW a \in answers, ShowProject(a)
      PROVE  ListTyped'
  <2>1. a.of \in Project
    BY <1>4 DEF ShowProject, PrInv, AnswersAreSound, Sound, Slugs
  <2> QED
    BY <1>4, <2>1, ListChanges DEF ShowProject, ListTyped, Slugs
<1>5. ASSUME NEW a \in answers, ProjectGone(a)
      PROVE  ListTyped'
  BY <1>5, ListChanges DEF ProjectGone, ListTyped, Slugs, NotLoaded
<1>7. ASSUME NEW a \in answers, ShellFails(a)
      PROVE  ListTyped'
  BY <1>7 DEF ShellFails, ListTyped, Slugs, NotLoaded
<1>6. CASE FinishDelete
  BY <1>6, ListChanges DEF FinishDelete, CurrentAfter, ListTyped, Slugs, NotLoaded
<1> QED
  BY <1>1, <1>2, <1>3, <1>4, <1>5, <1>6, <1>7
     DEF ProjectsNext, LoadProjects, SignInAgain, Activity, Save, Send, StartConfirming, TypeName,
         CancelConfirm, OnlySettings, ConfirmDelete, Serve, Saved, DeleteRefused, Navigate,
         OthersDelete, OpenSettings, SetTab, ShowSettings, pageVars

(* The settings are open only in a shell, and a shell in a route.          *)
LEMMA ShellFollowsStep ==
  ASSUME PrInv, ShellFollows, ProjectsNext
  PROVE  ShellFollows'
<1>0. /\ settings \in SettingsState /\ Closed.tab = "none" /\ Unloaded.shell = NoProject
      /\ Unloaded.settings.tab = "none"
  BY DEF PrInv, PrTypes, Closed, Unloaded
<1>1. CASE UNCHANGED <<route, shell>> /\ settings'.tab \in {settings.tab, "none"}
  BY <1>1 DEF ShellFollows
<1>2. CASE shell' = NoProject /\ settings'.tab = "none"
  BY <1>2 DEF ShellFollows
<1>3. ASSUME NEW a \in answers, ShowProject(a)
      PROVE  ShellFollows'
  BY <1>3 DEF ShowProject, ShellFollows
<1>4. ASSUME NEW tab \in Tabs, OpenSettings(tab) \/ SetTab(tab)
      PROVE  ShellFollows'
  BY <1>4 DEF OpenSettings, SetTab, Shown, ShellFollows
<1>5. CASE \/ LoadProjects \/ SignInAgain \/ Activity \/ Save \/ Serve
           \/ \E p \in Project : OthersDelete(p)
           \/ \E a \in answers : ShowProjects(a)
  BY <1>1, <1>5 DEF LoadProjects, SignInAgain, Activity, Save, Send, Serve, OthersDelete,
                    ShowProjects, pageVars
<1>6. CASE \/ StartConfirming \/ TypeName \/ CancelConfirm \/ ConfirmDelete \/ Saved
           \/ DeleteRefused \/ \E a \in answers : ShowSettings(a)
  <2>1. UNCHANGED <<route, shell>>
    BY <1>6 DEF StartConfirming, TypeName, CancelConfirm, ConfirmDelete, Saved, DeleteRefused,
                ShowSettings, OnlySettings, Send
  <2>2. settings'.tab = settings.tab
    BY <1>0, <1>6 DEF SettingsState, StartConfirming, TypeName, CancelConfirm, ConfirmDelete,
                Saved, DeleteRefused, ShowSettings
  <2> QED
    BY <1>1, <2>1, <2>2
<1>7. CASE \/ SignOut \/ Home \/ \E p \in Project : Navigate(p)
           \/ \E a \in answers : ProjectGone(a) \/ ShellFails(a)
  BY <1>0, <1>2, <1>7 DEF SignOut, Home, GoHome, Navigate, EnterProject, ProjectGone, ShellFails
<1>8. CASE FinishDelete
  BY <1>0, <1>1, <1>2, <1>8 DEF FinishDelete, GoHome, EnterProject
<1> QED
  BY <1>3, <1>4, <1>5, <1>6, <1>7, <1>8 DEF ProjectsNext

(* Answers under way: some are dropped and a few are added.                *)
LEMMA FewAnswersStep ==
  ASSUME FewAnswers, ProjectsNext
  PROVE  FewAnswers'
<1>1. ASSUME answers' \in SUBSET answers
      PROVE  FewAnswers'
  <2>1. /\ IsFiniteSet(answers') /\ Cardinality(answers') <= Cardinality(answers)
        /\ Cardinality(answers') \in Nat /\ Cardinality(answers) \in Nat
    BY <1>1, FS_Subset, FS_CardinalityType DEF FewAnswers
  <2> QED
    BY <2>1, ProjectsAssumption DEF FewAnswers
<1>2. ASSUME NEW kept \in SUBSET answers, NEW a, Cardinality(answers') <= MaxAnswers,
             answers' = kept \cup {a}
      PROVE  FewAnswers'
  <2>1. IsFiniteSet(kept)
    BY FS_Subset DEF FewAnswers
  <2>2. IsFiniteSet(kept \cup {a})
    BY <2>1, FS_AddElement
  <2> QED
    BY <1>2, <2>1, <2>2 DEF FewAnswers
<1>3. ASSUME NEW to, NEW p, Ask(to, p)
      PROVE  FewAnswers'
  BY <1>2, <1>3 DEF Ask
<1>4. ASSUME NEW p, EnterProject(p)
      PROVE  FewAnswers'
  <2>1. {a \in answers : a.to # "settings"} \in SUBSET answers
    OBVIOUS
  <2> QED
    BY <1>2, <1>4, <2>1 DEF EnterProject
<1>5. CASE \/ LoadProjects \/ SignInAgain \/ Activity
           \/ \E tab \in Tabs : OpenSettings(tab)
  BY <1>3, <1>5 DEF LoadProjects, SignInAgain, Activity, OpenSettings
<1>7. CASE FinishDelete \/ \E p \in Project : Navigate(p)
  BY <1>1, <1>4, <1>7 DEF FinishDelete, GoHome, Navigate
<1>8. CASE \/ SignOut \/ Home \/ \E p \in Project : OthersDelete(p)
           \/ \E a \in answers :
                \/ ShowProjects(a) \/ ShowProject(a) \/ ShowSettings(a)
                \/ ProjectGone(a) \/ ShellFails(a)
  BY <1>1, <1>8 DEF SignOut, Home, GoHome, OthersDelete, ShowProjects, ShowProject, ProjectGone,
                    ShellFails, ShowSettings
<1>9. CASE \/ Save \/ StartConfirming \/ TypeName \/ CancelConfirm \/ ConfirmDelete
           \/ Serve \/ Saved \/ DeleteRefused \/ \E tab \in Tabs : SetTab(tab)
  BY <1>1, <1>9 DEF Save, Send, StartConfirming, TypeName, CancelConfirm, ConfirmDelete,
                    OnlySettings, Serve, Saved, DeleteRefused, SetTab
<1> QED
  BY <1>5, <1>7, <1>8, <1>9 DEF ProjectsNext

(* The project pages start with nothing loaded and keep their types.       *)
LEMMA PagesTypedStart == ProjectsInit => PagesTyped
<1>1. IsFiniteSet({}) /\ Cardinality({}) = 0
  BY FS_EmptySet
<1> QED
  BY <1>1, ProjectsAssumption
     DEF ProjectsInit, PagesTyped, ListTyped, ShellFollows, FewAnswers, NotLoaded, Slugs, Closed

(* A step on the project pages keeps their types.                          *)
LEMMA PagesTypedStep == PrInv /\ PagesTyped /\ [ProjectsNext]_projectVars => PagesTyped'
<1>1. PagesTyped /\ UNCHANGED projectVars => PagesTyped'
  BY DEF projectVars, PagesTyped, ListTyped, ShellFollows, FewAnswers, NotLoaded, Slugs
<1> QED
  BY <1>1, ListTypedStep, ShellFollowsStep, FewAnswersStep DEF PagesTyped

(* The types the pages have are those they should.                         *)
LEMMA ProjectsTyped == PrInv /\ PagesTyped => ProjectsTypeOK
  BY DEF PrInv, PrTypes, SettingsFollow, PagesTyped, ListTyped, ShellFollows, FewAnswers, Slugs,
         ProjectsTypeOK

-----------------------------------------------------------------------------
(* Tailing the log: the invariant                                          *)

Upto(filter, since, highest) == {n \in Matching(filter, since) : n <= highest}

(* The rows a page shows of those it should.                               *)
Leads(rows, seq) == rows = FirstOf(seq, Len(rows))
Exact(rows, S) ==
  /\ Leads(rows, NewestFirst(S))
  /\ \/ Len(rows) \in {Cardinality(S), MaxShown}
     \/ Len(rows) >= Limit

IsAnswer(a) ==
  /\ a.kind \in {"reload", "tick"} /\ a.filter \in Filters
  /\ a.rows \in Seq(Int) /\ Newest(a.rows) \in 0..logged

TailTypes ==
  /\ logged \in 0..MaxStored /\ failed \subseteq 1..logged /\ behind \in BOOLEAN
  /\ tail = [page |-> tail.page, highest |-> tail.highest,
             live |-> tail.live, filter |-> tail.filter]
  /\ tail.page = [loaded |-> tail.page.loaded, rows |-> tail.page.rows]
  /\ tail.page.loaded \in BOOLEAN /\ tail.page.rows \in Seq(Int)
  /\ Len(tail.page.rows) <= MaxShown
  /\ tail.highest \in 0..logged /\ tail.filter \in Filters
  /\ IsFiniteSet(asked) /\ Cardinality(asked) <= MaxAsked
  /\ \A a \in asked : IsAnswer(a)

(* An answer brings the newest rows there were, or those since the newest  *)
(* one of the page.                                                        *)
Brings(a) ==
  /\ a.filter = tail.filter
  /\ a.kind = "reload" =>
       a.rows = FirstOf(NewestFirst(Upto(a.filter, 0, Newest(a.rows))), Limit)
  /\ a.kind = "tick" =>
       a.rows = NewestFirst(Upto(a.filter, tail.highest, Newest(a.rows)))

(* TailIsExact is not inductive: it needs to know what is under way.       *)
InStep ==
  /\ \A a, b \in asked : a = b
  /\ \A a \in asked : Brings(a)
  /\ \/ Exact(tail.page.rows, Upto(tail.filter, 0, tail.highest))
     \/ ~tail.page.loaded /\ \E a \in asked : a.kind = "reload"
  /\ ~tail.page.loaded => tail.page.rows = <<>>

TailInv == TailTypes /\ (~behind => InStep)

-----------------------------------------------------------------------------
(* Tailing the log: rows                                                   *)

(* What the constants are.                                                 *)
LEMMA TailNumbers ==
  /\ MaxStored \in Nat \ {0} /\ Limit \in Nat \ {0}
  /\ MaxShown \in Nat \ {0} /\ MaxAsked \in Nat \ {0}
  BY TailAssumption

(* Rows that match are finitely many numbers.                              *)
LEMMA MatchingTyped ==
  ASSUME logged \in Nat, NEW filter, NEW since, NEW highest
  PROVE  /\ Matching(filter, since) \in SUBSET (1..logged)
         /\ Matching(filter, since) \in SUBSET Int
         /\ IsFiniteSet(Matching(filter, since))
         /\ Upto(filter, since, highest) \in SUBSET (1..logged)
         /\ Upto(filter, since, highest) \in SUBSET Int
         /\ IsFiniteSet(Upto(filter, since, highest))
<1>1. /\ Matching(filter, since) \in SUBSET (1..logged)
      /\ Upto(filter, since, highest) \in SUBSET (1..logged)
  BY DEF Matching, Upto
<1> QED
  BY <1>1, PositionsAreFinite

(* NewestFirst lists a set from the greatest number to the least.          *)
LEMMA NewestFirstLists ==
  ASSUME NEW S \in SUBSET Int, IsFiniteSet(S)
  PROVE  /\ ListsDown(NewestFirst(S), S) /\ NewestFirst(S) \in Seq(Int)
         /\ Len(NewestFirst(S)) = Cardinality(S) /\ Cardinality(S) \in Nat
         /\ \A i \in 1..Cardinality(S) : NewestFirst(S)[i] \in S
<1>1. Cardinality(S) \in Nat
  BY FS_CardinalityType
<1>2. \E s \in [1..Cardinality(S) -> S] : \A i, j \in DOMAIN s : i < j => s[i] > s[j]
  BY ListExists DEF ListsDown, Decreasing
<1>3. /\ NewestFirst(S) \in [1..Cardinality(S) -> S]
      /\ \A i, j \in DOMAIN NewestFirst(S) : i < j => NewestFirst(S)[i] > NewestFirst(S)[j]
  BY <1>2 DEF NewestFirst
<1>4. ListsDown(NewestFirst(S), S)
  BY <1>3 DEF ListsDown, Decreasing
<1>5. NewestFirst(S) \in [1..Cardinality(S) -> Int]
  BY <1>3
<1> QED
  BY <1>1, <1>3, <1>4, <1>5

(* FirstOf takes the first k, or all if there are fewer.                   *)
LEMMA FirstOfTakes ==
  ASSUME NEW seq \in Seq(Int), NEW k \in Nat
  PROVE  /\ FirstOf(seq, k) \in Seq(Int)
         /\ Len(FirstOf(seq, k)) = IF Len(seq) < k THEN Len(seq) ELSE k
         /\ \A i \in 1..Len(FirstOf(seq, k)) : FirstOf(seq, k)[i] = seq[i]
<1> DEFINE m == IF Len(seq) < k THEN Len(seq) ELSE k
<1>1. m \in Nat /\ m <= Len(seq) /\ Len(seq) \in Nat
  OBVIOUS
<1>2. FirstOf(seq, k) = SubSeq(seq, 1, m)
  BY DEF FirstOf
<1> HIDE DEF m
<1>3. SubSeq(seq, 1, m) \in Seq(Int) /\ Len(SubSeq(seq, 1, m)) = m
  BY <1>1
<1>4. \A i \in 1..m : SubSeq(seq, 1, m)[i] = seq[i]
  BY <1>1
<1> QED
  BY <1>2, <1>3, <1>4 DEF m

(* The first rows are known by their number and each of them.              *)
LEMMA FirstOfIs ==
  ASSUME NEW seq \in Seq(Int), NEW rows \in Seq(Int), Len(rows) <= Len(seq),
         \A i \in 1..Len(rows) : rows[i] = seq[i]
  PROVE  Leads(rows, seq)
<1> DEFINE first == FirstOf(seq, Len(rows))
<1>1. Len(rows) \in Nat /\ Len(seq) \in Nat
  OBVIOUS
<1>2. first \in Seq(Int) /\ Len(first) = Len(rows) /\ \A i \in 1..Len(first) : first[i] = seq[i]
  BY <1>1, FirstOfTakes
<1> HIDE DEF first
<1>3. /\ rows \in [1..Len(rows) -> Int] /\ first \in [1..Len(rows) -> Int]
      /\ \A i \in 1..Len(rows) : rows[i] = first[i]
  BY <1>1, <1>2
<1>4. rows = first
  BY <1>3
<1> QED
  BY <1>4 DEF first, Leads

(* The first rows of the first k are the first rows of all.                *)
LEMMA FirstOfFirst ==
  ASSUME NEW seq \in Seq(Int), NEW j \in Nat, NEW k \in Nat,
         NEW rows, rows = FirstOf(FirstOf(seq, j), k)
  PROVE  /\ rows \in Seq(Int) /\ Leads(rows, seq)
         /\ Len(rows) \in {Len(seq), j, k} /\ Len(rows) <= k
         /\ Len(rows) < j => Len(rows) \in {Len(seq), k}
<1> DEFINE some == FirstOf(seq, j)
<1>0. rows = FirstOf(some, k)
  OBVIOUS
<1>1. /\ some \in Seq(Int) /\ Len(some) = IF Len(seq) < j THEN Len(seq) ELSE j
      /\ \A i \in 1..Len(some) : some[i] = seq[i]
  BY FirstOfTakes
<1> HIDE DEF some
<1>2. /\ rows \in Seq(Int) /\ Len(rows) = IF Len(some) < k THEN Len(some) ELSE k
      /\ \A i \in 1..Len(rows) : rows[i] = some[i]
  BY <1>0, <1>1, FirstOfTakes
<1>3. Len(rows) \in Nat /\ Len(some) \in Nat /\ Len(seq) \in Nat
  BY <1>1, <1>2
<1>4. Len(rows) <= Len(seq) /\ Len(rows) <= Len(some)
  BY <1>1, <1>2, <1>3
<1>5. \A i \in 1..Len(rows) : rows[i] = seq[i]
  <2>1. \A i \in 1..Len(rows) : i \in 1..Len(some)
    BY <1>3, <1>4
  <2> QED
    BY <1>1, <1>2, <2>1
<1>6. Leads(rows, seq)
  BY <1>2, <1>4, <1>5, FirstOfIs
<1>7. /\ Len(rows) \in {Len(seq), j, k} /\ Len(rows) <= k
      /\ Len(rows) < j => Len(rows) \in {Len(seq), k}
  BY <1>1, <1>2, <1>3
<1> QED
  BY <1>2, <1>6, <1>7

(* The newest of the first rows is the newest of all.                      *)
LEMMA NewestIsGreatest ==
  ASSUME NEW S \in SUBSET (Int \ {0}), IsFiniteSet(S), NEW k \in Nat \ {0}
  PROVE  LET rows == FirstOf(NewestFirst(S), k)
         IN  /\ rows \in Seq(Int)
             /\ S = {} => rows = <<>> /\ Newest(rows) = 0
             /\ S # {} => /\ rows # <<>> /\ Newest(rows) \in S
                          /\ \A n \in S : n <= Newest(rows)
<1> DEFINE all == NewestFirst(S)
           rows == FirstOf(all, k)
<1>0. S \in SUBSET Int
  OBVIOUS
<1>1. /\ ListsDown(all, S) /\ all \in Seq(Int) /\ Len(all) = Cardinality(S) /\ Cardinality(S) \in Nat
      /\ \A i \in 1..Cardinality(S) : all[i] \in S
  BY <1>0, NewestFirstLists
<1> HIDE DEF all
<1>2. /\ rows \in Seq(Int) /\ Len(rows) = IF Len(all) < k THEN Len(all) ELSE k
      /\ \A i \in 1..Len(rows) : rows[i] = all[i]
  BY <1>1, FirstOfTakes
<1> HIDE DEF rows
<1>3. ASSUME S = {}
      PROVE  rows = <<>> /\ Newest(rows) = 0
  <2>1. Len(rows) = 0
    BY <1>1, <1>2, <1>3, FS_EmptySet
  <2>2. rows = <<>>
    BY <1>2, <2>1
  <2> QED
    BY <2>2 DEF Newest
<1>4. ASSUME S # {}
      PROVE  rows # <<>> /\ Newest(rows) \in S /\ \A n \in S : n <= Newest(rows)
  <2>1. Cardinality(S) # 0
    BY <1>4, FS_EmptySet
  <2>2. Len(rows) # 0 /\ 1 \in 1..Len(rows) /\ 1 \in 1..Cardinality(S)
    BY <1>1, <1>2, <2>1
  <2>3. rows # <<>> /\ rows[1] = all[1] /\ all[1] \in S
    BY <1>1, <1>2, <2>2
  <2>4. Newest(rows) = all[1]
    BY <2>3 DEF Newest
  <2>5. ASSUME NEW n \in S
        PROVE  n <= all[1]
    <3>1. PICK i \in 1..Cardinality(S) : all[i] = n
      BY <1>0, <1>1, ListIsWhole
    <3>2. i = 1 \/ all[1] > all[i]
      <4>1. \A h, j \in 1..Cardinality(S) : h < j => all[h] > all[j]
        BY <1>1 DEF ListsDown, Decreasing
      <4>2. i = 1 \/ 1 < i
        BY <1>1
      <4> QED
        BY <2>2, <4>1, <4>2
    <3>3. n \in Int /\ all[1] \in Int
      BY <1>0, <2>3
    <3> QED
      BY <3>1, <3>2, <3>3
  <2> QED
    BY <2>3, <2>4, <2>5
<1> QED
  BY <1>2, <1>3, <1>4 DEF rows, all

(* What is appended to a sequence follows it.                              *)
LEMMA JoinedLength ==
  ASSUME NEW x \in Seq(Int), NEW y \in Seq(Int)
  PROVE  x \o y \in Seq(Int) /\ Len(x \o y) = Len(x) + Len(y)
  OBVIOUS

(* Its elements are those of the one, then those of the other.             *)
LEMMA JoinedElements ==
  ASSUME NEW x \in Seq(Int), NEW y \in Seq(Int), NEW i \in 1..(Len(x) + Len(y))
  PROVE  (x \o y)[i] = IF i <= Len(x) THEN x[i] ELSE y[i - Len(x)]
  OBVIOUS

(* Finitely many rows of which the one part is newer than the other.       *)
Precede(A, B) ==
  /\ A \in SUBSET Int /\ IsFiniteSet(A) /\ B \in SUBSET Int /\ IsFiniteSet(B)
  /\ \A a \in A, b \in B : a > b

(* Newer rows before the first of the older ones are the first of both.    *)
LEMMA RowsJoin ==
  ASSUME NEW A, NEW B, Precede(A, B),
         NEW old \in Seq(Int), Leads(old, NewestFirst(B)), NEW k \in Nat,
         NEW rows, rows = FirstOf(NewestFirst(A) \o old, k)
  PROVE  /\ rows \in Seq(Int) /\ Leads(rows, NewestFirst(A \cup B))
         /\ Len(rows) <= k
         /\ Len(rows) = k \/ Len(rows) = Cardinality(A) + Len(old)
         /\ Cardinality(A \cup B) = Cardinality(A) + Cardinality(B)
         /\ Cardinality(A) \in Nat /\ Cardinality(B) \in Nat /\ Len(old) \in Nat
<1> DEFINE s == NewestFirst(A)
           t == NewestFirst(B)
           u == NewestFirst(A \cup B)
           both == s \o old
<1>0. rows = FirstOf(both, k)
  OBVIOUS
<1>A. /\ A \in SUBSET Int /\ IsFiniteSet(A) /\ B \in SUBSET Int /\ IsFiniteSet(B)
      /\ \A a \in A, b \in B : a > b
  BY DEF Precede
<1>1. /\ ListsDown(s, A) /\ s \in Seq(Int) /\ Len(s) = Cardinality(A) /\ Cardinality(A) \in Nat
      /\ ListsDown(t, B) /\ t \in Seq(Int) /\ Len(t) = Cardinality(B) /\ Cardinality(B) \in Nat
  BY <1>A, NewestFirstLists
<1>2. IsFiniteSet(A \cup B) /\ A \cup B \in SUBSET Int
  BY <1>A, FS_Union
<1>3. /\ ListsDown(u, A \cup B) /\ u \in Seq(Int) /\ Len(u) = Cardinality(A \cup B)
  BY <1>2, NewestFirstLists
<1> HIDE DEF s, t, u
<1>4. ListsDown(s \o t, A \cup B)
  BY <1>A, <1>1, ListsJoin
<1>5. u = s \o t
  BY <1>2, <1>3, <1>4, ListIsOnly
<1>6. Len(u) = Len(s) + Len(t)
  <2>1. Len(s \o t) = Len(s) + Len(t)
    BY <1>1, JoinedLength, Zenon
  <2> QED
    BY <1>5, <2>1
<1>7. Len(old) \in Nat /\ Len(old) <= Len(t) /\ \A i \in 1..Len(old) : old[i] = t[i]
  <2>1. Len(old) \in Nat
    OBVIOUS
  <2>2. old = FirstOf(t, Len(old))
    BY DEF t, Leads
  <2>3. /\ Len(FirstOf(t, Len(old))) = IF Len(t) < Len(old) THEN Len(t) ELSE Len(old)
        /\ \A i \in 1..Len(FirstOf(t, Len(old))) : FirstOf(t, Len(old))[i] = t[i]
    BY <1>1, <2>1, FirstOfTakes
  <2>4. /\ Len(old) = IF Len(t) < Len(old) THEN Len(t) ELSE Len(old)
        /\ \A i \in 1..Len(old) : old[i] = t[i]
    BY <2>2, <2>3
  <2>5. Len(t) \in Nat
    BY <1>1
  <2> QED
    BY <2>1, <2>4, <2>5
<1>8. both \in Seq(Int) /\ Len(both) = Len(s) + Len(old)
  BY <1>1, JoinedLength, Zenon
<1>9. \A i \in 1..Len(both) : both[i] = u[i]
  <2> SUFFICES ASSUME NEW i \in 1..(Len(s) + Len(old)) PROVE (s \o old)[i] = (s \o t)[i]
    BY <1>5, <1>8
  <2>0. Len(s) \in Nat /\ Len(t) \in Nat
    BY <1>1
  <2>1. CASE i <= Len(s)
    BY <1>1, <1>7, <2>0, <2>1
  <2>2. CASE i > Len(s)
    <3>1. i - Len(s) \in 1..Len(old) /\ i - Len(s) \in 1..Len(t)
      BY <1>7, <2>0, <2>2
    <3>2. (s \o old)[i] = IF i <= Len(s) THEN s[i] ELSE old[i - Len(s)]
      BY <1>1, JoinedElements, Zenon
    <3>3. (s \o t)[i] = IF i <= Len(s) THEN s[i] ELSE t[i - Len(s)]
      <4>1. i \in 1..(Len(s) + Len(t))
        BY <1>7, <2>0
      <4> QED
        BY <1>1, <4>1, JoinedElements, Zenon
    <3>4. ~(i <= Len(s)) /\ old[i - Len(s)] = t[i - Len(s)]
      BY <1>7, <2>0, <2>2, <3>1
    <3> QED
      BY <3>2, <3>3, <3>4, Zenon
  <2> QED
    BY <2>0, <1>7, <2>1, <2>2
<1> HIDE DEF both
<1>a. /\ rows \in Seq(Int) /\ Len(rows) = IF Len(both) < k THEN Len(both) ELSE k
      /\ \A i \in 1..Len(rows) : rows[i] = both[i]
  BY <1>0, <1>8, FirstOfTakes
<1>b. Len(both) \in Nat /\ Len(rows) \in Nat /\ Len(s) \in Nat /\ Len(t) \in Nat
  BY <1>1, <1>8, <1>a
<1>c. Len(rows) <= Len(both) /\ Len(both) <= Len(u)
  BY <1>6, <1>7, <1>8, <1>a, <1>b
<1>d. \A i \in 1..Len(rows) : rows[i] = u[i]
  BY <1>9, <1>a, <1>b, <1>c
<1>e. Leads(rows, u)
  <2>1. Len(u) \in Nat /\ Len(rows) <= Len(u)
    BY <1>3, <1>6, <1>b, <1>c, <1>8
  <2> QED
    BY <1>3, <1>a, <1>d, <2>1, FirstOfIs
<1>f. Len(rows) <= k /\ (Len(rows) = k \/ Len(rows) = Cardinality(A) + Len(old))
  BY <1>1, <1>8, <1>a, <1>b
<1>g. Cardinality(A \cup B) = Cardinality(A) + Cardinality(B)
  BY <1>1, <1>3, <1>6
<1> QED
  BY <1>1, <1>7, <1>a, <1>e, <1>f, <1>g DEF u, s

(* A sequence that is short enough is left as it is.                       *)
LEMMA FirstOfAll ==
  ASSUME NEW seq \in Seq(Int), NEW k \in Nat, Len(seq) <= k
  PROVE  FirstOf(seq, k) = seq
<1>1. /\ FirstOf(seq, k) \in Seq(Int) /\ Len(FirstOf(seq, k)) = Len(seq)
      /\ \A i \in 1..Len(seq) : FirstOf(seq, k)[i] = seq[i]
  <2>1. Len(seq) \in Nat
    OBVIOUS
  <2> QED
    BY <2>1, FirstOfTakes
<1>2. seq = FirstOf(FirstOf(seq, k), Len(seq))
  BY <1>1, FirstOfIs DEF Leads
<1>3. FirstOf(FirstOf(seq, k), Len(seq)) = SubSeq(FirstOf(seq, k), 1, Len(FirstOf(seq, k)))
  BY <1>1 DEF FirstOf
<1>4. SubSeq(FirstOf(seq, k), 1, Len(FirstOf(seq, k))) = FirstOf(seq, k)
  <2>1. \A x \in Seq(Int) : SubSeq(x, 1, Len(x)) = x
    OBVIOUS
  <2> QED
    BY <1>1, <2>1, Zenon
<1> QED
  BY <1>2, <1>3, <1>4

-----------------------------------------------------------------------------
(* Tailing the log: the steps                                              *)

(* What matches stays when no request comes in.                            *)
LEMMA MatchingRests ==
  ASSUME UNCHANGED <<logged, failed>>, NEW filter, NEW since, NEW highest
  PROVE  Upto(filter, since, highest)' = Upto(filter, since, highest)
  BY DEF Upto, Matching

(* A request that comes in is newer than all that were asked for.          *)
LEMMA MatchingGrows ==
  ASSUME TailTypes, RecordRequest, NEW filter, NEW since, NEW highest \in 0..logged
  PROVE  Upto(filter, since, highest)' = Upto(filter, since, highest)
<1>1. logged \in Nat /\ logged' = logged + 1 /\ failed' \in {failed, failed \cup {logged + 1}}
  BY TailNumbers DEF TailTypes, RecordRequest
<1>2. \A n \in Int : n \in 1..logged' /\ n <= highest <=> n \in 1..logged /\ n <= highest
  BY <1>1
<1>3. \A n \in Int : n <= highest => (n \in failed' <=> n \in failed)
  BY <1>1
<1> QED
  BY <1>1, <1>2, <1>3 DEF Upto, Matching

(* What an answer brings.                                                  *)
LEMMA AnswersBring ==
  ASSUME logged \in Nat, NEW kind \in {"reload", "tick"}, NEW filter \in Filters, NEW since
  PROVE  LET a == Answering(kind, filter, since)
             all == Upto(filter, since, Newest(a.rows))
         IN  /\ IsAnswer(a) /\ a.kind = kind /\ a.filter = filter
             /\ a.rows = FirstOf(NewestFirst(all), Limit)
             /\ ~(Cardinality(Matching(filter, since)) > Limit) => a.rows = NewestFirst(all)
<1> DEFINE a == Answering(kind, filter, since)
           S == Matching(filter, since)
           rows == FirstOf(NewestFirst(S), Limit)
<1>1. logged \in Nat /\ Limit \in Nat \ {0} /\ Limit \in Nat
  BY TailNumbers
<1>2. a.kind = kind /\ a.filter = filter /\ a.rows = rows
  BY DEF Answering, Page
<1>3. S \in SUBSET (1..logged) /\ IsFiniteSet(S) /\ S \in SUBSET Int
  BY <1>1, MatchingTyped
<1>4. S \in SUBSET (Int \ {0})
  BY <1>1, <1>3
<1> HIDE DEF S
<1>5. /\ rows \in Seq(Int)
      /\ S = {} => Newest(rows) = 0
      /\ S # {} => Newest(rows) \in S /\ \A n \in S : n <= Newest(rows)
  BY <1>1, <1>3, <1>4, NewestIsGreatest
<1> HIDE DEF rows
<1>6. Newest(rows) \in 0..logged
  <2>1. CASE S = {}
    BY <1>1, <1>5, <2>1
  <2>2. CASE S # {}
    <3>1. Newest(rows) \in 1..logged
      BY <1>3, <1>5, <2>2
    <3> QED
      BY <1>1, <3>1
  <2> QED
    BY <2>1, <2>2
<1>7. Upto(filter, since, Newest(rows)) = S
  BY <1>5 DEF Upto, S
<1>8. ASSUME ~(Cardinality(S) > Limit)
      PROVE  rows = NewestFirst(S)
  <2>1. /\ NewestFirst(S) \in Seq(Int) /\ Len(NewestFirst(S)) = Cardinality(S)
        /\ Cardinality(S) \in Nat
    BY <1>3, NewestFirstLists
  <2>2. Len(NewestFirst(S)) <= Limit
    BY <1>1, <1>8, <2>1
  <2> QED
    BY <1>1, <2>1, <2>2, FirstOfAll DEF rows
<1>9. IsAnswer(a)
  BY <1>2, <1>5, <1>6 DEF IsAnswer
<1> HIDE DEF a
<1>a. Upto(filter, since, Newest(a.rows)) = S /\ rows = FirstOf(NewestFirst(S), Limit)
  BY <1>2, <1>7 DEF rows
<1> QED
  BY <1>2, <1>8, <1>9, <1>a DEF a, S

(* Nothing matches and nothing is shown.                                   *)
LEMMA NothingToShow == Exact(<<>>, {})
<1>1. /\ NewestFirst({}) \in Seq(Int) /\ Len(NewestFirst({})) = 0 /\ Cardinality({}) = 0
  BY NewestFirstLists, FS_EmptySet
<1>2. <<>> \in Seq(Int) /\ Len(<<>>) = 0
  OBVIOUS
<1>3. Leads(<<>>, NewestFirst({}))
  BY <1>1, <1>2, FirstOfIs
<1> QED
  BY <1>1, <1>2, <1>3 DEF Exact

(* The page starts with one answer under way.                              *)
LEMMA TailStart == TailInit => TailInv
<1> SUFFICES ASSUME TailInit PROVE TailInv
  OBVIOUS
<1> DEFINE a == Answering("reload", "all", 0)
<1>1. /\ logged \in 0..MaxStored /\ failed \subseteq 1..logged /\ behind = FALSE /\ asked = {a}
      /\ tail = [page |-> NoRowsYet, highest |-> 0, live |-> TRUE, filter |-> "all"]
  BY DEF TailInit
<1>2. MaxStored \in Nat /\ MaxAsked \in Nat \ {0} /\ MaxShown \in Nat
  BY TailNumbers
<1>3. logged \in Nat /\ "all" \in Filters
  BY <1>1, <1>2 DEF Filters
<1>4. IsFiniteSet(asked) /\ Cardinality(asked) = 1
  BY <1>1, FS_Singleton
<1>5. /\ NoRowsYet = [loaded |-> NoRowsYet.loaded, rows |-> NoRowsYet.rows]
      /\ NoRowsYet.loaded = FALSE /\ NoRowsYet.rows = <<>>
  BY DEF NoRowsYet
<1>6. tail.page = NoRowsYet /\ tail.highest = 0 /\ tail.filter = "all" /\ tail.live = TRUE
  BY <1>1
<1>7. /\ IsAnswer(a) /\ a.kind = "reload" /\ a.filter = "all"
      /\ a.rows = FirstOf(NewestFirst(Upto(a.filter, 0, Newest(a.rows))), Limit)
  BY <1>3, AnswersBring
<1> HIDE DEF a
<1>8. TailTypes
  <2>1. tail.page.rows \in Seq(Int) /\ Len(tail.page.rows) <= MaxShown
    <3>1. tail.page.rows = <<>>
      BY <1>5, <1>6, Zenon
    <3>2. <<>> \in Seq(Int) /\ Len(<<>>) = 0
      OBVIOUS
    <3>3. tail.page.rows \in Seq(Int) /\ Len(tail.page.rows) = 0
      BY <3>1, <3>2, Zenon
    <3> QED
      BY <1>2, <3>3
  <2>2. tail.highest \in 0..logged
    BY <1>3, <1>6
  <2>3. Cardinality(asked) <= MaxAsked
    BY <1>2, <1>4
  <2>4. \A b \in asked : IsAnswer(b)
    BY <1>1, <1>7
  <2>5. /\ tail.page = [loaded |-> tail.page.loaded, rows |-> tail.page.rows]
        /\ tail.page.loaded \in BOOLEAN
    BY <1>5, <1>6
  <2>6. tail = [page |-> tail.page, highest |-> tail.highest,
                live |-> tail.live, filter |-> tail.filter]
    BY <1>1, <1>6
  <2> QED
    BY <1>1, <1>3, <1>4, <1>6, <2>1, <2>2, <2>3, <2>4, <2>5, <2>6 DEF TailTypes
<1>9. InStep
  BY <1>1, <1>5, <1>6, <1>7 DEF InStep, Brings
<1> QED
  BY <1>8, <1>9 DEF TailInv

(* What is under way is finitely many answers when one is added.            *)
LEMMA OneMoreAnswer ==
  ASSUME IsFiniteSet(asked), Cardinality(asked) < MaxAsked, NEW a
  PROVE  IsFiniteSet(asked \cup {a}) /\ Cardinality(asked \cup {a}) <= MaxAsked
<1>1. Cardinality(asked) \in Nat /\ MaxAsked \in Nat
  BY TailNumbers, FS_CardinalityType
<1>2. /\ IsFiniteSet(asked \cup {a})
      /\ \/ Cardinality(asked \cup {a}) = Cardinality(asked)
         \/ Cardinality(asked \cup {a}) = Cardinality(asked) + 1
  BY FS_AddElement
<1> QED
  BY <1>1, <1>2

(* And when some are dropped.                                              *)
LEMMA FewerAnswers ==
  ASSUME TailTypes, NEW some \in SUBSET asked
  PROVE  IsFiniteSet(some) /\ Cardinality(some) <= MaxAsked
<1>1. /\ IsFiniteSet(some) /\ Cardinality(some) <= Cardinality(asked)
      /\ Cardinality(some) \in Nat /\ Cardinality(asked) \in Nat
  BY FS_Subset, FS_CardinalityType DEF TailTypes
<1> QED
  BY <1>1, TailNumbers DEF TailTypes

(* A request that comes in changes no page and no answer.                  *)
LEMMA RecordRequestKeeps == TailInv /\ RecordRequest => TailInv'
<1> SUFFICES ASSUME TailInv, RecordRequest PROVE TailInv'
  OBVIOUS
<1>0. /\ TailTypes /\ logged \in 0..MaxStored /\ MaxStored \in Nat /\ failed \subseteq 1..logged
      /\ logged < MaxStored /\ logged' = logged + 1 /\ failed' \in {failed, failed \cup {logged + 1}}
      /\ UNCHANGED <<tail, asked, behind>>
  BY TailNumbers DEF TailInv, TailTypes, RecordRequest
<1>1. /\ TailTypes /\ logged \in Nat /\ logged' = logged + 1 /\ logged' \in 0..MaxStored
      /\ failed' \subseteq 1..logged' /\ UNCHANGED <<tail, asked, behind>>
  BY <1>0
<1>2. \A n \in 0..logged : n \in 0..logged'
  BY <1>1
<1>3. \A a : IsAnswer(a) => IsAnswer(a)'
  BY <1>2 DEF IsAnswer
<1>4. TailTypes'
  BY <1>1, <1>2, <1>3 DEF TailTypes
<1>5. ASSUME InStep
      PROVE  InStep'
  <2>1. ASSUME NEW a \in asked
        PROVE  Brings(a)'
    <3>1. Brings(a) /\ Newest(a.rows) \in 0..logged
      BY <1>1, <1>5, <2>1 DEF InStep, TailTypes, IsAnswer
    <3>2. \A since : Upto(a.filter, since, Newest(a.rows))' = Upto(a.filter, since, Newest(a.rows))
      BY <1>1, <3>1, MatchingGrows
    <3> QED
      BY <1>1, <3>1, <3>2 DEF Brings
  <2>2. Upto(tail.filter, 0, tail.highest)' = Upto(tail.filter, 0, tail.highest)
    <3>1. PICK filter, highest : filter = tail.filter /\ highest = tail.highest
      OBVIOUS
    <3>2. highest \in 0..logged
      BY <1>1, <3>1 DEF TailTypes
    <3>3. Upto(filter, 0, highest)' = Upto(filter, 0, highest)
      BY <1>1, <3>2, MatchingGrows
    <3>4. filter = tail'.filter /\ highest = tail'.highest
      BY <1>1, <3>1
    <3> QED
      BY <3>1, <3>3, <3>4 DEF Upto, Matching
  <2>3. Exact(tail.page.rows, Upto(tail.filter, 0, tail.highest))
          => Exact(tail.page.rows, Upto(tail.filter, 0, tail.highest))'
    BY <1>1, <2>2 DEF Exact
  <2> QED
    BY <1>1, <1>5, <2>1, <2>3 DEF InStep
<1> QED
  BY <1>1, <1>4, <1>5 DEF TailInv

(* When the rows there are and the page rest, so do the types of it.       *)
LEMMA TailRests ==
  ASSUME TailTypes, UNCHANGED <<logged, failed, tail>>, behind' \in BOOLEAN,
         IsFiniteSet(asked'), Cardinality(asked') <= MaxAsked,
         \A a \in asked' : IsAnswer(a)
  PROVE  TailTypes'
<1>1. \A a : IsAnswer(a) => IsAnswer(a)'
  BY DEF IsAnswer
<1> QED
  BY <1>1 DEF TailTypes

(* A reload asks for the newest rows, a tick for those since the newest.    *)
LEMMA GetKeeps ==
  ASSUME TailInv, NEW kind \in {"reload", "tick"}, NEW since, Get(kind, tail.filter, since),
         kind = "reload" => since = 0, kind = "tick" => since = tail.highest,
         UNCHANGED <<logged, failed, tail>>
  PROVE  TailInv'
<1> PICK a : a = Answering(kind, tail.filter, since)
  OBVIOUS
<1> DEFINE all == Upto(a.filter, since, Newest(a.rows))
<1>1. TailTypes /\ logged \in Nat /\ tail.filter \in Filters /\ behind \in BOOLEAN
  BY TailNumbers DEF TailInv, TailTypes
<1>2. /\ IsAnswer(a) /\ a.kind = kind /\ a.filter = tail.filter
      /\ a.rows = FirstOf(NewestFirst(all), Limit)
      /\ ~(Cardinality(Matching(tail.filter, since)) > Limit) => a.rows = NewestFirst(all)
  BY <1>1, AnswersBring
<1>3. /\ asked' = asked \cup {a} /\ Cardinality(asked) < MaxAsked
      /\ behind' \in BOOLEAN
      /\ ~behind' => /\ ~behind /\ asked = {}
                     /\ kind = "tick" => ~(Cardinality(Matching(tail.filter, since)) > Limit)
  BY <1>1 DEF Get
<1>4. TailTypes'
  <2>1. IsFiniteSet(asked') /\ Cardinality(asked') <= MaxAsked
    BY <1>1, <1>3, OneMoreAnswer DEF TailTypes
  <2>2. \A b \in asked' : IsAnswer(b)
    BY <1>1, <1>2, <1>3 DEF TailTypes
  <2> QED
    BY <1>1, <1>3, <2>1, <2>2, TailRests
<1>5. ASSUME ~behind'
      PROVE  InStep'
  <2>1. InStep /\ asked = {} /\ asked' = {a}
    BY <1>3, <1>5 DEF TailInv
  <2>2. Brings(a)
    BY <1>2, <1>3, <1>5 DEF Brings
  <2>3. Brings(a)'
    BY <2>2 DEF Brings, Upto, Matching
  <2>4. Exact(tail.page.rows, Upto(tail.filter, 0, tail.highest))'
    BY <2>1 DEF InStep, Exact, Leads, Upto, Matching
  <2>5. ~tail.page.loaded => tail.page.rows = <<>>
    BY <2>1 DEF InStep
  <2> QED
    BY <2>1, <2>3, <2>4, <2>5 DEF InStep
<1> QED
  BY <1>4, <1>5 DEF TailInv

(* A filter starts over with one answer, if no reload is under way.        *)
LEMMA SetFilterKeeps ==
  ASSUME TailInv, NEW filter \in Filters, SetFilter(filter)
  PROVE  TailInv'
<1> PICK a : a = Answering("reload", filter, 0)
  OBVIOUS
<1> DEFINE kept == {b \in asked : b.kind = "reload"}
<1>1. TailTypes /\ logged \in Nat /\ behind \in BOOLEAN
  BY TailNumbers DEF TailInv, TailTypes
<1>2. /\ IsAnswer(a) /\ a.kind = "reload" /\ a.filter = filter
      /\ a.rows = FirstOf(NewestFirst(Upto(a.filter, 0, Newest(a.rows))), Limit)
  BY <1>1, AnswersBring
<1>3. /\ asked' = kept \cup {a} /\ Cardinality(asked') <= MaxAsked
      /\ behind' \in BOOLEAN /\ (~behind' => ~behind /\ kept = {})
      /\ UNCHANGED <<logged, failed>>
  BY <1>1 DEF SetFilter
<1>4. /\ tail' = [page |-> NoRowsYet, highest |-> tail.highest,
                  live |-> tail.live, filter |-> filter]
  <2>1. tail' = [tail EXCEPT !.filter = filter, !.page = NoRowsYet]
    BY DEF SetFilter
  <2>2. tail = [page |-> tail.page, highest |-> tail.highest,
                live |-> tail.live, filter |-> tail.filter]
    BY <1>1 DEF TailTypes
  <2> QED
    BY <2>1, <2>2
<1>5. /\ NoRowsYet = [loaded |-> NoRowsYet.loaded, rows |-> NoRowsYet.rows]
      /\ NoRowsYet.loaded = FALSE /\ NoRowsYet.rows = <<>>
  BY DEF NoRowsYet
<1>6. NoRowsYet.rows \in Seq(Int) /\ Len(NoRowsYet.rows) <= MaxShown
  <2>1. <<>> \in Seq(Int) /\ Len(<<>>) = 0
    OBVIOUS
  <2>2. NoRowsYet.rows \in Seq(Int) /\ Len(NoRowsYet.rows) = 0
    BY <1>5, <2>1, Zenon
  <2> QED
    BY <2>2, TailNumbers
<1>7. TailTypes'
  <2>1. IsFiniteSet(kept)
    BY <1>1, FewerAnswers
  <2>2. IsFiniteSet(asked')
    BY <1>3, <2>1, FS_AddElement
  <2>3. \A b \in asked' : IsAnswer(b)'
    BY <1>1, <1>2, <1>3 DEF TailTypes, IsAnswer
  <2>4. /\ tail'.page = NoRowsYet /\ tail'.highest = tail.highest
        /\ tail'.live = tail.live /\ tail'.filter = filter
    BY <1>4
  <2>5. tail' = [page |-> tail'.page, highest |-> tail'.highest,
                 live |-> tail'.live, filter |-> tail'.filter]
    BY <1>4, <2>4
  <2>6. /\ tail'.page = [loaded |-> tail'.page.loaded, rows |-> tail'.page.rows]
        /\ tail'.page.loaded \in BOOLEAN /\ tail'.page.rows \in Seq(Int)
        /\ Len(tail'.page.rows) <= MaxShown
    BY <1>5, <1>6, <2>4, Zenon
  <2>7. logged' \in 0..MaxStored /\ failed' \subseteq 1..logged' /\ tail'.highest \in 0..logged'
    BY <1>1, <1>3, <2>4 DEF TailTypes
  <2> QED
    BY <1>3, <2>2, <2>3, <2>4, <2>5, <2>6, <2>7 DEF TailTypes
<1>8. ASSUME ~behind'
      PROVE  InStep'
  <2>1. asked' = {a}
    BY <1>3, <1>8
  <2>3. Brings(a)'
    BY <1>2, <1>3, <1>4 DEF Brings, Upto, Matching
  <2> QED
    BY <1>2, <1>4, <1>5, <2>1, <2>3 DEF InStep
<1> QED
  BY <1>7, <1>8 DEF TailInv

(* A pause drops the ticks under way.                                      *)
LEMMA ToggleLiveKeeps == TailInv /\ ToggleLive => TailInv'
<1> SUFFICES ASSUME TailInv, ToggleLive PROVE TailInv'
  OBVIOUS
<1>1. /\ TailTypes /\ asked' = {a \in asked : a.kind = "reload"} /\ asked' \subseteq asked
      /\ UNCHANGED <<logged, failed, behind>>
  BY DEF TailInv, ToggleLive
<1>2. /\ tail' = [page |-> tail.page, highest |-> tail.highest,
                  live |-> ~tail.live, filter |-> tail.filter]
  BY DEF TailInv, TailTypes, ToggleLive
<1>3. /\ tail'.page = tail.page /\ tail'.highest = tail.highest /\ tail'.filter = tail.filter
      /\ tail' = [page |-> tail'.page, highest |-> tail'.highest,
                  live |-> tail'.live, filter |-> tail'.filter]
  BY <1>2
<1>4. IsFiniteSet(asked') /\ Cardinality(asked') <= MaxAsked
  BY <1>1, FewerAnswers
<1>5. TailTypes'
  BY <1>1, <1>3, <1>4 DEF TailTypes, IsAnswer
<1>6. ASSUME InStep
      PROVE  InStep'
  <2>1. \A a \in asked' : Brings(a) /\ Brings(a)'
    BY <1>1, <1>3, <1>6 DEF InStep, Brings, Upto, Matching
  <2>2. Exact(tail.page.rows, Upto(tail.filter, 0, tail.highest))
          => Exact(tail.page.rows, Upto(tail.filter, 0, tail.highest))'
    BY <1>1, <1>3 DEF Exact, Leads, Upto, Matching
  <2> QED
    BY <1>1, <1>3, <1>6, <2>1, <2>2 DEF InStep
<1> QED
  BY <1>1, <1>5, <1>6 DEF TailInv

(* A request for rows that fails leaves the page as it is.                 *)
LEMMA GetFailsKeeps ==
  ASSUME TailInv, NEW a \in asked, GetFails(a)
  PROVE  TailInv'
<1>1. /\ TailTypes /\ asked' = asked \ {a} /\ asked' \in SUBSET asked
      /\ UNCHANGED <<logged, failed, tail>>
      /\ ~behind' => ~behind /\ ~(a.kind = "reload" /\ ~tail.page.loaded /\ tail.highest > 0)
  BY DEF TailInv, GetFails
<1>0. tail.highest \in Nat /\ behind' \in BOOLEAN
  <2>1. tail.highest \in 0..logged /\ logged \in Nat /\ behind \in BOOLEAN
    BY <1>1, TailNumbers DEF TailTypes
  <2>2. tail.highest \in Nat
    BY <2>1
  <2>3. behind' \in BOOLEAN
    BY <2>1, Zenon DEF GetFails
  <2> QED
    BY <2>2, <2>3
<1>2. TailTypes'
  BY <1>0, <1>1, FewerAnswers, TailRests DEF TailTypes
<1>3. ASSUME ~behind'
      PROVE  InStep'
  <2>1. InStep /\ asked' = {}
    BY <1>1, <1>3 DEF TailInv, InStep
  <2>2. Exact(tail.page.rows, Upto(tail.filter, 0, tail.highest))
    <3>1. CASE a.kind = "reload" /\ ~tail.page.loaded
      <4>1. tail.highest = 0 /\ tail.page.rows = <<>>
        BY <1>0, <1>1, <1>3, <2>1, <3>1 DEF InStep
      <4>2. Upto(tail.filter, 0, tail.highest) = {}
        BY <1>1, <4>1, TailNumbers DEF Upto, Matching, TailTypes
      <4> QED
        BY <4>1, <4>2, NothingToShow
    <3>2. CASE ~(a.kind = "reload" /\ ~tail.page.loaded)
      BY <2>1, <3>2 DEF InStep
    <3> QED
      BY <3>1, <3>2
  <2>3. Exact(tail.page.rows, Upto(tail.filter, 0, tail.highest))'
    BY <1>1, <2>2 DEF Exact, Leads, Upto, Matching
  <2> QED
    BY <1>1, <2>1, <2>3 DEF InStep
<1> QED
  BY <1>2, <1>3 DEF TailInv

(* A reload shows the newest rows of those it brings.                      *)
LEMMA ShowReloadKeeps ==
  ASSUME TailInv, NEW a \in asked, ShowReload(a)
  PROVE  TailInv'
<1>1. /\ TailTypes /\ IsAnswer(a) /\ a.kind = "reload"
      /\ asked' = asked \ {a} /\ asked' \in SUBSET asked
      /\ UNCHANGED <<logged, failed, behind>>
  BY DEF TailInv, TailTypes, ShowReload
<1>0. PICK shown : shown = FirstOf(a.rows, MaxShown)
  OBVIOUS
<1>2. /\ tail' = [page |-> [loaded |-> TRUE, rows |-> shown], highest |-> Newest(a.rows),
                  live |-> tail.live, filter |-> tail.filter]
  <2>1. tail' = [tail EXCEPT !.page = [loaded |-> TRUE, rows |-> shown],
                            !.highest = Newest(a.rows)]
    BY <1>0 DEF ShowReload
  <2> QED
    BY <1>1, <2>1 DEF TailTypes
<1>3. /\ tail'.page = [loaded |-> TRUE, rows |-> shown] /\ tail'.highest = Newest(a.rows)
      /\ tail'.live = tail.live /\ tail'.filter = tail.filter
      /\ tail'.page.loaded = TRUE /\ tail'.page.rows = shown
  BY <1>2
<1>4. shown \in Seq(Int) /\ Len(shown) <= MaxShown
  <2>1. a.rows \in Seq(Int) /\ MaxShown \in Nat
    BY <1>1, TailNumbers DEF IsAnswer
  <2>2. /\ FirstOf(a.rows, MaxShown) \in Seq(Int)
        /\ Len(FirstOf(a.rows, MaxShown)) = IF Len(a.rows) < MaxShown THEN Len(a.rows) ELSE MaxShown
    BY <2>1, FirstOfTakes
  <2>3. Len(a.rows) \in Nat
    BY <2>1
  <2> QED
    BY <1>0, <2>1, <2>2, <2>3
<1>5. IsFiniteSet(asked') /\ Cardinality(asked') <= MaxAsked
  BY <1>1, FewerAnswers
<1>6. TailTypes'
  <2>1. tail' = [page |-> tail'.page, highest |-> tail'.highest,
                 live |-> tail'.live, filter |-> tail'.filter]
    BY <1>2, <1>3
  <2>2. tail'.page = [loaded |-> tail'.page.loaded, rows |-> tail'.page.rows]
    BY <1>3
  <2>3. tail'.highest \in 0..logged' /\ \A b \in asked' : IsAnswer(b)'
    BY <1>1, <1>3 DEF TailTypes, IsAnswer
  <2> QED
    BY <1>1, <1>3, <1>4, <1>5, <2>1, <2>2, <2>3 DEF TailTypes
<1>7. ASSUME InStep
      PROVE  InStep'
  <2>0. PICK S : S = Upto(tail.filter, 0, Newest(a.rows))
    OBVIOUS
  <2>1. asked' = {} /\ a.rows = FirstOf(NewestFirst(S), Limit)
    BY <1>1, <1>7, <2>0 DEF InStep, Brings
  <2>2. S \in SUBSET Int /\ IsFiniteSet(S)
    BY <1>1, <2>0, MatchingTyped, TailNumbers DEF TailTypes
  <2>3. NewestFirst(S) \in Seq(Int) /\ Len(NewestFirst(S)) = Cardinality(S)
    BY <2>2, NewestFirstLists
  <2>4. /\ Leads(shown, NewestFirst(S))
        /\ Len(shown) \in {Cardinality(S), Limit, MaxShown}
    <3>1. PICK seq \in Seq(Int) : seq = NewestFirst(S)
      BY <2>3
    <3>2. PICK j \in Nat, k \in Nat : j = Limit /\ k = MaxShown
      BY TailNumbers
    <3>3. shown = FirstOf(FirstOf(seq, j), k)
      BY <1>0, <2>1, <3>1, <3>2, Zenon
    <3>4. Leads(shown, seq) /\ Len(shown) \in {Len(seq), j, k}
      BY <3>1, <3>2, <3>3, FirstOfFirst
    <3> QED
      BY <2>3, <3>1, <3>2, <3>4
  <2>5. Exact(shown, S)
    BY <2>4, TailNumbers DEF Exact
  <2>6. Exact(tail.page.rows, Upto(tail.filter, 0, tail.highest))'
    BY <1>1, <1>3, <2>0, <2>5 DEF Exact, Leads, Upto, Matching
  <2> QED
    BY <1>3, <2>1, <2>6 DEF InStep
<1> QED
  BY <1>1, <1>6, <1>7 DEF TailInv

(* A tick adds the rows since the newest one before those the page shows.  *)
LEMMA ShowTickKeeps ==
  ASSUME TailInv, NEW a \in asked, ShowTick(a)
  PROVE  TailInv'
<1>1. /\ TailTypes /\ IsAnswer(a) /\ a.kind = "tick"
      /\ asked' = asked \ {a} /\ asked' \in SUBSET asked
      /\ UNCHANGED <<logged, failed, behind>>
  BY DEF TailInv, TailTypes, ShowTick
<1>2. IsFiniteSet(asked') /\ Cardinality(asked') <= MaxAsked
  BY <1>1, FewerAnswers
<1>3. ASSUME InStep
      PROVE  /\ asked' = {}
             /\ Exact(tail.page.rows, Upto(tail.filter, 0, tail.highest))
             /\ a.rows = NewestFirst(Upto(tail.filter, tail.highest, Newest(a.rows)))
             /\ ~tail.page.loaded => tail.page.rows = <<>>
  BY <1>1, <1>3 DEF InStep, Brings
<1>4. CASE a.rows = <<>>
  <2>1. tail' = tail
    BY <1>4 DEF ShowTick
  <2>2. TailTypes'
    BY <1>1, <1>2, <2>1, TailRests DEF TailTypes
  <2>3. ASSUME InStep
        PROVE  InStep'
    <3>1. Exact(tail.page.rows, Upto(tail.filter, 0, tail.highest))'
      BY <1>1, <1>3, <2>1, <2>3 DEF Exact, Leads, Upto, Matching
    <3> QED
      BY <1>3, <2>1, <2>3, <3>1 DEF InStep
  <2> QED
    BY <1>1, <2>2, <2>3 DEF TailInv
<1>5. CASE a.rows # <<>>
  <2>0. PICK shown : shown = FirstOf(a.rows \o tail.page.rows, MaxShown)
    OBVIOUS
  <2>1. /\ tail' = [page |-> [loaded |-> TRUE, rows |-> shown], highest |-> HighestOf(a),
                    live |-> tail.live, filter |-> tail.filter]
    <3>1. tail' = [tail EXCEPT !.page = [loaded |-> TRUE, rows |-> shown],
                              !.highest = HighestOf(a)]
      BY <1>1, <1>5, <2>0 DEF ShowTick, TailTypes
    <3> QED
      BY <1>1, <3>1 DEF TailTypes
  <2>2. /\ tail'.page = [loaded |-> TRUE, rows |-> shown] /\ tail'.highest = HighestOf(a)
        /\ tail'.live = tail.live /\ tail'.filter = tail.filter
        /\ tail'.page.loaded = TRUE /\ tail'.page.rows = shown
    BY <2>1
  <2>3. /\ tail.highest \in 0..logged /\ Newest(a.rows) \in 0..logged
        /\ HighestOf(a) \in 0..logged /\ logged \in Nat
    BY <1>1, TailNumbers DEF TailTypes, IsAnswer, HighestOf
  <2>4. shown \in Seq(Int) /\ Len(shown) <= MaxShown
    <3>0. PICK both : both = a.rows \o tail.page.rows
      OBVIOUS
    <3>1. both \in Seq(Int)
      BY <1>1, <3>0, JoinedLength, Zenon DEF TailTypes, IsAnswer
    <3>2. /\ FirstOf(both, MaxShown) \in Seq(Int)
          /\ Len(FirstOf(both, MaxShown)) = IF Len(both) < MaxShown THEN Len(both) ELSE MaxShown
      BY <3>1, TailNumbers, FirstOfTakes
    <3>3. shown = FirstOf(both, MaxShown)
      BY <2>0, <3>0, Zenon
    <3>4. Len(both) \in Nat
      BY <3>1
    <3> QED
      BY <3>2, <3>3, <3>4, TailNumbers
  <2>5. TailTypes'
    <3>1. tail' = [page |-> tail'.page, highest |-> tail'.highest,
                   live |-> tail'.live, filter |-> tail'.filter]
      BY <2>1, <2>2
    <3>2. tail'.page = [loaded |-> tail'.page.loaded, rows |-> tail'.page.rows]
      BY <2>2
    <3>3. tail'.highest \in 0..logged' /\ \A b \in asked' : IsAnswer(b)'
      BY <1>1, <2>2, <2>3 DEF TailTypes, IsAnswer
    <3> QED
      BY <1>1, <1>2, <2>2, <2>4, <3>1, <3>2, <3>3 DEF TailTypes
  <2>6. ASSUME InStep
        PROVE  InStep'
    <3>a. PICK old, highest, newest : /\ old = tail.page.rows /\ highest = tail.highest
                                      /\ newest = Newest(a.rows)
      OBVIOUS
    <3>b. PICK A, B : /\ A = Upto(tail.filter, highest, newest)
                      /\ B = Upto(tail.filter, 0, highest)
      OBVIOUS
    <3>1. /\ A \in SUBSET Int /\ IsFiniteSet(A) /\ B \in SUBSET Int /\ IsFiniteSet(B)
          /\ highest \in Int /\ newest \in Int
      BY <2>3, <3>a, <3>b, MatchingTyped
    <3>2. a.rows = NewestFirst(A) /\ Exact(old, B) /\ old \in Seq(Int)
      BY <1>1, <1>3, <2>6, <3>a, <3>b DEF TailTypes
    <3>3. \A m \in A, n \in B : m > n
      BY <3>1, <3>b DEF Upto, Matching
    <3>4. newest \in A /\ newest > highest
      <4>1. Len(a.rows) = Cardinality(A) /\ a.rows \in Seq(Int) /\ Cardinality(A) \in Nat
        BY <3>1, <3>2, NewestFirstLists
      <4>2. 1 \in 1..Cardinality(A) /\ newest = a.rows[1]
        BY <1>5, <3>a, <4>1 DEF Newest
      <4>3. newest \in A
        BY <3>1, <3>2, <4>2, NewestFirstLists
      <4> QED
        BY <3>b, <4>3 DEF Upto, Matching
    <3>5. A \cup B = Upto(tail.filter, 0, newest) /\ HighestOf(a) = newest
      BY <2>3, <3>1, <3>4, <3>a, <3>b DEF Upto, Matching, HighestOf
    <3>6. /\ Leads(shown, NewestFirst(A \cup B))
          /\ Len(shown) = MaxShown \/ Len(shown) = Cardinality(A) + Len(old)
          /\ Cardinality(A \cup B) = Cardinality(A) + Cardinality(B)
          /\ Cardinality(A) \in Nat /\ Cardinality(B) \in Nat /\ Len(old) \in Nat
      <4>1. Leads(old, NewestFirst(B)) /\ MaxShown \in Nat
        BY <3>2, TailNumbers DEF Exact
      <4>2. shown = FirstOf(NewestFirst(A) \o old, MaxShown)
        BY <2>0, <3>2, <3>a, Zenon
      <4>3. Precede(A, B)
        BY <3>1, <3>3 DEF Precede
      <4> QED
        BY <3>2, <4>1, <4>2, <4>3, RowsJoin
    <3>7. Exact(shown, A \cup B)
      <4>1. Len(old) \in {Cardinality(B), MaxShown} \/ Len(old) >= Limit
        BY <3>2 DEF Exact
      <4>2. Len(shown) <= MaxShown
        BY <2>4
      <4> QED
        BY <3>6, <4>1, <4>2, TailNumbers DEF Exact
    <3>8. Exact(tail.page.rows, Upto(tail.filter, 0, tail.highest))'
      BY <1>1, <2>2, <3>5, <3>7, <3>a, <3>b DEF Exact, Leads, Upto, Matching
    <3> QED
      BY <1>3, <2>2, <2>6, <3>8 DEF InStep
  <2> QED
    BY <1>1, <2>5, <2>6 DEF TailInv
<1> QED
  BY <1>4, <1>5

(* Every step of the page and of its answers keeps the invariant.          *)
LEMMA TailStep == TailInv /\ [TailNext]_tailVars => TailInv'
<1> SUFFICES ASSUME TailInv, [TailNext]_tailVars PROVE TailInv'
  OBVIOUS
<1>1. CASE RecordRequest
  BY <1>1, RecordRequestKeeps
<1>2. CASE ReloadLogs
  BY <1>2, GetKeeps DEF ReloadLogs
<1>3. CASE ToggleLive
  BY <1>3, ToggleLiveKeeps
<1>4. CASE Tick
  BY <1>4, GetKeeps DEF Tick
<1>5. CASE \E filter \in Filters : SetFilter(filter)
  BY <1>5, SetFilterKeeps
<1>6. CASE \E a \in asked : ShowReload(a) \/ ShowTick(a) \/ GetFails(a)
  BY <1>6, ShowReloadKeeps, ShowTickKeeps, GetFailsKeeps
<1>7. CASE UNCHANGED tailVars
  <2>1. UNCHANGED <<logged, failed, tail, asked, behind>>
    BY <1>7 DEF tailVars
  <2>2. TailTypes'
    BY <2>1, TailRests DEF TailInv, TailTypes
  <2>3. InStep => InStep'
    BY <2>1 DEF InStep, Brings, Exact, Leads, Upto, Matching
  <2> QED
    BY <2>1, <2>2, <2>3 DEF TailInv
<1>8. TailNext \/ UNCHANGED tailVars
  OBVIOUS
<1>9. TailNext => TailInv'
  BY <1>1, <1>2, <1>3, <1>4, <1>5, <1>6 DEF TailNext
<1> QED
  BY <1>7, <1>8, <1>9

(* The invariant says what the page shows.                                 *)
LEMMA TailShows == TailInv => TailIsExact
  BY DEF TailInv, InStep, Exact, Leads, Upto, TailIsExact
=============================================================================

------------------------------- MODULE SignIn -------------------------------
(***************************************************************************)
(* Signing in: the form of apps/dashboard/src/pages/Login.tsx and the      *)
(* command avail login as clients of rust-api/src/routes/auth.rs, beside   *)
(* any number of other clients that check codes. A client has at most one  *)
(* request under way, and the server answers a request for a code to be    *)
(* checked in two sections of its mutex.                                   *)
(***************************************************************************)
EXTENDS Naturals, Sequences, FiniteSets, FiniteSetsExt

CONSTANTS Email, NoEmail,
          Accounts,      \* bound: the addresses with an account at first
          CliEmail,      \* bound: the addresses avail login is used with
          OtherClient,   \* whoever else checks codes, at the same time
          AtAnyTime,     \* bound, if FALSE: only wrong ones, while avail login asks for one
          MaxCodes,      \* bound: codes sent
          MaxAttempts    \* wrong guesses a code survives (5)

ASSUME SignInAssumption ==
  /\ NoEmail \notin Email /\ Accounts \subseteq Email /\ CliEmail \subseteq Email
  /\ {MaxCodes, MaxAttempts} \subseteq Nat \ {0}
  /\ AtAnyTime \in BOOLEAN
  /\ IsFiniteSet(OtherClient) /\ OtherClient \cap {"browser", "cli"} = {}

VARIABLES
  codes,       \* login_codes, oldest first
  accounts, password,   \* password: the code that proved it, or Initial, or Unset
  sessions,    \* who, and the code that proved it or Initial for a password
  requests,        \* the request of each client, and how far the server is
  form,        \* the state of Login.tsx
  cliLogin, user,   \* the progress of avail login; who the browser says is signed in
  overlap      \* history: how many checks of a code were under way together, at most

siVars == <<codes, accounts, password, sessions, requests, form, cliLogin, user, overlap>>

Client == {"browser", "cli"} \cup OtherClient
CodeId == 1..MaxCodes
Wrong == 0                 \* what is typed is no code
Unset == MaxCodes + 1
Initial == MaxCodes + 2
Idle == [kind |-> "none", email |-> NoEmail, arg |-> Wrong, record |-> Wrong]
NoToken == [email |-> NoEmail, by |-> Wrong]
Blank == [step |-> "email", mode |-> "login", email |-> NoEmail, resetEmail |-> NoEmail,
          token |-> NoToken]

SignInInit ==
  /\ codes = <<>>
  /\ accounts = Accounts
  /\ \E S \in SUBSET Accounts :
       password = [e \in Email |-> IF e \in S THEN Initial ELSE Unset]
  /\ sessions = {} /\ requests = [c \in Client |-> Idle]
  /\ form = Blank /\ cliLogin = [step |-> "email", email |-> NoEmail] /\ user = NoEmail
  /\ overlap = [n \in CodeId |-> 0]

Code == [email : Email, attempts : Nat, used : BOOLEAN, expired : BOOLEAN]

(* Types of the sign-in state.                                             *)
SignInTypeOK ==
  /\ codes \in Seq(Code) /\ Len(codes) <= MaxCodes
  /\ accounts \subseteq Email /\ password \in [Email -> CodeId \cup {Unset, Initial}]
  /\ sessions \subseteq [email : Email, by : CodeId \cup {Initial}]
  /\ \A c \in Client : requests[c].record \in {Wrong} \cup 1..Len(codes)
  /\ form.step \in {"email", "password", "code", "reset-email", "reset-code", "reset-password"}
  /\ form.token = NoToken \/ form.token.by \in 1..Len(codes)
  /\ form.step = "reset-password" => form.token # NoToken
  /\ user \in Email \cup {NoEmail}
  /\ overlap \in [CodeId -> 0..Cardinality(Client)]

-----------------------------------------------------------------------------
(* Requests                                                                *)

Busy(c) == requests[c].kind # "none"
Post(c, kind, e, arg) ==
  /\ ~Busy(c)
  /\ requests' =
       [requests EXCEPT ![c] = [kind |-> kind, email |-> e, arg |-> arg, record |-> Wrong]]
Answered(c) == requests' = [requests EXCEPT ![c] = Idle]

Step(step) == [form EXCEPT !.step = step]

(* What a client does with a refusal: the form shows it, avail login ends. *)
Refused(c) ==
  /\ Answered(c)
  /\ cliLogin' = IF c = "cli" THEN [cliLogin EXCEPT !.step = "done"] ELSE cliLogin
  /\ UNCHANGED <<form, user>>

(* The account exists or it does not: the form opens the other tab.        *)
WrongTab(c, intent) ==
  IF c = "cli" \/ intent = "force" THEN Refused(c)
  ELSE /\ Answered(c)
       /\ form' = [form EXCEPT !.mode = IF intent = "login" THEN "signup" ELSE "login"]
       /\ UNCHANGED <<cliLogin, user>>

SignedIn(c, e) ==
  /\ Answered(c)
  /\ cliLogin' = IF c = "cli" THEN [cliLogin EXCEPT !.step = "done"] ELSE cliLogin
  /\ IF c = "browser" THEN user' = e /\ form' = Blank ELSE UNCHANGED <<form, user>>

GoTo(c, step) ==
  /\ Answered(c)
  /\ IF c = "cli" THEN cliLogin' = [cliLogin EXCEPT !.step = step] /\ UNCHANGED form
                  ELSE form' = Step(step) /\ UNCHANGED cliLogin
  /\ UNCHANGED user

-----------------------------------------------------------------------------
(* The server: rust-api/src/routes/auth.rs                                 *)

(* throttle counts by the clock: it may refuse any request.                *)
Throttled == {TRUE, FALSE}

(* login. Its arg: signup, login or, for a reset, forceCode.               *)
Login(c) ==
  LET e == requests[c].email
      intent == requests[c].arg
      known == e \in accounts
  IN /\ requests[c].kind = "login"
     /\ IF known = (intent = "signup")
        THEN WrongTab(c, intent) /\ UNCHANGED codes
        ELSE IF intent = "login" /\ password[e] # Unset
        THEN GoTo(c, "password") /\ UNCHANGED codes
        ELSE \E refuse \in Throttled :
             IF refuse THEN Refused(c) /\ UNCHANGED codes ELSE
             /\ Len(codes) < MaxCodes
             /\ codes' = Append(codes, [email |-> e, attempts |-> 0, used |-> FALSE,
                                        expired |-> FALSE])
             /\ GoTo(c, IF intent = "force" THEN "reset-code" ELSE "code")
     /\ UNCHANGED <<accounts, password, sessions, overlap>>

Unused == {n \in 1..Len(codes) : ~codes[n].used}
UnusedOfAnyone(e) == Unused        \* a mutant: not only the codes of this email
UnusedOf(e) == {n \in Unused : codes[n].email = e}

TooManyAfter(n) == codes[n].attempts > MaxAttempts      \* a mutant: off by one
TooMany(n) == codes[n].attempts >= MaxAttempts

Checks == {"verify", "signup", "reset-verify"}   \* signup: with a new password
Checking(n) == {c \in Client : requests[c].record = n}

(* verify and reset_password_verify: the latest unused code is read.       *)
ReadCode(c) ==
  LET open == UnusedOf(requests[c].email)
      n == CHOOSE m \in open : \A k \in open : k <= m
  IN /\ requests[c].kind \in Checks /\ requests[c].record = Wrong
     /\ IF open = {} \/ codes[n].expired \/ TooMany(n)
        THEN Refused(c)
             /\ UNCHANGED overlap
        ELSE /\ requests' = [requests EXCEPT ![c].record = n]
             /\ overlap' = [overlap EXCEPT ![n] = Max({@, Cardinality(Checking(n)) + 1})]
             /\ UNCHANGED <<form, cliLogin, user>>
     /\ UNCHANGED <<codes, accounts, password, sessions>>

(* Not the code that was read: its attempts go up.                         *)
Mismatch(c) ==
  LET n == requests[c].record
  IN /\ requests[c].kind \in Checks /\ n # Wrong /\ requests[c].arg # n
     /\ codes' = [codes EXCEPT ![n].attempts = @ + 1]
     /\ Refused(c)
     /\ UNCHANGED <<accounts, password, sessions, overlap>>

(* The code that was read. It is used up, without another look, and opens  *)
(* a session; a password that came with it is kept if there was none. One  *)
(* that is too weak is refused after the code is used up.                  *)
Verify(c) ==
  LET n == requests[c].record
      e == requests[c].email
  IN /\ requests[c].kind \in {"verify", "signup"} /\ n # Wrong /\ requests[c].arg = n
     /\ codes' = [codes EXCEPT ![n].used = TRUE]
     /\ accounts' = accounts \cup {e}
     /\ \/ /\ password' = IF requests[c].kind = "signup" /\ password[e] = Unset
                           THEN [password EXCEPT ![e] = n] ELSE password
           /\ sessions' = sessions \cup {[email |-> e, by |-> n]}
           /\ SignedIn(c, e)
        \/ /\ requests[c].kind = "signup" /\ password[e] = Unset
           /\ Refused(c) /\ UNCHANGED <<password, sessions>>
     /\ UNCHANGED overlap

ProvenNoToken(e, n) == Step("reset-password")     \* a mutant: the token is not kept
Proven(e, n) == [form EXCEPT !.token = [email |-> e, by |-> n], !.step = "reset-password"]

ResetVerify(c) ==
  LET n == requests[c].record
      e == requests[c].email
  IN /\ requests[c].kind = "reset-verify" /\ n # Wrong /\ requests[c].arg = n
     /\ codes' = [codes EXCEPT ![n].used = TRUE]
     /\ IF e \in accounts
        THEN /\ form' = Proven(e, n) /\ Answered(c) /\ UNCHANGED <<cliLogin, user>>
        ELSE Refused(c)
     /\ UNCHANGED <<accounts, password, sessions, overlap>>

TokenFits(t, e) == t # NoToken /\ t.email = e

(* reset_password_confirm; the token may have expired. The form shows the  *)
(* first step again, for the email it has now.                             *)
ResetConfirm(c) ==
  LET e == requests[c].email
  IN /\ requests[c].kind = "reset-confirm"
     /\ \/ Refused(c) /\ UNCHANGED password
        \/ /\ TokenFits(form.token, e) /\ e \in accounts
           /\ password' = [password EXCEPT ![e] = form.token.by]
           /\ form' = [Blank EXCEPT !.email = e]
           /\ Answered(c) /\ UNCHANGED <<cliLogin, user>>
     /\ UNCHANGED <<codes, accounts, sessions, overlap>>

(* login_with_password. Its arg: Initial if the password typed is right.   *)
PasswordLogin(c) ==
  LET e == requests[c].email
  IN /\ requests[c].kind = "password"
     /\ \E refuse \in Throttled :
          IF ~refuse /\ e \in Email /\ password[e] # Unset /\ requests[c].arg = Initial
          THEN /\ sessions' = sessions \cup {[email |-> e, by |-> Initial]}
               /\ SignedIn(c, e)
          ELSE Refused(c) /\ UNCHANGED sessions
     /\ UNCHANGED <<codes, accounts, password, overlap>>

(* Time passes: a code expires.                                            *)
Expire ==
  /\ \E n \in Unused :
       ~codes[n].expired /\ codes' = [codes EXCEPT ![n].expired = TRUE]
  /\ UNCHANGED <<accounts, password, sessions, requests, form, cliLogin, user, overlap>>

-----------------------------------------------------------------------------
(* The form. What it shows can be left while a request is under way.       *)

authVars == <<codes, accounts, password, sessions, overlap>>
FormOnly == UNCHANGED <<authVars, requests, cliLogin, user>>
Posts == UNCHANGED <<authVars, form, cliLogin, user>>

At(step) == form.step = step /\ user = NoEmail

SwitchMode ==
  /\ At("email")
  /\ form' = [form EXCEPT !.mode = IF @ = "login" THEN "signup" ELSE "login"]
  /\ FormOnly
TypeEmail(e) ==
  At("email") /\ form.email # e /\ form' = [form EXCEPT !.email = e] /\ FormOnly
RequestCode ==
  /\ At("email") /\ form.email # NoEmail
  /\ Post("browser", "login", form.email, form.mode) /\ Posts

SubmitPassword(arg) ==
  At("password") /\ Post("browser", "password", form.email, arg) /\ Posts
StartForgotPassword ==
  /\ At("password") /\ ~Busy("browser")
  /\ form' = [form EXCEPT !.step = "reset-email", !.resetEmail = NoEmail, !.token = NoToken]
  /\ FormOnly

SubmitCode(n) ==
  /\ At("code")
  /\ \E kind \in IF form.mode = "signup" THEN {"verify", "signup"} ELSE {"verify"} :
       Post("browser", kind, form.email, n)
  /\ Posts

TypeResetEmail(e) ==
  /\ At("reset-email") /\ form.resetEmail # e
  /\ form' = [form EXCEPT !.resetEmail = e] /\ FormOnly
SendResetCode ==
  /\ At("reset-email") /\ form.resetEmail # NoEmail
  /\ Post("browser", "login", form.resetEmail, "force") /\ Posts
VerifyResetCode(n) ==
  At("reset-code") /\ Post("browser", "reset-verify", form.resetEmail, n) /\ Posts
ConfirmPasswordReset ==
  /\ At("reset-password")
  /\ Post("browser", "reset-confirm", form.resetEmail, Wrong) /\ Posts

(* The buttons that lead back.                                             *)
BackToEmail ==
  At("password") \/ At("code") \/ At("reset-email")
LeaveStep ==
  /\ BackToEmail /\ FormOnly
  /\ form' = [form EXCEPT !.step = "email",
                          !.resetEmail = IF At("reset-email") THEN NoEmail ELSE @]
OtherResetEmail == At("reset-code") /\ form' = Step("reset-email") /\ FormOnly

(* avail login: a question, a request, a question, a request.              *)
CliRequest(e) ==
  /\ cliLogin.step = "email" /\ Post("cli", "login", e, "login")
  /\ cliLogin' = [step |-> "asked", email |-> e] /\ UNCHANGED <<authVars, form, user>>
CliAnswers(n) ==
  /\ \/ cliLogin.step = "code" /\ Post("cli", "verify", cliLogin.email, n)
     \/ cliLogin.step = "password" /\ Post("cli", "password", cliLogin.email, n)
  /\ cliLogin' = [cliLogin EXCEPT !.step = "asked"]
  /\ UNCHANGED <<authVars, form, user>>

(* Another client checks what it takes for a code of an address.           *)
OtherGuess(c, e, n) ==
  /\ AtAnyTime \/ (cliLogin.step = "code" /\ cliLogin.email = e /\ n = Wrong)
  /\ Post(c, "verify", e, n) /\ Posts

-----------------------------------------------------------------------------
Typed == {Wrong} \cup 1..Len(codes)

Server(c) ==
  \/ Login(c) \/ ReadCode(c) \/ Mismatch(c) \/ Verify(c) \/ ResetVerify(c) \/ ResetConfirm(c)
  \/ PasswordLogin(c)

Fill ==
  \/ SwitchMode \/ RequestCode \/ StartForgotPassword \/ SendResetCode
  \/ ConfirmPasswordReset \/ LeaveStep \/ OtherResetEmail
  \/ \E e \in Email : TypeEmail(e) \/ TypeResetEmail(e)
  \/ \E n \in Typed : SubmitCode(n) \/ VerifyResetCode(n)
  \/ \E n \in {Wrong, Initial} : SubmitPassword(n)

Command ==
  \/ \E e \in CliEmail : CliRequest(e)
  \/ \E n \in Typed \cup {Initial} : CliAnswers(n)

SignInNext ==
  \/ Expire \/ Fill \/ Command
  \/ \E c \in OtherClient, e \in Email, n \in Typed : OtherGuess(c, e, n)
  \/ \E c \in Client : Server(c)

-----------------------------------------------------------------------------
(* A code takes fewer wrong guesses than the limit and as many checks as   *)
(* were ever under way together: one beyond the limit had read the code    *)
(* before the limit was reached, and guesses made one after another stop   *)
(* at it (auth.rs:237-258 reads and counts in two sections).               *)
GuessesBounded == \A n \in 1..Len(codes) : codes[n].attempts < MaxAttempts + overlap[n]

(* A session that a code opened belongs to the address the code was sent   *)
(* to, and a password changes only by a used code sent to its own address, *)
(* also when the address in the form was edited or the form was left while *)
(* the request was under way (auth.rs:237-264, 402-424, 492-505).          *)
CredentialsAreProven ==
  /\ \A s \in sessions : s.by # Initial => codes[s.by].email = s.email
  /\ \A e \in Email :
       password[e] \in CodeId => codes[password[e]].email = e /\ codes[password[e]].used
=============================================================================

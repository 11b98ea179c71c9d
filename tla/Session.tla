------------------------------ MODULE Session -------------------------------
(***************************************************************************)
(* Accounts and the session of one phone: the auth routes of the API       *)
(* (auth.ts, requireAuth.ts, tokens.ts), the AuthProvider that restores,   *)
(* adopts and drops a token (AuthContext.tsx, tokenStore.ts, client.ts),   *)
(* the two forms (login.tsx, register.tsx), the gate between the forms and *)
(* the tabs (_layout.tsx), and the sign-out button (profile.tsx).          *)
(*                                                                         *)
(* Every async function is a job; an action is what it does up to its next *)
(* await.  The app may be killed at any moment; the secure store stays.    *)
(* shown is the screen as React last committed it, which is what a tap     *)
(* sees.  A token is its place in the order they were issued; 0 is none.   *)
(***************************************************************************)
EXTENDS Integers, FiniteSets, Sequences

CONSTANTS
  Emails,
  MaxSubmits,     \* bound: forms sent
  MaxSignOuts,    \* bound: sign-outs
  MaxMounts,      \* bound: forms mounted by the links between them
  MaxRestarts,    \* bound: times the app is killed and opened again
  MaxFaults       \* bound: requests lost, store operations failed, tokens expired

ASSUME SessionBoundsAssumption ==
  {MaxSubmits, MaxSignOuts, MaxMounts, MaxRestarts, MaxFaults} \subseteq Nat

VARIABLES
  accounts,       \* the users collection: the email of each, in order
  tokens,         \* tokens issued: [of, live]
  stored,         \* the token in the secure store
  status, token,  \* AuthProvider
  screen,         \* the route
  form,           \* the form mounted: [mount, busy]
  shown,          \* what is on the screen
  jobs,           \* async functions under way
  life,           \* how often the app was restarted
  submits, signOuts, faults,
  left            \* history: a sign-out was asked for, and no form sent since, after
                  \* all that was under way then had come to its end

provider == <<status, token>>
sessionVars == <<accounts, tokens, stored, provider, screen, form, shown, jobs, life,
                 submits, signOuts, faults, left>>

NoForm == [mount |-> 0, busy |-> FALSE]
Ghost == -1     \* the life of a request nobody waits for any more
Restore(n) == [kind |-> "restore", n |-> n, life |-> n, mount |-> 0, email |-> "", token |-> 0,
               at |-> "load"]

SessionTypeOK ==
  /\ \A i \in DOMAIN accounts : accounts[i] \in Emails
  /\ \A i \in DOMAIN tokens : tokens[i].of \in DOMAIN accounts /\ tokens[i].live \in BOOLEAN
  /\ {stored, token} \subseteq 0..Len(tokens)
  /\ status \in {"restoring", "authenticated", "anonymous"}
  /\ (status = "authenticated") = (token # 0)
  /\ screen \in {"login", "register", "tabs"} /\ form.busy \in BOOLEAN
  /\ \A j \in jobs : /\ j.life \in Ghost..life /\ j.token \in 0..Len(tokens)
                     /\ j.kind \in {"restore", "login", "register", "signOut"}

SessionInit ==
  /\ accounts = <<>> /\ tokens = <<>> /\ stored = 0
  /\ status = "restoring" /\ token = 0
  /\ screen = "tabs" /\ form = NoForm
  /\ shown = [status |-> "restoring", screen |-> "tabs", form |-> NoForm]
  /\ jobs = {Restore(0)} /\ life = 0
  /\ submits = 0 /\ signOuts = 0 /\ faults = 0 /\ left = FALSE

Fault == faults < MaxFaults /\ faults' = faults + 1
Moves(j, at) == jobs' = (jobs \ {j}) \cup {[j EXCEPT !.at = at]}
Ends(j) == jobs' = jobs \ {j}
Alive(j) == j.life = life

----------------------------------------------------------------------------
(***************************************************************************)
(* The API.                                                                *)
(***************************************************************************)

\* signToken
Issue(j, account) ==
  /\ tokens' = Append(tokens, [of |-> account, live |-> TRUE])
  /\ jobs' = (jobs \ {j}) \cup {[j EXCEPT !.at = "granted", !.token = Len(tokens) + 1]}

\* POST /auth/register up to the end of hashPassword, if registerSchema lets it.
HashPassword(j) ==
  /\ j.kind = "register" /\ j.at = "sent"
  /\ \/ Moves(j, IF \E i \in DOMAIN accounts : accounts[i] = j.email
                  THEN "hashedTaken" ELSE "hashed")
     \/ Moves(j, "refused")
  /\ UNCHANGED <<accounts, tokens, stored, provider, screen, form, shown, life,
                 submits, signOuts, faults, left>>

\* Mutant: the email was looked up when the request came.
CreateUserUnindexed(j) ==
  /\ j.at \in {"hashed", "hashedTaken"}
  /\ IF j.at = "hashedTaken"
       THEN Moves(j, "refused") /\ UNCHANGED <<accounts, tokens>>
       ELSE accounts' = Append(accounts, j.email) /\ Issue(j, Len(accounts) + 1)
  /\ UNCHANGED <<stored, provider, screen, form, shown, life, submits, signOuts, faults, left>>

\* User.create: the unique index on email decides.
CreateUser(j) ==
  /\ j.at \in {"hashed", "hashedTaken"}
  /\ IF \E i \in DOMAIN accounts : accounts[i] = j.email
       THEN Moves(j, "refused") /\ UNCHANGED <<accounts, tokens>>
       ELSE accounts' = Append(accounts, j.email) /\ Issue(j, Len(accounts) + 1)
  /\ UNCHANGED <<stored, provider, screen, form, shown, life, submits, signOuts, faults, left>>

\* POST /auth/login: an account with that email, and the password is its own.
ServeLogin(j) ==
  /\ j.kind = "login" /\ j.at = "sent"
  /\ \/ \E i \in DOMAIN accounts : accounts[i] = j.email /\ Issue(j, i)
     \/ Moves(j, "refused") /\ UNCHANGED tokens
  /\ UNCHANGED <<accounts, stored, provider, screen, form, shown, life,
                 submits, signOuts, faults, left>>

\* GET /auth/me: requireAuth refuses a token that has expired.
ServeMe(j) ==
  /\ j.at = "asked"
  /\ Moves(j, IF tokens[j.token].live THEN "welcome" ELSE "refused")
  /\ UNCHANGED <<accounts, tokens, stored, provider, screen, form, shown, life,
                 submits, signOuts, faults, left>>

\* Time runs out for a token.
Expire(t) ==
  /\ t \in DOMAIN tokens /\ tokens[t].live /\ Fault
  /\ tokens' = [tokens EXCEPT ![t].live = FALSE]
  /\ UNCHANGED <<accounts, stored, provider, screen, form, shown, jobs, life,
                 submits, signOuts, left>>

\* The request or its answer is lost; the API may still be at work on it.
LoseRequest(j) ==
  /\ Alive(j) /\ j.at \in {"sent", "hashed", "hashedTaken", "granted", "asked", "welcome",
                        "refused"}
  /\ Fault
  /\ \E ghosts \in {{}, {[j EXCEPT !.life = Ghost]}} :
       jobs' = (jobs \ {j}) \cup {[j EXCEPT !.at = "failed"]} \cup
               (IF j.at \in {"sent", "hashed", "hashedTaken"} THEN ghosts ELSE {})
  /\ UNCHANGED <<accounts, tokens, stored, provider, screen, form, shown, life,
                 submits, signOuts, left>>

----------------------------------------------------------------------------
(***************************************************************************)
(* AuthProvider.                                                           *)
(***************************************************************************)

\* loadToken: a store that fails to answer counts as an empty one.
LoadToken(j) ==
  /\ Alive(j) /\ j.at = "load"
  /\ \/ /\ stored # 0 /\ status' = status /\ UNCHANGED faults
        /\ jobs' = (jobs \ {j}) \cup {[j EXCEPT !.at = "asked", !.token = stored]}
     \/ /\ stored = 0 /\ status' = "anonymous" /\ Ends(j) /\ UNCHANGED faults
     \/ /\ stored # 0 /\ status' = "anonymous" /\ Ends(j) /\ Fault
  /\ UNCHANGED <<accounts, tokens, stored, token, screen, form, shown, life,
                 submits, signOuts, left>>

\* Mutant: any failure gives the token up.
RestoredOnce(j) ==
  /\ Alive(j) /\ j.kind = "restore" /\ j.at \in {"welcome", "failed", "refused", "cleared"}
  /\ IF j.at \in {"refused", "failed"} THEN Moves(j, "clear") /\ UNCHANGED provider
     ELSE /\ Ends(j)
          /\ status' = IF j.at = "welcome" THEN "authenticated" ELSE "anonymous"
          /\ token' = IF j.at = "welcome" THEN j.token ELSE 0
  /\ UNCHANGED <<accounts, tokens, stored, screen, form, shown, life,
                 submits, signOuts, faults, left>>

\* The effect after GET /auth/me: only a refusal clears the stored token, and
\* the status waits for that.
Restored(j) ==
  /\ Alive(j) /\ j.kind = "restore" /\ j.at \in {"welcome", "failed", "refused", "cleared"}
  /\ IF j.at = "refused" THEN Moves(j, "clear") /\ UNCHANGED provider
     ELSE /\ Ends(j)
          /\ status' = IF j.at = "welcome" THEN "authenticated" ELSE "anonymous"
          /\ token' = IF j.at = "welcome" THEN j.token ELSE 0
  /\ UNCHANGED <<accounts, tokens, stored, screen, form, shown, life,
                 submits, signOuts, faults, left>>

\* clearToken; its failure is swallowed.
ClearToken(j) ==
  /\ Alive(j) /\ j.at = "clear" /\ Moves(j, "cleared")
  /\ \/ stored' = 0 /\ UNCHANGED faults
     \/ UNCHANGED stored /\ Fault
  /\ UNCHANGED <<accounts, tokens, provider, screen, form, shown, life,
                 submits, signOuts, left>>

\* adopt up to its await; a store that fails is the form's error.
SaveToken(j) ==
  /\ Alive(j) /\ j.at = "granted"
  /\ \/ stored' = j.token /\ Moves(j, "saved") /\ UNCHANGED faults
     \/ UNCHANGED stored /\ Moves(j, "failed") /\ Fault
  /\ UNCHANGED <<accounts, tokens, provider, screen, form, shown, life,
                 submits, signOuts, left>>

\* The rest of adopt, and of onSubmit: the form is released either way.
Submitted(j) ==
  /\ Alive(j) /\ j.kind \in {"login", "register"} /\ j.at \in {"saved", "refused", "failed"}
  /\ Ends(j)
  /\ IF j.at = "saved" THEN token' = j.token /\ status' = "authenticated"
     ELSE UNCHANGED provider
  /\ form' = IF form.mount = j.mount THEN [form EXCEPT !.busy = FALSE] ELSE form
  /\ UNCHANGED <<accounts, tokens, stored, screen, shown, life, submits, signOuts, faults, left>>

\* The rest of signOut.
SignedOut(j) ==
  /\ Alive(j) /\ j.kind = "signOut" /\ j.at = "cleared" /\ Ends(j)
  /\ token' = 0 /\ status' = "anonymous"
  /\ UNCHANGED <<accounts, tokens, stored, screen, form, shown, life,
                 submits, signOuts, faults, left>>

----------------------------------------------------------------------------
(***************************************************************************)
(* The screens.                                                            *)
(***************************************************************************)

\* AuthGate: where the route is sent.
Gated ==
  IF status = "anonymous" /\ screen = "tabs" THEN "login"
  ELSE IF status = "authenticated" THEN "tabs"
  ELSE screen

\* React commits; the gate's effect has run, and another screen mounts anew.
CommitSession ==
  /\ shown # [status |-> status, screen |-> Gated, form |-> form]
  /\ screen' = Gated
  /\ form' = IF screen' = screen THEN form ELSE [mount |-> form.mount + 1, busy |-> FALSE]
  /\ shown' = [status |-> status, screen |-> screen', form |-> form']
  /\ UNCHANGED <<accounts, tokens, stored, provider, jobs, life, submits, signOuts, faults, left>>

FormShown == shown.status = "anonymous" /\ shown.screen \in {"login", "register"}

\* onSubmit of either form: the button is off while the form shows it is busy.
Submit(email) ==
  /\ FormShown /\ ~shown.form.busy
  /\ submits < MaxSubmits /\ submits' = submits + 1
  /\ form' = IF form.mount = shown.form.mount THEN [form EXCEPT !.busy = TRUE] ELSE form
  /\ jobs' = jobs \cup {[kind |-> shown.screen, n |-> submits', life |-> life,
                         mount |-> shown.form.mount, email |-> email, token |-> 0, at |-> "sent"]}
  /\ left' = (left /\ (status = "authenticated" \/ \E j \in jobs : Alive(j)))
  /\ UNCHANGED <<accounts, tokens, stored, provider, screen, shown, life, signOuts, faults>>

\* The link to the other form is never off.
SwitchForm ==
  /\ FormShown /\ form.mount < MaxMounts
  /\ screen' = IF shown.screen = "login" THEN "register" ELSE "login"
  /\ form' = [mount |-> form.mount + 1, busy |-> FALSE]
  /\ UNCHANGED <<accounts, tokens, stored, provider, shown, jobs, life,
                 submits, signOuts, faults, left>>

\* The button on the profile.
SignOut ==
  /\ shown.status = "authenticated" /\ shown.screen = "tabs"
  /\ signOuts < MaxSignOuts /\ signOuts' = signOuts + 1
  /\ jobs' = jobs \cup {[kind |-> "signOut", n |-> signOuts', life |-> life, mount |-> 0,
                         email |-> "", token |-> 0, at |-> "clear"]}
  /\ left' = TRUE
  /\ UNCHANGED <<accounts, tokens, stored, provider, screen, form, shown, life, submits, faults>>

\* The app is killed and opened again; requests already sent are still served.
Restart ==
  /\ life < MaxRestarts /\ life' = life + 1
  /\ status' = "restoring" /\ token' = 0 /\ screen' = "tabs" /\ form' = NoForm
  /\ shown' = [status |-> "restoring", screen |-> "tabs", form |-> NoForm]
  /\ jobs' = {[j EXCEPT !.life = Ghost] : j \in {j \in jobs : j.at \in {"sent", "hashed", "hashedTaken"}}}
             \cup {Restore(life + 1)}
  /\ left' = FALSE
  /\ UNCHANGED <<accounts, tokens, stored, submits, signOuts, faults>>

Serve(j) == HashPassword(j) \/ CreateUser(j) \/ ServeLogin(j) \/ ServeMe(j)
Step(j) == LoadToken(j) \/ Restored(j) \/ ClearToken(j) \/ SaveToken(j) \/ Submitted(j) \/ SignedOut(j)

SessionNext ==
  \/ \E j \in jobs : Serve(j) \/ LoseRequest(j) \/ Step(j)
  \/ \E t \in DOMAIN tokens : Expire(t)
  \/ \E e \in Emails : Submit(e)
  \/ CommitSession \/ SwitchForm \/ SignOut \/ Restart

----------------------------------------------------------------------------
(***************************************************************************)
(* Properties                                                              *)
(***************************************************************************)

\* auth.ts:20-44, User.ts:7: however the registrations of an email race, and
\* whichever of them are lost and sent again, it has one account.
OneAccountPerEmail ==
  \A i, k \in DOMAIN accounts : accounts[i] = accounts[k] => i = k

\* AuthContext.tsx:24-63: whoever is signed in, and has not asked to leave, has
\* a token in the store and is signed in again after a restart; in particular
\* the clean-up of an old token never takes a new one.  But for what was still
\* under way when a sign-out was asked for: the answer to a form sent before it
\* signs in whether or not the clearing then takes its token.
SessionIsKept == status = "authenticated" /\ ~left => stored # 0

\* AuthContext.tsx:42-49: a token leaves the store because its user asked, or
\* because the server refused it; a lost request does not sign anyone out.
TokenLeavesForAReason ==
  [][stored # 0 /\ stored' = 0 => left \/ ~tokens[stored].live]_sessionVars
=============================================================================

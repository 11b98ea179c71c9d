---------------------------- MODULE AccessProofs -----------------------------
(***************************************************************************)
(* What holds of Access for any emails, forms, threads, runs and failures: *)
(* first of the session, then of the harness's ledger on disk, then of the *)
(* services, and last of the three beside each other.                      *)
(***************************************************************************)
EXTENDS Access, FiniteSetTheorems, TLAPS

----------------------------------------------------------------------------
(***************************************************************************)
(* What holds of Session for any emails and any number of forms,           *)
(* sign-outs, restarts and failures: its types, one account per email, and *)
(* that a session ends only by its user or by the server's refusal.  Each  *)
(* lemma is about one step of the session; the last part of the module     *)
(* runs them beside the services.                                          *)
(***************************************************************************)

(***************************************************************************)
(* The jobs there can be, kind by kind.                                    *)
(***************************************************************************)
RestoreStages == {"load", "asked", "welcome", "refused", "failed", "clear", "cleared"}
ServedStages == {"sent", "hashed", "hashedTaken", "granted", "refused"}
FormStages == ServedStages \cup {"failed", "saved"}

RestoreJob == [kind : {"restore"}, n : Nat, life : Int, mount : Nat, email : {""},
               token : Nat, at : RestoreStages]
FormJob == [kind : {"login", "register"}, n : Nat, life : Int, mount : Nat, email : Emails,
            token : Nat, at : FormStages]
LeaveJob == [kind : {"signOut"}, n : Nat, life : Int, mount : Nat, email : {""},
             token : Nat, at : {"clear", "cleared"}]
Job == RestoreJob \cup FormJob \cup LeaveJob

\* A job of this life, or a request nobody waits for; with its token, once it has one.
Sound(j) ==
  /\ j \in Job
  /\ j.life = life \/ (j.life = Ghost /\ j \in FormJob)
  /\ j.token \in 0..Len(tokens)
  /\ j.at \in {"asked", "welcome", "granted", "saved"} => j.token # 0

\* A job at another stage, with a token, or abandoned.
Advanced(j, stage) == [j EXCEPT !.at = stage]
Granted(j, t, stage) == [j EXCEPT !.at = stage, !.token = t]
Abandoned(j) == [j EXCEPT !.life = Ghost]

\* What the change of stage leaves of a job.
LEMMA StageMoves ==
  ASSUME NEW j \in Job, NEW c, NEW b, b = Advanced(j, c)
  PROVE  /\ j \in RestoreJob /\ c \in RestoreStages => b \in RestoreJob
         /\ j \in FormJob /\ c \in FormStages => b \in FormJob
         /\ j \in LeaveJob /\ c \in {"clear", "cleared"} => b \in LeaveJob
         /\ b.kind = j.kind /\ b.life = j.life /\ b.mount = j.mount /\ b.email = j.email
         /\ b.token = j.token /\ b.at = c
<1>1. DOMAIN j = {"kind", "n", "life", "mount", "email", "token", "at"}
  BY DEF Job, RestoreJob, FormJob, LeaveJob
<1>2. /\ b.kind = j.kind /\ b.life = j.life /\ b.mount = j.mount /\ b.email = j.email
      /\ b.token = j.token /\ b.at = c
  BY <1>1 DEF Advanced
<1>3. j \in RestoreJob /\ c \in RestoreStages => b \in RestoreJob
  BY DEF RestoreJob, Advanced
<1>4. j \in FormJob /\ c \in FormStages => b \in FormJob
  BY DEF FormJob, Advanced
<1>5. j \in LeaveJob /\ c \in {"clear", "cleared"} => b \in LeaveJob
  BY DEF LeaveJob, Advanced
<1>. QED  BY <1>2, <1>3, <1>4, <1>5

\* What a token given to a job leaves of it.
LEMMA GrantMoves ==
  ASSUME NEW j \in Job, NEW c, NEW t \in Nat, NEW b, b = Granted(j, t, c)
  PROVE  /\ j \in RestoreJob /\ c \in RestoreStages => b \in RestoreJob
         /\ j \in FormJob /\ c \in FormStages => b \in FormJob
         /\ b.kind = j.kind /\ b.life = j.life /\ b.mount = j.mount /\ b.email = j.email
         /\ b.token = t /\ b.at = c
<1>1. DOMAIN j = {"kind", "n", "life", "mount", "email", "token", "at"}
  BY DEF Job, RestoreJob, FormJob, LeaveJob
<1>2. /\ b.kind = j.kind /\ b.life = j.life /\ b.mount = j.mount /\ b.email = j.email
      /\ b.token = t /\ b.at = c
  BY <1>1 DEF Granted
<1>3. j \in RestoreJob /\ c \in RestoreStages => b \in RestoreJob
  BY DEF RestoreJob, Granted
<1>4. j \in FormJob /\ c \in FormStages => b \in FormJob
  BY DEF FormJob, Granted
<1>. QED  BY <1>2, <1>3, <1>4

\* What is left of a request nobody waits for.
LEMMA AbandonMoves ==
  ASSUME NEW j \in FormJob, NEW b, b = Abandoned(j)
  PROVE  /\ b \in FormJob /\ b.kind = j.kind /\ b.life = Ghost /\ b.token = j.token /\ b.at = j.at
<1>1. DOMAIN j = {"kind", "n", "life", "mount", "email", "token", "at"}
  BY DEF FormJob
<1>2. b.kind = j.kind /\ b.life = Ghost /\ b.token = j.token /\ b.at = j.at
  BY <1>1 DEF Abandoned
<1>3. b \in FormJob
  BY DEF FormJob, Abandoned, Ghost
<1>. QED  BY <1>2, <1>3

\* The stages tell the kinds apart.
LEMMA KindsOfStages ==
  ASSUME NEW j \in Job
  PROVE  /\ j.kind = "restore" => j \in RestoreJob
         /\ j.kind \in {"login", "register"} => j \in FormJob
         /\ j.kind = "signOut" => j \in LeaveJob
         /\ j.at \in {"load", "asked", "welcome"} => j \in RestoreJob
         /\ j.at \in {"sent", "hashed", "hashedTaken", "granted", "saved"} => j \in FormJob
         /\ j.at \in {"clear", "cleared"} => j \in RestoreJob \cup LeaveJob
         /\ j.at \in {"refused", "failed"} => j \in RestoreJob \cup FormJob
BY DEF Job, RestoreJob, FormJob, LeaveJob, RestoreStages, ServedStages, FormStages

SessionStatuses == {"restoring", "authenticated", "anonymous"}
Screens == {"login", "register", "tabs"}
Form == [mount : Nat, busy : BOOLEAN]
Token == [of : Nat, live : BOOLEAN]

\* What is on record, on the phone and on the screen.
StoreTyped ==
  /\ accounts \in Seq(Emails) /\ tokens \in Seq(Token)
  /\ \A i \in 1..Len(tokens) : tokens[i].of \in 1..Len(accounts)
  /\ stored \in 0..Len(tokens)

PhoneTyped ==
  /\ token \in 0..Len(tokens)
  /\ status \in SessionStatuses /\ (status = "authenticated" <=> token # 0)
  /\ life \in Nat /\ submits \in Nat /\ signOuts \in Nat /\ left \in BOOLEAN

ScreenTyped ==
  /\ screen \in Screens /\ form \in Form
  /\ shown \in [status : SessionStatuses, screen : Screens, form : Form]

SessionTyped ==
  StoreTyped /\ PhoneTyped /\ ScreenTyped /\ \A j \in jobs : Sound(j)

(***************************************************************************)
(* The course of a session.  There is at most one restore, no form is sent *)
(* and nobody signs out before it has ended, and it asks about the token   *)
(* that is stored; the store loses a token to a refused restore or to a    *)
(* sign-out, and only after one of these is it empty under a form whose    *)
(* token was saved.                                                        *)
(***************************************************************************)
RestoreAlone ==
  \A j \in jobs : j.kind = "restore" =>
    /\ status = "restoring" /\ \A k \in jobs : k.kind = "restore" => k = j
    /\ j.at \in {"asked", "welcome", "refused", "failed", "clear"} => j.token = stored /\ stored # 0
    /\ j.at \in {"refused", "clear"} => ~tokens[j.token].live

FormsAfterRestore ==
  /\ status = "restoring" => shown.status = "restoring"
  /\ \A j \in jobs : j.kind \in {"login", "register"} /\ Alive(j) => status # "restoring"

LeaveIsAsked == \A j \in jobs : j.kind = "signOut" => status # "restoring" /\ left

SavedIsStored == \A j \in jobs : j.at = "saved" /\ Alive(j) /\ ~left => stored # 0

Course == RestoreAlone /\ FormsAfterRestore /\ LeaveIsAsked /\ SavedIsStored /\ SessionIsKept

SessionInv == SessionTyped /\ Course /\ OneAccountPerEmail

----------------------------------------------------------------------------
\* A job stays sound while no token is taken back and the app lives on.
LEMMA SoundStays ==
  ASSUME NEW j, Sound(j), life' = life, Len(tokens) \in Nat, Len(tokens') \in Nat,
         Len(tokens) <= Len(tokens')
  PROVE  Sound(j)'
BY DEF Sound

\* A job that is sound is sound at another stage, if it has the token it needs.
LEMMA SoundAdvances ==
  ASSUME NEW j, Sound(j), NEW c, NEW b, b = Advanced(j, c),
         c \in {"asked", "welcome", "granted", "saved"} => j.token # 0,
         \/ j \in RestoreJob /\ c \in RestoreStages
         \/ j \in FormJob /\ c \in FormStages
         \/ j \in LeaveJob /\ c \in {"clear", "cleared"}
  PROVE  Sound(b) /\ b.kind = j.kind /\ b.life = j.life /\ b.token = j.token /\ b.at = c
<1>1. j \in Job
  BY DEF Sound
<1>2. b.kind = j.kind /\ b.life = j.life /\ b.token = j.token /\ b.at = c
  BY <1>1, StageMoves
<1>3. b \in Job /\ (j \in FormJob => b \in FormJob)
  <2>1. ~(j \in FormJob /\ j \in RestoreJob \cup LeaveJob)
    BY DEF FormJob, RestoreJob, LeaveJob
  <2>. QED  BY <1>1, <2>1, StageMoves DEF Job
<1>. QED  BY <1>2, <1>3 DEF Sound

\* A new token is on record for an account that is there.
LEMMA Issued ==
  ASSUME SessionTyped, NEW j \in jobs, j \in FormJob, life' = life,
         accounts' \in Seq(Emails), Len(accounts') >= Len(accounts),
         NEW a \in 1..Len(accounts'), Issue(j, a), stored' = stored
  PROVE  /\ StoreTyped' /\ Len(tokens') = Len(tokens) + 1 /\ Len(tokens) \in Nat
         /\ \A i \in 1..Len(tokens) : tokens'[i] = tokens[i]
         /\ \A k \in jobs' : Sound(k)' /\ (k \in jobs \/ (k \in FormJob /\ k.life = j.life /\ k.at = "granted"))
<1>0. /\ tokens \in Seq(Token) /\ accounts \in Seq(Emails) /\ Len(tokens) \in Nat
      /\ Len(accounts) \in Nat /\ Len(accounts') \in Nat
  BY DEF SessionTyped, StoreTyped
<1>1. a \in Nat
  BY <1>0
<1>2. [of |-> a, live |-> TRUE] \in Token
  BY <1>1 DEF Token
<1>3. /\ tokens' = Append(tokens, [of |-> a, live |-> TRUE])
      /\ jobs' = (jobs \ {j}) \cup {Granted(j, Len(tokens) + 1, "granted")}
  BY DEF Issue, Granted
<1>4. /\ tokens' \in Seq(Token) /\ Len(tokens') = Len(tokens) + 1
      /\ \A i \in 1..Len(tokens) : tokens'[i] = tokens[i]
      /\ tokens'[Len(tokens) + 1] = [of |-> a, live |-> TRUE]
  BY <1>0, <1>2, <1>3
<1>5. \A i \in 1..Len(tokens') : tokens'[i].of \in 1..Len(accounts')
  <2>1. ASSUME NEW i \in 1..Len(tokens') PROVE tokens'[i].of \in 1..Len(accounts')
    <3>1. CASE i \in 1..Len(tokens)
      <4>1. tokens[i].of \in 1..Len(accounts)
        BY <3>1 DEF SessionTyped, StoreTyped
      <4>. QED  BY <1>0, <1>4, <3>1, <4>1
    <3>2. CASE i = Len(tokens) + 1
      BY <1>4, <3>2
    <3>. QED  BY <1>0, <1>4, <2>1, <3>1, <3>2
  <2>. QED  BY <2>1
<1>6. StoreTyped'
  BY <1>0, <1>4, <1>5 DEF StoreTyped, SessionTyped
<1>7. ASSUME NEW k \in jobs'
      PROVE  Sound(k)' /\ (k \in jobs \/ (k \in FormJob /\ k.life = j.life /\ k.at = "granted"))
  <2>1. CASE k \in jobs
    BY <1>0, <1>4, <2>1, SoundStays DEF SessionTyped
  <2>2. CASE k = Granted(j, Len(tokens) + 1, "granted")
    <3>1. Sound(j) /\ j \in Job /\ Len(tokens) + 1 \in Nat
      BY <1>0 DEF SessionTyped, Job
    <3>2. /\ k \in FormJob /\ k.life = j.life /\ k.token = Len(tokens) + 1 /\ k.at = "granted"
      BY <2>2, <3>1, GrantMoves DEF FormStages, ServedStages
    <3>. QED  BY <1>0, <1>4, <3>1, <3>2 DEF Sound, Job
  <2>. QED  BY <1>3, <2>1, <2>2
<1>. QED  BY <1>0, <1>4, <1>6, <1>7

\* What is served.  A request is answered, an account made or a token signed;
\* nothing on the phone moves.
LEMMA ServeTyped ==
  ASSUME SessionTyped, NEW j \in jobs, Serve(j)
  PROVE  SessionTyped'
<1>0. /\ Sound(j) /\ j \in Job /\ Len(tokens) \in Nat /\ Len(accounts) \in Nat
      /\ \A k \in jobs : Sound(k)
  BY DEF SessionTyped, StoreTyped, Sound
<1>1. UNCHANGED <<stored, status, token, screen, form, shown, life, submits, signOuts, left>>
  BY DEF Serve, HashPassword, CreateUser, ServeLogin, ServeMe, provider
<1>2. ScreenTyped'
  BY <1>1 DEF SessionTyped, ScreenTyped
<1>3. ASSUME NEW c, Moves(j, c), UNCHANGED <<accounts, tokens>>,
             c \in {"asked", "welcome", "granted", "saved"} => j.token # 0,
             \/ j \in RestoreJob /\ c \in RestoreStages
             \/ j \in FormJob /\ c \in FormStages
      PROVE  SessionTyped'
  <2>1. Sound(Advanced(j, c))
    BY <1>0, <1>3, SoundAdvances
  <2>2. jobs' = (jobs \ {j}) \cup {Advanced(j, c)}
    BY <1>3 DEF Moves, Advanced
  <2>3. \A k \in jobs' : Sound(k)'
    BY <1>0, <1>1, <1>3, <2>1, <2>2, SoundStays
  <2>. QED  BY <1>1, <1>2, <1>3, <2>3 DEF SessionTyped, StoreTyped, PhoneTyped
<1>4. ASSUME j \in FormJob, accounts' \in Seq(Emails), Len(accounts') >= Len(accounts),
             NEW a \in 1..Len(accounts'), Issue(j, a)
      PROVE  SessionTyped'
  <2>1. /\ StoreTyped' /\ Len(tokens') = Len(tokens) + 1
        /\ \A k \in jobs' : Sound(k)'
    BY <1>1, <1>4, Issued
  <2>2. PhoneTyped'
    BY <1>0, <1>1, <2>1 DEF SessionTyped, PhoneTyped
  <2>. QED  BY <1>2, <2>1, <2>2 DEF SessionTyped
<1>5. CASE HashPassword(j)
  <2>1. j \in FormJob
    BY <1>0, <1>5, KindsOfStages DEF HashPassword
  <2>2. PICK c \in {"hashed", "hashedTaken", "refused"} : Moves(j, c)
    BY <1>5 DEF HashPassword
  <2>. QED  BY <1>3, <1>5, <2>1, <2>2 DEF HashPassword, FormStages, ServedStages
<1>6. CASE CreateUser(j)
  <2>1. j \in FormJob
    BY <1>0, <1>6, KindsOfStages DEF CreateUser
  <2>2. CASE Moves(j, "refused") /\ UNCHANGED <<accounts, tokens>>
    BY <1>3, <2>1, <2>2 DEF FormStages, ServedStages
  <2>3. CASE accounts' = Append(accounts, j.email) /\ Issue(j, Len(accounts) + 1)
    <3>1. j.email \in Emails /\ accounts \in Seq(Emails)
      BY <2>1 DEF FormJob, SessionTyped, StoreTyped
    <3>2. accounts' \in Seq(Emails) /\ Len(accounts') = Len(accounts) + 1
      BY <2>3, <3>1
    <3>. QED  BY <1>0, <1>4, <2>1, <2>3, <3>2
  <2>. QED  BY <1>6, <2>2, <2>3 DEF CreateUser
<1>7. CASE ServeLogin(j)
  <2>1. j \in FormJob
    BY <1>0, <1>7, KindsOfStages DEF ServeLogin
  <2>2. CASE Moves(j, "refused") /\ UNCHANGED tokens
    BY <1>3, <1>7, <2>1, <2>2 DEF ServeLogin, FormStages, ServedStages
  <2>3. ASSUME NEW i \in DOMAIN accounts, Issue(j, i)
        PROVE  SessionTyped'
    <3>1. accounts' = accounts /\ accounts \in Seq(Emails) /\ i \in 1..Len(accounts)
      BY <1>7, <2>3 DEF ServeLogin, SessionTyped, StoreTyped
    <3>. QED  BY <1>0, <1>4, <2>1, <2>3, <3>1
  <2>. QED  BY <1>7, <2>2, <2>3 DEF ServeLogin
<1>8. CASE ServeMe(j)
  <2>1. j \in RestoreJob /\ j.token # 0
    BY <1>0, <1>8, KindsOfStages DEF ServeMe, Sound
  <2>2. PICK c \in {"welcome", "refused"} : Moves(j, c)
    BY <1>8 DEF ServeMe
  <2>. QED  BY <1>3, <1>8, <2>1, <2>2 DEF ServeMe, RestoreStages
<1>. QED  BY <1>5, <1>6, <1>7, <1>8 DEF Serve

\* A step of the provider leaves the API's records alone, and ends its job or
\* moves it on.
LEMMA StepMoves ==
  ASSUME SessionTyped, NEW j \in jobs, Step(j)
  PROVE  /\ UNCHANGED <<accounts, tokens, screen, shown, life, submits, signOuts, left>> /\ Alive(j)
         /\ \/ jobs' = jobs \ {j}
            \/ \E b : jobs' = (jobs \ {j}) \cup {b} /\ Sound(b) /\ b.kind = j.kind /\ b.life = j.life
                      /\ \/ LoadToken(j) /\ b.at = "asked" /\ b.token = stored /\ stored # 0
                            /\ stored' = stored /\ status' = status /\ token' = token
                         \/ Restored(j) /\ b.at = "clear" /\ j.at = "refused" /\ b.token = j.token
                            /\ stored' = stored /\ status' = status /\ token' = token
                         \/ ClearToken(j) /\ b.at = "cleared" /\ b.token = j.token
                            /\ status' = status /\ token' = token
                         \/ SaveToken(j) /\ b.at \in {"saved", "failed"} /\ b.token = j.token
                            /\ status' = status /\ token' = token
                            /\ b.at = "saved" => stored' = j.token
<1>0. Sound(j) /\ j \in Job /\ stored \in 0..Len(tokens) /\ Len(tokens) \in Nat
  BY DEF SessionTyped, StoreTyped, Sound
<1>1. UNCHANGED <<accounts, tokens, screen, shown, life, submits, signOuts, left>> /\ Alive(j)
  BY DEF Step, LoadToken, Restored, ClearToken, SaveToken, Submitted, SignedOut, provider
<1>2. CASE LoadToken(j)
  <2>1. CASE jobs' = jobs \ {j}
    BY <1>1, <2>1
  <2>2. CASE stored # 0 /\ jobs' = (jobs \ {j}) \cup {Granted(j, stored, "asked")} /\ status' = status
    <3> DEFINE b == Granted(j, stored, "asked")
    <3>1. j \in RestoreJob /\ stored \in Nat
      BY <1>0, <1>2, KindsOfStages DEF LoadToken
    <3>2. b \in RestoreJob /\ b.kind = j.kind /\ b.life = j.life /\ b.token = stored /\ b.at = "asked"
      BY <1>0, <3>1, GrantMoves DEF RestoreStages
    <3>3. b.life = life
      BY <1>1, <3>2 DEF Alive
    <3>4. Sound(b)
      BY <1>0, <2>2, <3>2, <3>3 DEF Sound, Job
    <3>5. stored' = stored /\ token' = token
      BY <1>2 DEF LoadToken
    <3>. QED  BY <1>1, <1>2, <2>2, <3>2, <3>4, <3>5
  <2>. QED  BY <1>2, <2>1, <2>2 DEF LoadToken, Granted, Ends
<1>3. CASE Restored(j)
  <2>1. CASE jobs' = jobs \ {j}
    BY <1>1, <2>1
  <2>2. CASE j.at = "refused" /\ Moves(j, "clear") /\ UNCHANGED provider
    <3> DEFINE b == Advanced(j, "clear")
    <3>1. j \in RestoreJob
      BY <1>0, <1>3, KindsOfStages DEF Restored
    <3>2. Sound(b) /\ b.kind = j.kind /\ b.life = j.life /\ b.token = j.token /\ b.at = "clear"
      BY <1>0, <3>1, SoundAdvances DEF RestoreStages
    <3>3. jobs' = (jobs \ {j}) \cup {b}
      BY <2>2 DEF Moves, Advanced
    <3>4. stored' = stored /\ status' = status /\ token' = token
      BY <1>3, <2>2 DEF Restored, provider
    <3>. QED  BY <1>1, <1>3, <2>2, <3>2, <3>3, <3>4
  <2>. QED  BY <1>3, <2>1, <2>2 DEF Restored, Ends
<1>4. CASE ClearToken(j)
  <2> DEFINE b == Advanced(j, "cleared")
  <2>1. j \in RestoreJob \cup LeaveJob
    BY <1>0, <1>4, KindsOfStages DEF ClearToken
  <2>2. Sound(b) /\ b.kind = j.kind /\ b.life = j.life /\ b.token = j.token /\ b.at = "cleared"
    BY <1>0, <2>1, SoundAdvances DEF RestoreStages
  <2>3. jobs' = (jobs \ {j}) \cup {b} /\ status' = status /\ token' = token
    BY <1>4 DEF ClearToken, Moves, Advanced, provider
  <2>. QED  BY <1>1, <1>4, <2>2, <2>3
<1>5. CASE SaveToken(j)
  <2>1. j \in FormJob /\ j.token # 0
    BY <1>0, <1>5, KindsOfStages DEF SaveToken, Sound
  <2>2. PICK c \in {"saved", "failed"} : Moves(j, c) /\ (c = "saved" => stored' = j.token)
    BY <1>5 DEF SaveToken
  <2> DEFINE b == Advanced(j, c)
  <2>3. Sound(b) /\ b.kind = j.kind /\ b.life = j.life /\ b.token = j.token /\ b.at = c
    BY <1>0, <2>1, SoundAdvances DEF FormStages
  <2>4. jobs' = (jobs \ {j}) \cup {b} /\ status' = status /\ token' = token
    BY <1>5, <2>2 DEF SaveToken, Moves, Advanced, provider
  <2>. QED  BY <1>1, <1>5, <2>2, <2>3, <2>4
<1>6. CASE Submitted(j) \/ SignedOut(j)
  BY <1>1, <1>6 DEF Submitted, SignedOut, Ends
<1>. QED  BY <1>2, <1>3, <1>4, <1>5, <1>6 DEF Step

\* What the provider does.
LEMMA StepTyped ==
  ASSUME SessionTyped, RestoreAlone, NEW j \in jobs, Step(j)
  PROVE  SessionTyped'
<1>0. /\ Sound(j) /\ j \in Job /\ Len(tokens) \in Nat
      /\ token \in 0..Len(tokens) /\ stored \in 0..Len(tokens)
      /\ status \in SessionStatuses /\ (status = "authenticated" <=> token # 0)
  BY DEF SessionTyped, StoreTyped, PhoneTyped, Sound
<1>1. UNCHANGED <<accounts, tokens, screen, shown, life, submits, signOuts, left>> /\ Alive(j)
  BY StepMoves
<1>2. \A k \in jobs' : Sound(k)'
  <2>1. jobs' = jobs \ {j} \/ \E b : jobs' = (jobs \ {j}) \cup {b} /\ Sound(b)
    BY StepMoves
  <2>2. \A k \in jobs' : Sound(k)
    BY <2>1 DEF SessionTyped
  <2>. QED  BY <1>0, <1>1, <2>2, SoundStays
<1>3. stored' \in 0..Len(tokens)
  <2>1. j.token \in 0..Len(tokens)
    BY <1>0 DEF Sound
  <2>. QED  BY <1>0, <2>1 DEF Step, LoadToken, Restored, ClearToken, SaveToken, Submitted, SignedOut
<1>4. /\ token' \in 0..Len(tokens) /\ status' \in SessionStatuses
      /\ status' = "authenticated" <=> token' # 0
  <2>1. CASE LoadToken(j)
    <3>1. j \in RestoreJob
      BY <1>0, <2>1, KindsOfStages DEF LoadToken
    <3>2. status = "restoring"
      BY <3>1 DEF RestoreAlone, RestoreJob
    <3>. QED  BY <1>0, <2>1, <3>2 DEF LoadToken, SessionStatuses
  <2>2. CASE Restored(j)
    <3>1. j.at = "welcome" => j.token # 0 /\ j.token \in 0..Len(tokens)
      BY <1>0 DEF Sound
    <3>. QED  BY <1>0, <2>2, <3>1 DEF Restored, SessionStatuses, provider
  <2>3. CASE ClearToken(j) \/ SaveToken(j)
    BY <1>0, <2>3 DEF ClearToken, SaveToken, provider
  <2>4. CASE Submitted(j)
    <3>1. j.at = "saved" => j.token # 0 /\ j.token \in 0..Len(tokens)
      BY <1>0 DEF Sound
    <3>. QED  BY <1>0, <2>4, <3>1 DEF Submitted, SessionStatuses, provider
  <2>5. CASE SignedOut(j)
    BY <1>0, <2>5 DEF SignedOut, SessionStatuses
  <2>. QED  BY <2>1, <2>2, <2>3, <2>4, <2>5 DEF Step
<1>5. form' \in Form
  <2>1. form \in Form
    BY DEF SessionTyped, ScreenTyped
  <2>2. [form EXCEPT !.busy = FALSE] \in Form
    BY <2>1 DEF Form
  <2>3. form' \in {form, [form EXCEPT !.busy = FALSE]}
    BY DEF Step, LoadToken, Restored, ClearToken, SaveToken, Submitted, SignedOut
  <2>. QED  BY <2>1, <2>2, <2>3
<1>. QED  BY <1>1, <1>2, <1>3, <1>4, <1>5 DEF SessionTyped, StoreTyped, PhoneTyped, ScreenTyped

\* A lost request fails its job; the API may go on with it for nobody.
LEMMA LossMoves ==
  ASSUME SessionTyped, NEW j \in jobs, LoseRequest(j)
  PROVE  /\ UNCHANGED <<accounts, tokens, stored, status, token, screen, form, shown, life,
                        submits, signOuts, left>>
         /\ j \in RestoreJob \cup FormJob /\ Sound(Advanced(j, "failed"))
         /\ \/ jobs' = (jobs \ {j}) \cup {Advanced(j, "failed")}
            \/ /\ j \in FormJob /\ Sound(Abandoned(j)) /\ j.at \in {"sent", "hashed", "hashedTaken"}
               /\ jobs' = (jobs \ {j}) \cup {Advanced(j, "failed"), Abandoned(j)}
<1>0. Sound(j) /\ j \in Job
  BY DEF SessionTyped, Sound
<1>1. UNCHANGED <<accounts, tokens, stored, status, token, screen, form, shown, life,
                  submits, signOuts, left>>
  BY DEF LoseRequest, provider
<1>2. j \in RestoreJob \cup FormJob
  BY <1>0, KindsOfStages DEF LoseRequest
<1>3. Sound(Advanced(j, "failed"))
  BY <1>0, <1>2, SoundAdvances DEF RestoreStages, FormStages
<1>4. CASE j.at \in {"sent", "hashed", "hashedTaken"}
  <2>1. j \in FormJob
    BY <1>0, <1>4, KindsOfStages
  <2>2. Sound(Abandoned(j))
    BY <1>0, <2>1, AbandonMoves DEF Sound, Job
  <2>3. \/ jobs' = (jobs \ {j}) \cup {Advanced(j, "failed")}
        \/ jobs' = (jobs \ {j}) \cup {Advanced(j, "failed"), Abandoned(j)}
    <3>1. PICK ghosts \in {{}, {Abandoned(j)}} :
            jobs' = (jobs \ {j}) \cup {Advanced(j, "failed")} \cup ghosts
      BY <1>4, Zenon DEF LoseRequest, Advanced, Abandoned
    <3>. QED  BY <3>1
  <2>. QED  BY <1>1, <1>3, <1>4, <2>1, <2>2, <2>3
<1>5. CASE j.at \notin {"sent", "hashed", "hashedTaken"}
  <2>1. jobs' = (jobs \ {j}) \cup {Advanced(j, "failed")} \cup {}
    BY <1>5, Zenon DEF LoseRequest, Advanced
  <2>. QED  BY <1>1, <1>2, <1>3, <2>1
<1>. QED  BY <1>4, <1>5

\* What time and the network do.
LEMMA FaultTyped ==
  ASSUME SessionTyped,
         \/ \E j \in jobs : LoseRequest(j)
         \/ \E t \in DOMAIN tokens : Expire(t)
  PROVE  SessionTyped'
<1>0. Len(tokens) \in Nat /\ tokens \in Seq(Token) /\ \A k \in jobs : Sound(k)
  BY DEF SessionTyped, StoreTyped
<1>1. ASSUME NEW j \in jobs, LoseRequest(j) PROVE SessionTyped'
  <2>1. UNCHANGED <<accounts, tokens, stored, status, token, screen, form, shown, life,
                    submits, signOuts, left>>
    BY <1>1, LossMoves
  <2>2. \A k \in jobs' : Sound(k)
    BY <1>0, <1>1, LossMoves
  <2>3. \A k \in jobs' : Sound(k)'
    BY <1>0, <2>1, <2>2, SoundStays
  <2>. QED  BY <2>1, <2>3 DEF SessionTyped, StoreTyped, PhoneTyped, ScreenTyped
<1>2. ASSUME NEW t \in DOMAIN tokens, Expire(t) PROVE SessionTyped'
  <2>1. UNCHANGED <<accounts, stored, status, token, screen, form, shown, jobs, life,
                    submits, signOuts, left>>
    BY <1>2 DEF Expire, provider
  <2>2. t \in 1..Len(tokens) /\ tokens[t] \in Token
    BY <1>0
  <2>3. tokens' = [tokens EXCEPT ![t] = [tokens[t] EXCEPT !.live = FALSE]]
    BY <1>2 DEF Expire
  <2>4. [tokens[t] EXCEPT !.live = FALSE] \in Token
    BY <2>2 DEF Token
  <2>5. tokens' \in Seq(Token) /\ Len(tokens') = Len(tokens)
    BY <1>0, <2>2, <2>3, <2>4
  <2>6. [tokens[t] EXCEPT !.live = FALSE].of = tokens[t].of
    BY <2>2 DEF Token
  <2>7. \A i \in 1..Len(tokens) : tokens'[i].of = tokens[i].of
    BY <1>0, <2>2, <2>3, <2>6
  <2>8. \A k \in jobs' : Sound(k)'
    BY <1>0, <2>1, <2>5, SoundStays
  <2>. QED  BY <2>1, <2>5, <2>7, <2>8 DEF SessionTyped, StoreTyped, PhoneTyped, ScreenTyped
<1>. QED  BY <1>1, <1>2

\* What the screens do, and a tap.
LEMMA ScreenTypes ==
  ASSUME SessionTyped,
         CommitSession \/ SwitchForm \/ SignOut \/ Restart \/ \E e \in Emails : Submit(e)
  PROVE  SessionTyped'
<1>0. /\ Len(tokens) \in Nat /\ life \in Nat /\ \A k \in jobs : Sound(k)
      /\ screen \in Screens /\ form \in Form /\ status \in SessionStatuses
      /\ shown \in [status : SessionStatuses, screen : Screens, form : Form]
      /\ form.mount \in Nat /\ shown.form \in Form /\ shown.form.mount \in Nat
  BY DEF SessionTyped, StoreTyped, PhoneTyped, ScreenTyped, Form
<1>1. [form EXCEPT !.busy = TRUE] \in Form /\ [mount |-> form.mount + 1, busy |-> FALSE] \in Form
  <2>1. \A f \in Form : [f EXCEPT !.busy = TRUE] \in Form
    BY DEF Form
  <2>2. \A m \in Nat : [mount |-> m, busy |-> FALSE] \in Form
    BY DEF Form
  <2>3. form.mount + 1 \in Nat
    BY <1>0
  <2>. QED  BY <1>0, <2>1, <2>2, <2>3
<1>2. NoForm \in Form
  BY DEF NoForm, Form
<1>3. CASE CommitSession
  <2>1. screen' \in Screens
    BY <1>0, <1>3 DEF CommitSession, Gated, Screens
  <2>2. form' \in Form
    BY <1>0, <1>1, <1>3 DEF CommitSession
  <2>3. shown' \in [status : SessionStatuses, screen : Screens, form : Form]
    BY <1>0, <1>3, <2>1, <2>2 DEF CommitSession
  <2>4. UNCHANGED <<accounts, tokens, stored, status, token, jobs, life, submits, signOuts, left>>
    BY <1>3 DEF CommitSession, provider
  <2>5. \A k \in jobs' : Sound(k)'
    BY <1>0, <2>4, SoundStays
  <2>. QED  BY <2>1, <2>2, <2>3, <2>4, <2>5 DEF SessionTyped, StoreTyped, PhoneTyped, ScreenTyped
<1>4. CASE SwitchForm
  <2>1. screen' \in Screens /\ form' \in Form /\ shown' = shown
    BY <1>0, <1>1, <1>4 DEF SwitchForm, Screens
  <2>2. UNCHANGED <<accounts, tokens, stored, status, token, jobs, life, submits, signOuts, left>>
    BY <1>4 DEF SwitchForm, provider
  <2>3. \A k \in jobs' : Sound(k)'
    BY <1>0, <2>2, SoundStays
  <2>. QED  BY <2>1, <2>2, <2>3 DEF SessionTyped, StoreTyped, PhoneTyped, ScreenTyped
<1>5. CASE SignOut
  <2> DEFINE b == [kind |-> "signOut", n |-> signOuts + 1, life |-> life, mount |-> 0,
                   email |-> "", token |-> 0, at |-> "clear"]
  <2>1. UNCHANGED <<accounts, tokens, stored, status, token, screen, form, shown, life, submits>>
        /\ left' = TRUE
    BY <1>5 DEF SignOut, provider
  <2>2. signOuts \in Nat /\ signOuts' = signOuts + 1
    BY <1>5 DEF SignOut, SessionTyped, PhoneTyped
  <2>3. jobs' = jobs \cup {b}
    BY <1>5, <2>2, Zenon DEF SignOut
  <2>4. Sound(b)
    <3>1. b \in LeaveJob
      BY <1>0, <2>2 DEF LeaveJob
    <3>2. b.life = life /\ b.token = 0 /\ b.at = "clear"
      OBVIOUS
    <3> HIDE DEF b
    <3>. QED  BY <1>0, <3>1, <3>2 DEF Sound, Job
  <2>5. \A k \in jobs' : Sound(k)'
    <3> HIDE DEF b
    <3>. QED  BY <1>0, <2>1, <2>3, <2>4, SoundStays
  <2>. QED  BY <2>1, <2>2, <2>5 DEF SessionTyped, StoreTyped, PhoneTyped, ScreenTyped
<1>6. CASE Restart
  <2>1. UNCHANGED <<accounts, tokens, stored, submits, signOuts>> /\ left' = FALSE /\ life' = life + 1
        /\ status' = "restoring" /\ token' = 0 /\ screen' = "tabs" /\ form' = NoForm
        /\ shown' = [status |-> "restoring", screen |-> "tabs", form |-> NoForm]
    BY <1>6 DEF Restart
  <2>2. ASSUME NEW k \in jobs' PROVE Sound(k)'
    <3>1. CASE k = Restore(life + 1)
      <4>1. life + 1 \in Nat
        BY <1>0
      <4>2. \A n \in Nat : /\ Restore(n) \in RestoreJob /\ Restore(n).life = n
                           /\ Restore(n).token = 0 /\ Restore(n).at = "load"
        BY DEF Restore, RestoreJob, RestoreStages
      <4>. QED  BY <1>0, <2>1, <3>1, <4>1, <4>2 DEF Sound, Job
    <3>2. ASSUME NEW j \in jobs, j.at \in {"sent", "hashed", "hashedTaken"}, k = Abandoned(j)
          PROVE  Sound(k)'
      <4>1. j \in FormJob /\ Sound(j)
        BY <1>0, <3>2, KindsOfStages DEF Sound
      <4>2. k \in FormJob /\ k.life = Ghost /\ k.token = j.token /\ k.at = j.at
        BY <3>2, <4>1, AbandonMoves
      <4>. QED  BY <2>1, <4>1, <4>2 DEF Sound, Job
    <3>3. k = Restore(life + 1) \/ \E j \in jobs : j.at \in {"sent", "hashed", "hashedTaken"} /\ k = Abandoned(j)
      BY <1>6, <2>2 DEF Restart, Abandoned
    <3>. QED  BY <3>1, <3>2, <3>3
  <2>3. StoreTyped'
    BY <2>1 DEF SessionTyped, StoreTyped
  <2>4. PhoneTyped'
    <3>1. token' \in 0..Len(tokens') /\ life' \in Nat
      BY <1>0, <2>1
    <3>2. status' \in SessionStatuses /\ (status' = "authenticated" <=> token' # 0) /\ left' \in BOOLEAN
      BY <2>1 DEF SessionStatuses
    <3>3. submits' \in Nat /\ signOuts' \in Nat
      BY <2>1 DEF SessionTyped, PhoneTyped
    <3>. QED  BY <3>1, <3>2, <3>3 DEF PhoneTyped
  <2>5. ScreenTyped'
    BY <1>2, <2>1 DEF ScreenTyped, SessionStatuses, Screens
  <2>. QED  BY <2>2, <2>3, <2>4, <2>5 DEF SessionTyped
<1>7. ASSUME NEW e \in Emails, Submit(e) PROVE SessionTyped'
  <2> DEFINE b == [kind |-> shown.screen, n |-> submits', life |-> life, mount |-> shown.form.mount,
                   email |-> e, token |-> 0, at |-> "sent"]
  <2>1. UNCHANGED <<accounts, tokens, stored, status, token, screen, shown, life, signOuts>>
    BY <1>7 DEF Submit, provider
  <2>2. jobs' = jobs \cup {b} /\ submits' \in Nat
    BY <1>7 DEF Submit, SessionTyped, PhoneTyped
  <2>3. shown.screen \in {"login", "register"}
    BY <1>7 DEF Submit, FormShown
  <2>4. Sound(b)
    <3>1. b \in FormJob
      BY <1>0, <2>2, <2>3 DEF FormJob, FormStages, ServedStages
    <3>2. b.life = life /\ b.token = 0 /\ b.at = "sent"
      OBVIOUS
    <3>3. b.token \in 0..Len(tokens)
      BY <1>0, <3>2
    <3>4. b.at \notin {"asked", "welcome", "granted", "saved"}
      BY <3>2
    <3> HIDE DEF b
    <3>. QED  BY <3>1, <3>2, <3>3, <3>4 DEF Sound, Job
  <2>5. \A k \in jobs' : Sound(k)'
    <3> HIDE DEF b
    <3>. QED  BY <1>0, <2>1, <2>2, <2>4, SoundStays
  <2>6. form' \in Form
    BY <1>0, <1>1, <1>7 DEF Submit
  <2>7. left' \in BOOLEAN
    BY <1>7 DEF Submit
  <2>. QED  BY <2>1, <2>2, <2>5, <2>6, <2>7 DEF SessionTyped, StoreTyped, PhoneTyped, ScreenTyped
<1>. QED  BY <1>3, <1>4, <1>5, <1>6, <1>7

\* Every step keeps the types.
LEMMA SessionTypedKept ==
  ASSUME SessionTyped, RestoreAlone, [SessionNext]_sessionVars
  PROVE  SessionTyped'
<1>1. CASE UNCHANGED sessionVars
  <2>1. UNCHANGED <<accounts, tokens, stored, status, token, screen, form, shown, jobs, life,
                    submits, signOuts, left>>
    BY <1>1 DEF sessionVars, provider
  <2>. QED  BY <2>1 DEF SessionTyped, StoreTyped, PhoneTyped, ScreenTyped, Sound
<1>. QED  BY <1>1, ServeTyped, StepTyped, FaultTyped, ScreenTypes DEF SessionNext

----------------------------------------------------------------------------
\* What is served moves one job on, and no token on record.
LEMMA ServeMoves ==
  ASSUME SessionTyped, NEW j \in jobs, Serve(j)
  PROVE  /\ UNCHANGED <<stored, status, token, screen, form, shown, life, left>>
         /\ \A i \in 1..Len(tokens) : tokens'[i] = tokens[i]
         /\ \E b : /\ jobs' = (jobs \ {j}) \cup {b} /\ b.kind = j.kind /\ b.life = j.life
                   /\ \/ j.kind # "restore" /\ j.kind # "signOut" /\ b.at # "saved"
                      \/ /\ j.kind = "restore" /\ j.at = "asked" /\ b.token = j.token
                         /\ b.at \in {"welcome", "refused"} /\ tokens' = tokens
                         /\ b.at = "refused" => ~tokens[j.token].live
<1>0. Sound(j) /\ j \in Job /\ tokens \in Seq(Token) /\ Len(tokens) \in Nat
  BY DEF SessionTyped, StoreTyped, Sound
<1>1. UNCHANGED <<stored, status, token, screen, form, shown, life, left>>
  BY DEF Serve, HashPassword, CreateUser, ServeLogin, ServeMe, provider
<1>2. ASSUME NEW c, Moves(j, c), j \in FormJob, c # "saved", tokens' = tokens
      PROVE  \E b : /\ jobs' = (jobs \ {j}) \cup {b} /\ b.kind = j.kind /\ b.life = j.life
                    /\ j.kind # "restore" /\ j.kind # "signOut" /\ b.at # "saved"
  <2> DEFINE b == Advanced(j, c)
  <2>1. b.kind = j.kind /\ b.life = j.life /\ b.at = c
    BY <1>0, StageMoves
  <2>2. jobs' = (jobs \ {j}) \cup {b}
    BY <1>2 DEF Moves, Advanced
  <2>3. j.kind # "restore" /\ j.kind # "signOut"
    BY <1>2 DEF FormJob
  <2>. QED  BY <1>2, <2>1, <2>2, <2>3
<1>3. ASSUME NEW a, a \in Nat, Issue(j, a), j \in FormJob
      PROVE  /\ \A i \in 1..Len(tokens) : tokens'[i] = tokens[i]
             /\ \E b : /\ jobs' = (jobs \ {j}) \cup {b} /\ b.kind = j.kind /\ b.life = j.life
                       /\ j.kind # "restore" /\ j.kind # "signOut" /\ b.at # "saved"
  <2> DEFINE b == Granted(j, Len(tokens) + 1, "granted")
  <2>1. b.kind = j.kind /\ b.life = j.life /\ b.at = "granted"
    BY <1>0, GrantMoves
  <2>2. jobs' = (jobs \ {j}) \cup {b}
    BY <1>3 DEF Issue, Granted
  <2>3. j.kind # "restore" /\ j.kind # "signOut"
    BY <1>3 DEF FormJob
  <2>4. tokens' = Append(tokens, [of |-> a, live |-> TRUE])
    BY <1>3 DEF Issue
  <2>5. [of |-> a, live |-> TRUE] \in Token
    BY <1>3 DEF Token
  <2>6. \A i \in 1..Len(tokens) : tokens'[i] = tokens[i]
    BY <1>0, <2>4, <2>5
  <2>. QED  BY <2>1, <2>2, <2>3, <2>6
<1>4. CASE HashPassword(j)
  <2>1. j \in FormJob
    BY <1>0, <1>4, KindsOfStages DEF HashPassword
  <2>2. PICK c \in {"hashed", "hashedTaken", "refused"} : Moves(j, c)
    BY <1>4 DEF HashPassword
  <2>3. tokens' = tokens
    BY <1>4 DEF HashPassword
  <2>. QED  BY <1>1, <1>2, <2>1, <2>2, <2>3
<1>5. CASE CreateUser(j) \/ ServeLogin(j)
  <2>1. j \in FormJob
    BY <1>0, <1>5, KindsOfStages DEF CreateUser, ServeLogin
  <2>2. CASE Moves(j, "refused") /\ tokens' = tokens
    BY <1>1, <1>2, <2>1, <2>2
  <2>3. ASSUME NEW a \in Nat, Issue(j, a)
        PROVE  /\ \A i \in 1..Len(tokens) : tokens'[i] = tokens[i]
               /\ \E b : /\ jobs' = (jobs \ {j}) \cup {b} /\ b.kind = j.kind /\ b.life = j.life
                         /\ j.kind # "restore" /\ j.kind # "signOut" /\ b.at # "saved"
    BY <1>3, <2>1, <2>3
  <2>4. Len(accounts) + 1 \in Nat /\ \A i \in DOMAIN accounts : i \in Nat
    BY DEF SessionTyped, StoreTyped
  <2>5. (Moves(j, "refused") /\ tokens' = tokens) \/ \E a \in Nat : Issue(j, a)
    BY <1>5, <2>4 DEF CreateUser, ServeLogin
  <2>. QED  BY <1>1, <2>2, <2>3, <2>5
<1>6. CASE ServeMe(j)
  <2>1. j \in RestoreJob /\ j.at = "asked" /\ tokens' = tokens
    BY <1>0, <1>6, KindsOfStages DEF ServeMe
  <2>2. PICK c \in {"welcome", "refused"} : Moves(j, c) /\ (c = "refused" => ~tokens[j.token].live)
    BY <1>6, Zenon DEF ServeMe
  <2> DEFINE b == Advanced(j, c)
  <2>3. b.kind = j.kind /\ b.life = j.life /\ b.token = j.token /\ b.at = c
    BY <1>0, StageMoves
  <2>4. jobs' = (jobs \ {j}) \cup {b}
    BY <2>2 DEF Moves, Advanced
  <2>5. j.kind = "restore"
    BY <2>1 DEF RestoreJob
  <2>. QED  BY <1>1, <2>1, <2>2, <2>3, <2>4, <2>5
<1>. QED  BY <1>4, <1>5, <1>6 DEF Serve

\* A job moved on is the same job at another stage.
LEMMA MovesOn ==
  ASSUME NEW j \in Job, NEW c, Moves(j, c)
  PROVE  \E b : /\ jobs' = (jobs \ {j}) \cup {b} /\ b.at = c
                /\ b.kind = j.kind /\ b.life = j.life /\ b.token = j.token
<1> DEFINE b == Advanced(j, c)
<1>1. b.at = c /\ b.kind = j.kind /\ b.life = j.life /\ b.token = j.token
  BY StageMoves
<1>2. jobs' = (jobs \ {j}) \cup {b}
  BY DEF Moves, Advanced
<1>. QED  BY <1>1, <1>2

\* What is served keeps the course.
LEMMA ServeCourse ==
  ASSUME SessionTyped, Course, NEW j \in jobs, Serve(j)
  PROVE  Course'
<1>0. /\ UNCHANGED <<stored, status, token, screen, form, shown, life, left>>
      /\ \A i \in 1..Len(tokens) : tokens'[i] = tokens[i]
  BY ServeMoves
<1>1. PICK b : /\ jobs' = (jobs \ {j}) \cup {b} /\ b.kind = j.kind /\ b.life = j.life
               /\ \/ j.kind # "restore" /\ j.kind # "signOut" /\ b.at # "saved"
                  \/ /\ j.kind = "restore" /\ j.at = "asked" /\ b.token = j.token
                     /\ b.at \in {"welcome", "refused"} /\ tokens' = tokens
                     /\ b.at = "refused" => ~tokens[j.token].live
  BY ServeMoves
<1>2. RestoreAlone'
  <2>1. ASSUME NEW k \in jobs, k.kind = "restore", k.at \in {"refused", "clear"}
        PROVE  tokens'[k.token] = tokens[k.token]
    <3>1. k.token = stored /\ stored # 0 /\ stored \in 0..Len(tokens) /\ Len(tokens) \in Nat
      BY <2>1 DEF Course, RestoreAlone, SessionTyped, StoreTyped
    <3>. QED  BY <1>0, <3>1
  <2>. QED  BY <1>0, <1>1, <2>1 DEF Course, RestoreAlone
<1>3. FormsAfterRestore' /\ LeaveIsAsked' /\ SavedIsStored' /\ SessionIsKept'
  BY <1>0, <1>1 DEF Course, FormsAfterRestore, LeaveIsAsked, SavedIsStored, SessionIsKept, Alive
<1>. QED  BY <1>2, <1>3 DEF Course

\* What the provider does keeps the course.
LEMMA StepCourse ==
  ASSUME SessionTyped, Course, NEW j \in jobs, Step(j)
  PROVE  Course' /\ (stored # 0 /\ stored' = 0 => left \/ ~tokens[stored].live)
<1>0. /\ UNCHANGED <<accounts, tokens, screen, shown, life, submits, signOuts, left>> /\ Alive(j)
      /\ Sound(j) /\ j \in Job /\ status \in SessionStatuses
  BY StepMoves DEF SessionTyped, PhoneTyped, Sound
<1>1. /\ \A k \in jobs' : k \in jobs \ {j} \/ (k.kind = j.kind /\ k.life = j.life)
  BY StepMoves
<1>2. CASE LoadToken(j)
  <2>1. j.kind = "restore"
    BY <1>0, <1>2, KindsOfStages DEF LoadToken, RestoreJob
  <2>2. /\ stored' = stored /\ status = "restoring"
        /\ \/ jobs' = jobs \ {j} /\ status' = "anonymous"
           \/ /\ status' = status /\ stored # 0
              /\ \E b : jobs' = (jobs \ {j}) \cup {b} /\ b.at = "asked" /\ b.token = stored
                        /\ b.kind = j.kind /\ b.life = j.life
    <3>1. stored' = stored /\ status = "restoring"
      BY <1>2, <2>1 DEF LoadToken, Course, RestoreAlone
    <3>2. stored # 0 => \E b : b = Granted(j, stored, "asked") /\ b.at = "asked" /\ b.token = stored
                        /\ b.kind = j.kind /\ b.life = j.life
      BY <1>0, GrantMoves DEF SessionTyped, StoreTyped
    <3>. QED  BY <1>2, <3>1, <3>2 DEF LoadToken, Granted, Ends
  <2>. QED  BY <1>0, <2>1, <2>2
       DEF Course, RestoreAlone, FormsAfterRestore, LeaveIsAsked, SavedIsStored, SessionIsKept, Alive
<1>3. CASE Restored(j)
  <2>1. j.kind = "restore" /\ stored' = stored
    BY <1>3 DEF Restored
  <2>2. CASE j.at = "refused"
    <3>1. status' = status /\ Moves(j, "clear")
      BY <1>3, <2>2 DEF Restored, provider
    <3>2. PICK b : /\ jobs' = (jobs \ {j}) \cup {b} /\ b.at = "clear"
                   /\ b.kind = j.kind /\ b.life = j.life /\ b.token = j.token
      BY <1>0, <3>1, MovesOn
    <3>. QED  BY <1>0, <2>1, <2>2, <3>1, <3>2
         DEF Course, RestoreAlone, FormsAfterRestore, LeaveIsAsked, SavedIsStored, SessionIsKept, Alive
  <2>3. CASE j.at # "refused"
    <3>1. jobs' = jobs \ {j} /\ status' = IF j.at = "welcome" THEN "authenticated" ELSE "anonymous"
      BY <1>3, <2>3 DEF Restored, Ends
    <3>2. j.at = "welcome" => stored # 0
      BY <2>1 DEF Course, RestoreAlone
    <3>. QED  BY <1>0, <2>1, <3>1, <3>2
         DEF Course, RestoreAlone, FormsAfterRestore, LeaveIsAsked, SavedIsStored, SessionIsKept, Alive
  <2>. QED  BY <2>2, <2>3
<1>4. CASE ClearToken(j)
  <2>1. status' = status /\ stored' \in {stored, 0}
    BY <1>4 DEF ClearToken, provider
  <2>2. \E b : jobs' = (jobs \ {j}) \cup {b} /\ b.at = "cleared" /\ b.kind = j.kind /\ b.life = j.life
    <3>1. Moves(j, "cleared")
      BY <1>4 DEF ClearToken
    <3>. QED  BY <1>0, <3>1, MovesOn
  <2>3. CASE j.kind = "signOut"
    BY <1>0, <2>1, <2>2, <2>3
    DEF Course, RestoreAlone, FormsAfterRestore, LeaveIsAsked, SavedIsStored, SessionIsKept, Alive
  <2>4. CASE j.kind = "restore"
    <3>1. status = "restoring" /\ ~tokens[stored].live
      BY <1>4, <2>4 DEF ClearToken, Course, RestoreAlone
    <3>2. ASSUME NEW k \in jobs, Alive(k) PROVE k.at # "saved"
      <4>1. Sound(k)
        BY DEF SessionTyped
      <4>2. k.kind \notin {"login", "register"}
        BY <3>1, <3>2 DEF Course, FormsAfterRestore
      <4>3. k.at = "saved" => k \in FormJob
        BY <4>1, KindsOfStages DEF Sound
      <4>. QED  BY <4>2, <4>3 DEF FormJob
    <3>. QED  BY <1>0, <2>1, <2>2, <2>4, <3>1, <3>2
         DEF Course, RestoreAlone, FormsAfterRestore, LeaveIsAsked, SavedIsStored, SessionIsKept, Alive
  <2>. QED  BY <1>0, <1>4, <2>3, <2>4, KindsOfStages DEF ClearToken, RestoreJob, LeaveJob
<1>5. CASE SaveToken(j)
  <2>1. j \in FormJob /\ j.token # 0
    BY <1>0, <1>5, KindsOfStages DEF SaveToken, Sound
  <2>0. (Moves(j, "saved") /\ stored' = j.token) \/ (Moves(j, "failed") /\ stored' = stored)
    BY <1>5 DEF SaveToken
  <2>2. PICK c : /\ Moves(j, c)
                 /\ (c = "saved" /\ stored' = j.token) \/ (c = "failed" /\ stored' = stored)
    BY <2>0
  <2>3. PICK b : /\ jobs' = (jobs \ {j}) \cup {b} /\ b.at = c
                 /\ b.kind = j.kind /\ b.life = j.life /\ b.token = j.token
    BY <1>0, <2>2, MovesOn
  <2>4. status' = status /\ status # "restoring" /\ j.kind \in {"login", "register"}
    BY <1>0, <1>5, <2>1 DEF SaveToken, provider, FormJob, Course, FormsAfterRestore
  <2>. QED  BY <1>0, <2>1, <2>2, <2>3, <2>4
       DEF Course, RestoreAlone, FormsAfterRestore, LeaveIsAsked, SavedIsStored, SessionIsKept, Alive
<1>6. CASE Submitted(j)
  <2>1. jobs' = jobs \ {j} /\ stored' = stored /\ status # "restoring"
    BY <1>0, <1>6 DEF Submitted, Ends, Course, FormsAfterRestore
  <2>2. \/ status' = status
        \/ status' = "authenticated" /\ (~left => stored # 0)
    BY <1>0, <1>6 DEF Submitted, provider, Course, SavedIsStored
  <2>. QED  BY <1>0, <2>1, <2>2
       DEF Course, RestoreAlone, FormsAfterRestore, LeaveIsAsked, SavedIsStored, SessionIsKept, Alive
<1>7. CASE SignedOut(j)
  <2>1. jobs' = jobs \ {j} /\ stored' = stored /\ status # "restoring" /\ status' = "anonymous"
    BY <1>0, <1>7 DEF SignedOut, Ends, Course, LeaveIsAsked
  <2>. QED  BY <1>0, <2>1
       DEF Course, RestoreAlone, FormsAfterRestore, LeaveIsAsked, SavedIsStored, SessionIsKept, Alive
<1>. QED  BY <1>2, <1>3, <1>4, <1>5, <1>6, <1>7 DEF Step

\* What time and the network do keeps the course.
LEMMA FaultCourse ==
  ASSUME SessionTyped, Course,
         \/ \E j \in jobs : LoseRequest(j)
         \/ \E t \in DOMAIN tokens : Expire(t)
  PROVE  Course'
<1>1. ASSUME NEW j \in jobs, LoseRequest(j) PROVE Course'
  <2>1. UNCHANGED <<tokens, stored, status, shown, life, left>>
    BY <1>1, LossMoves
  <2>2. j \in Job /\ Sound(j)
    BY DEF SessionTyped, Sound
  <2>3. /\ Advanced(j, "failed").kind = j.kind /\ Advanced(j, "failed").life = j.life
        /\ Advanced(j, "failed").token = j.token /\ Advanced(j, "failed").at = "failed"
    BY <2>2, StageMoves
  <2>4. CASE j.kind = "restore"
    <3>1. jobs' = (jobs \ {j}) \cup {Advanced(j, "failed")}
      BY <1>1, <2>4, LossMoves DEF FormJob
    <3>2. j.at \in {"asked", "welcome", "refused"}
      <4>1. j \in RestoreJob
        BY <2>2, <2>4, KindsOfStages
      <4>. QED  BY <1>1, <4>1 DEF LoseRequest, RestoreJob, RestoreStages
    <3>. QED  BY <2>1, <2>3, <2>4, <3>1, <3>2
         DEF Course, RestoreAlone, FormsAfterRestore, LeaveIsAsked, SavedIsStored, SessionIsKept, Alive
  <2>5. CASE j.kind # "restore"
    <3>1. j \in FormJob /\ j.kind \in {"login", "register"}
      BY <1>1, <2>5, LossMoves DEF RestoreJob, FormJob
    <3>2. /\ Abandoned(j).kind = j.kind /\ Abandoned(j).life = Ghost /\ Abandoned(j).at = j.at
      BY <3>1, AbandonMoves
    <3>3. \A k \in jobs' : \/ k \in jobs
                           \/ k.kind \in {"login", "register"} /\ k.at = "failed" /\ k.life = j.life
                           \/ k.kind \in {"login", "register"} /\ k.life = Ghost
      BY <1>1, <2>3, <3>1, <3>2, LossMoves
    <3>4. life # Ghost
      BY DEF SessionTyped, PhoneTyped, Ghost
    <3>5. RestoreAlone' /\ LeaveIsAsked' /\ SessionIsKept'
      BY <2>1, <3>3 DEF Course, RestoreAlone, LeaveIsAsked, SessionIsKept
    <3>6. FormsAfterRestore' /\ SavedIsStored'
      BY <2>1, <3>1, <3>3, <3>4 DEF Course, FormsAfterRestore, SavedIsStored, Alive
    <3>. QED  BY <3>5, <3>6 DEF Course
  <2>. QED  BY <2>4, <2>5
<1>2. ASSUME NEW t \in DOMAIN tokens, Expire(t) PROVE Course'
  <2>1. UNCHANGED <<stored, status, shown, jobs, life, left>>
    BY <1>2 DEF Expire, provider
  <2>2. tokens \in Seq(Token) /\ t \in 1..Len(tokens) /\ tokens[t] \in Token /\ Len(tokens) \in Nat
    BY DEF SessionTyped, StoreTyped
  <2>3. tokens' = [tokens EXCEPT ![t] = [tokens[t] EXCEPT !.live = FALSE]]
    BY <1>2 DEF Expire
  <2>4. ~[tokens[t] EXCEPT !.live = FALSE].live
    BY <2>2 DEF Token
  <2>5. \A i \in 1..Len(tokens) : ~tokens[i].live => ~tokens'[i].live
    BY <2>2, <2>3, <2>4
  <2>6. stored \in 0..Len(tokens)
    BY DEF SessionTyped, StoreTyped
  <2>7. ASSUME NEW k \in jobs, k.kind = "restore", k.at \in {"refused", "clear"}
        PROVE  ~tokens'[k.token].live
    <3>1. k.token = stored /\ stored # 0 /\ ~tokens[k.token].live
      BY <2>7 DEF Course, RestoreAlone
    <3>. QED  BY <2>2, <2>5, <2>6, <3>1
  <2>8. RestoreAlone'
    BY <2>1, <2>7 DEF Course, RestoreAlone
  <2>9. FormsAfterRestore' /\ LeaveIsAsked' /\ SavedIsStored' /\ SessionIsKept'
    BY <2>1 DEF Course, FormsAfterRestore, LeaveIsAsked, SavedIsStored, SessionIsKept, Alive
  <2>. QED  BY <2>8, <2>9 DEF Course
<1>. QED  BY <1>1, <1>2

\* What the screens do, and a tap, keeps the course.
LEMMA ScreenCourse ==
  ASSUME SessionTyped, Course,
         CommitSession \/ SwitchForm \/ SignOut \/ Restart \/ \E e \in Emails : Submit(e)
  PROVE  Course'
<1>0. status \in SessionStatuses /\ life \in Nat /\ \A k \in jobs : Sound(k) /\ k \in Job
  BY DEF SessionTyped, PhoneTyped, Sound
<1>1. CASE CommitSession \/ SwitchForm
  <2>1. /\ UNCHANGED <<tokens, stored, status, jobs, life, left>>
        /\ shown' = shown \/ shown'.status = status
    BY <1>1 DEF CommitSession, SwitchForm, provider
  <2>. QED  BY <2>1
       DEF Course, RestoreAlone, FormsAfterRestore, LeaveIsAsked, SavedIsStored, SessionIsKept, Alive
<1>2. CASE SignOut
  <2>1. UNCHANGED <<tokens, stored, status, shown, life>> /\ left' = TRUE
    BY <1>2 DEF SignOut, provider
  <2>2. \A k \in jobs' : k \in jobs \/ (k.kind = "signOut" /\ k.at = "clear")
    <3>. DEFINE b == [kind |-> "signOut", n |-> signOuts', life |-> life, mount |-> 0,
                      email |-> "", token |-> 0, at |-> "clear"]
    <3>1. b.kind = "signOut" /\ b.at = "clear"
      OBVIOUS
    <3>2. jobs' = jobs \cup {b}
      BY <1>2, Zenon DEF SignOut
    <3>. HIDE DEF b
    <3>. QED  BY <3>1, <3>2
  <2>3. status # "restoring" /\ jobs \subseteq jobs'
    BY <1>2 DEF SignOut, Course, FormsAfterRestore
  <2>4. RestoreAlone' /\ FormsAfterRestore'
    BY <2>1, <2>2, <2>3 DEF Course, RestoreAlone, FormsAfterRestore, Alive
  <2>5. LeaveIsAsked' /\ SavedIsStored' /\ SessionIsKept'
    BY <2>1, <2>2, <2>3 DEF Course, LeaveIsAsked, SavedIsStored, SessionIsKept
  <2>. QED  BY <2>4, <2>5 DEF Course
<1>3. CASE Restart
  <2>1. /\ UNCHANGED <<tokens, stored>> /\ left' = FALSE /\ life' = life + 1
        /\ status' = "restoring" /\ shown'.status = "restoring"
    BY <1>3 DEF Restart
  <2>2. ASSUME NEW k \in jobs'
        PROVE  \/ k = Restore(life + 1)
               \/ k.kind \in {"login", "register"} /\ k.life = Ghost
    <3>1. k = Restore(life + 1) \/ \E j \in jobs : j.at \in {"sent", "hashed", "hashedTaken"} /\ k = Abandoned(j)
      BY <1>3, <2>2 DEF Restart, Abandoned
    <3>2. ASSUME NEW j \in jobs, j.at \in {"sent", "hashed", "hashedTaken"}, k = Abandoned(j)
          PROVE  k.kind \in {"login", "register"} /\ k.life = Ghost
      <4>1. j \in FormJob
        BY <1>0, <3>2, KindsOfStages
      <4>. QED  BY <3>2, <4>1, AbandonMoves DEF FormJob
    <3>. QED  BY <3>1, <3>2
  <2>3. Restore(life + 1).kind = "restore" /\ Restore(life + 1).at = "load"
    BY DEF Restore
  <2>4. life' # Ghost
    BY <1>0, <2>1 DEF Ghost
  <2>5. RestoreAlone'
    BY <2>1, <2>2, <2>3 DEF RestoreAlone
  <2>6. FormsAfterRestore' /\ LeaveIsAsked' /\ SavedIsStored' /\ SessionIsKept'
    BY <2>1, <2>2, <2>3, <2>4 DEF FormsAfterRestore, LeaveIsAsked, SavedIsStored, SessionIsKept, Alive
  <2>. QED  BY <2>5, <2>6 DEF Course
<1>4. ASSUME NEW e \in Emails, Submit(e) PROVE Course'
  <2>1. UNCHANGED <<tokens, stored, status, shown, life>>
    BY <1>4 DEF Submit, provider
  <2>2. left' <=> left /\ (status = "authenticated" \/ \E k \in jobs : Alive(k))
    BY <1>4 DEF Submit
  <2>3. \A k \in jobs' : k \in jobs \/ (k.kind \in {"login", "register"} /\ k.at = "sent")
    BY <1>4 DEF Submit, FormShown
  <2>4. status # "restoring" /\ jobs \subseteq jobs'
    BY <1>4 DEF Submit, FormShown, Course, FormsAfterRestore
  <2>5. RestoreAlone' /\ FormsAfterRestore'
    BY <2>1, <2>3, <2>4 DEF Course, RestoreAlone, FormsAfterRestore, Alive
  <2>6. \A k \in jobs : k.kind = "signOut" => Alive(k)
    BY <1>0 DEF Sound, FormJob, Alive
  <2>7. LeaveIsAsked'
    BY <2>1, <2>2, <2>3, <2>4, <2>6 DEF Course, LeaveIsAsked
  <2>8. SavedIsStored' /\ SessionIsKept'
    BY <2>1, <2>2, <2>3 DEF Course, SavedIsStored, SessionIsKept, Alive
  <2>. QED  BY <2>5, <2>7, <2>8 DEF Course
<1>. QED  BY <1>1, <1>2, <1>3, <1>4

\* Only User.create makes an account, and the index lets it.
LEMMA AccountsApart ==
  ASSUME SessionTyped, OneAccountPerEmail, [SessionNext]_sessionVars
  PROVE  OneAccountPerEmail'
<1>1. CASE accounts' = accounts
  BY <1>1 DEF OneAccountPerEmail
<1>2. ASSUME NEW j \in jobs, CreateUser(j), accounts' # accounts PROVE OneAccountPerEmail'
  <2>1. /\ accounts' = Append(accounts, j.email) /\ j \in FormJob
        /\ \A i \in DOMAIN accounts : accounts[i] # j.email
    BY <1>2, KindsOfStages DEF CreateUser, SessionTyped, Sound
  <2>2. accounts \in Seq(Emails) /\ j.email \in Emails /\ Len(accounts) \in Nat
    BY <2>1 DEF FormJob, SessionTyped, StoreTyped
  <2>3. /\ DOMAIN accounts' = 1..(Len(accounts) + 1) /\ DOMAIN accounts = 1..Len(accounts)
        /\ \A i \in 1..Len(accounts) : accounts'[i] = accounts[i]
        /\ accounts'[Len(accounts) + 1] = j.email
    BY <2>1, <2>2
  <2>4. ASSUME NEW i \in 1..(Len(accounts) + 1), NEW k \in 1..(Len(accounts) + 1),
               accounts'[i] = accounts'[k]
        PROVE  i = k
    BY <2>1, <2>2, <2>3, <2>4 DEF OneAccountPerEmail
  <2>. QED  BY <2>3, <2>4 DEF OneAccountPerEmail
<1>3. accounts' = accounts \/ \E j \in jobs : CreateUser(j)
  BY DEF SessionNext, sessionVars, Serve, HashPassword, ServeLogin, ServeMe, LoseRequest, Step,
     LoadToken, Restored, ClearToken, SaveToken, Submitted, SignedOut, Expire, Submit,
     CommitSession, SwitchForm, SignOut, Restart
<1>. QED  BY <1>1, <1>2, <1>3

\* The invariant of a session at its start.
LEMMA SessionStarts == SessionInit => SessionInv
<1> SUFFICES ASSUME SessionInit PROVE SessionInv
  OBVIOUS
<1>1. \A n \in Nat : /\ Restore(n) \in RestoreJob /\ Restore(n).life = n /\ Restore(n).kind = "restore"
                     /\ Restore(n).token = 0 /\ Restore(n).at = "load"
  BY DEF Restore, RestoreJob, RestoreStages
<1>2. NoForm \in Form
  BY DEF NoForm, Form
<1>3. StoreTyped /\ Len(tokens) = 0 /\ DOMAIN accounts = {}
  BY DEF SessionInit, StoreTyped
<1>4. PhoneTyped
  <2>1. token \in 0..Len(tokens) /\ life \in Nat /\ submits \in Nat /\ signOuts \in Nat
    BY <1>3 DEF SessionInit
  <2>2. status \in SessionStatuses /\ (status = "authenticated" <=> token # 0)
    BY DEF SessionInit, SessionStatuses
  <2>3. left \in BOOLEAN
    BY Zenon DEF SessionInit
  <2>. QED  BY <2>1, <2>2, <2>3 DEF PhoneTyped
<1>5. ScreenTyped
  BY <1>2 DEF SessionInit, ScreenTyped, SessionStatuses, Screens
<1>6. \A k \in jobs : Sound(k)
  BY <1>1, <1>3 DEF SessionInit, Sound, Job
<1>7. Course
  BY <1>1 DEF SessionInit, Course, RestoreAlone, FormsAfterRestore, LeaveIsAsked, SavedIsStored,
     SessionIsKept
<1>8. OneAccountPerEmail
  BY <1>3 DEF OneAccountPerEmail
<1>. QED  BY <1>3, <1>4, <1>5, <1>6, <1>7, <1>8 DEF SessionInv, SessionTyped

\* Every step of a session keeps its invariant, and empties the store for a reason.
LEMMA SessionGoesOn ==
  ASSUME SessionInv, [SessionNext]_sessionVars
  PROVE  SessionInv' /\ (stored # 0 /\ stored' = 0 => left \/ ~tokens[stored].live)
<1>0. SessionTyped /\ Course /\ RestoreAlone
  BY DEF SessionInv, Course
<1>1. SessionTyped' /\ OneAccountPerEmail'
  BY <1>0, SessionTypedKept, AccountsApart DEF SessionInv
<1>2. Course' /\ (stored # 0 /\ stored' = 0 => left \/ ~tokens[stored].live)
  <2>1. CASE UNCHANGED sessionVars
    <3>1. UNCHANGED <<tokens, stored, status, shown, jobs, life, left>>
      BY <2>1 DEF sessionVars, provider
    <3>. QED  BY <1>0, <3>1
         DEF Course, RestoreAlone, FormsAfterRestore, LeaveIsAsked, SavedIsStored, SessionIsKept, Alive
  <2>2. ASSUME NEW j \in jobs, Serve(j)
        PROVE  Course' /\ stored' = stored
    BY <1>0, <2>2, ServeCourse, ServeMoves
  <2>3. ASSUME NEW j \in jobs, Step(j)
        PROVE  Course' /\ (stored # 0 /\ stored' = 0 => left \/ ~tokens[stored].live)
    BY <1>0, <2>3, StepCourse
  <2>4. ASSUME NEW j \in jobs, LoseRequest(j) PROVE Course' /\ stored' = stored
    BY <1>0, <2>4, FaultCourse, LossMoves
  <2>5. ASSUME NEW t \in DOMAIN tokens, Expire(t) PROVE Course' /\ stored' = stored
    BY <1>0, <2>5, FaultCourse DEF Expire
  <2>6. ASSUME CommitSession \/ SwitchForm \/ SignOut \/ Restart \/ \E e \in Emails : Submit(e)
        PROVE  Course' /\ stored' = stored
    BY <1>0, <2>6, ScreenCourse DEF CommitSession, SwitchForm, SignOut, Restart, Submit
  <2>. QED  BY <2>1, <2>2, <2>3, <2>4, <2>5, <2>6 DEF SessionNext
<1>. QED  BY <1>1, <1>2 DEF SessionInv

\* The types of Session are among those of the proofs.
LEMMA SessionTypes == SessionTyped => SessionTypeOK
<1> SUFFICES ASSUME SessionTyped PROVE SessionTypeOK
  OBVIOUS
<1>1. \A i \in DOMAIN accounts : accounts[i] \in Emails
  BY DEF SessionTyped, StoreTyped
<1>2. \A i \in DOMAIN tokens : tokens[i].of \in DOMAIN accounts /\ tokens[i].live \in BOOLEAN
  <2>1. /\ tokens \in Seq(Token) /\ DOMAIN tokens = 1..Len(tokens) /\ Len(tokens) \in Nat
        /\ DOMAIN accounts = 1..Len(accounts)
    BY DEF SessionTyped, StoreTyped
  <2>2. \A i \in DOMAIN tokens : tokens[i] \in Token
    BY <2>1
  <2>3. \A i \in DOMAIN tokens : tokens[i].live \in BOOLEAN
    BY <2>2, Zenon DEF Token
  <2>4. \A i \in DOMAIN tokens : tokens[i].of \in DOMAIN accounts
    BY <2>1 DEF SessionTyped, StoreTyped
  <2>. QED  BY <2>3, <2>4
<1>3. {stored, token} \subseteq 0..Len(tokens) /\ status \in SessionStatuses
      /\ (status = "authenticated") = (token # 0)
  BY DEF SessionTyped, StoreTyped, PhoneTyped
<1>4. screen \in Screens /\ form.busy \in BOOLEAN
  BY DEF SessionTyped, ScreenTyped, Form
<1>5. \A j \in jobs : /\ j.life \in Ghost..life /\ j.token \in 0..Len(tokens)
                      /\ j.kind \in {"restore", "login", "register", "signOut"}
  <2>1. life \in Nat /\ \A j \in jobs : Sound(j)
    BY DEF SessionTyped, PhoneTyped
  <2>2. \A j \in jobs : j.life \in Ghost..life /\ j.token \in 0..Len(tokens)
    BY <2>1 DEF Sound, Ghost
  <2>3. \A j \in jobs : j.kind \in {"restore", "login", "register", "signOut"}
    BY <2>1 DEF Sound, Job, RestoreJob, FormJob, LeaveJob
  <2>. QED  BY <2>2, <2>3
<1>. QED  BY <1>1, <1>2, <1>3, <1>4, <1>5 DEF SessionTypeOK, SessionStatuses, Screens

----------------------------------------------------------------------------
(***************************************************************************)
(* What holds of UndoLedger for any number of runs, kills and unreachable  *)
(* databases: at every moment a kill may come, what is changed can be      *)
(* undone from what is on disk, and what a live run works on stays.        *)
(***************************************************************************)

(***************************************************************************)
(* The types: where a run of a kind may be.                                *)
(***************************************************************************)
Common == {"starting", "recovering", "ready", "leaving", "over"}
PlacesOf(driver) ==
  Common \cup IF driver = "session" THEN {"idle"}
              ELSE IF driver = "file" THEN {"copied", "guarded", "working", "waiting"}
              ELSE IF driver = "collection" THEN {"guarded", "working"}
              ELSE {"spawned", "guarded", "working"}

SomeRun == Runs \cup {NoRun}
RunRecord == [at : Places, does : Drivers, alive : BOOLEAN, todo : SUBSET Runs,
              spared : SUBSET Runs, failed : SUBSET Runs, inHand : SomeRun, child : SomeRun,
              measured : SomeRun]
World == [file : {"pristine", "torn", "patched"}, twin : {"gone", "made"}, port : SomeRun]
Mishaps == [kills : Nat, unreachable : Nat, overlap : BOOLEAN]

RunsTyped ==
  runs \in [Runs -> RunRecord] /\ \A p \in Runs : runs[p].at \in PlacesOf(runs[p].does)
LedgerTyped ==
  /\ RunsTyped
  /\ records \in [Runs -> {"none", "torn", "whole"}]
  /\ copies \in [Runs -> {"none", "torn", "pristine"}]
  /\ world \in World
  /\ mishaps \in Mishaps

(***************************************************************************)
(* The order of the runs.  Of those started by hand at most one is alive;  *)
(* the others alive are sessions, its own or left by a dead one.           *)
(***************************************************************************)
IdleLast ==
  /\ \E k \in 1..(MaxRuns + 1) : \A p \in Runs : runs[p].at = "idle" <=> k <= p
  /\ \A p \in Runs : runs[p].at = "idle" => runs[p] = Unstarted

OneAtATime ==
  \A p, q \in Runs : q < p /\ runs[p].alive /\ runs[q].alive =>
    runs[q].does = "session" \/ (runs[q].child = p /\ runs[q].at = "waiting")

ChildrenAreSessions ==
  \A r \in Runs : runs[r].child # NoRun =>
    /\ runs[r].does = "file" /\ runs[r].at \in {"waiting", "leaving", "over"}
    /\ r < runs[r].child /\ runs[runs[r].child].does = "session"
    /\ runs[runs[r].child].at # "idle"

LaterOnesAreSessions ==
  \A p, q \in Runs : p < q /\ runs[p].alive /\ runs[p].does # "session" => runs[q].does = "session"

Order == IdleLast /\ OneAtATime /\ ChildrenAreSessions /\ LaterOnesAreSessions

(***************************************************************************)
(* What the runs hold of each other.  Whoever is being recovered is dead,  *)
(* and stays so; what a run spared was its parent or came later.           *)
(***************************************************************************)
Gone(i) == ~runs[i].alive /\ runs[i].at # "idle"
HoldsTheDead(q, i) ==
  /\ i \in runs[q].todo => Gone(i)
  /\ i \in runs[q].spared => q < i \/ runs[i].child = q
  /\ i \in runs[q].failed => runs[i].does = "collection"
  /\ runs[q].inHand = i => (i = q /\ runs[q].at = "leaving") \/ (runs[q].at = "recovering" /\ Gone(i))
Hands == \A q, i \in Runs : HoldsTheDead(q, i)

(***************************************************************************)
(* What a run has on disk, by where it is.                                 *)
(***************************************************************************)
PaperOf(p) ==
  /\ runs[p].does = "session" => records[p] = "none" /\ copies[p] = "none"
  /\ runs[p].alive /\ runs[p].at \in {"starting", "recovering", "ready", "copied", "spawned"} =>
       records[p] = "none"
  /\ runs[p].alive /\ runs[p].at \in {"guarded", "working", "waiting"} => records[p] = "whole"
  /\ runs[p].alive => records[p] # "torn"
  /\ runs[p].does = "file" /\ runs[p].alive /\ runs[p].inHand = NoRun
     /\ (runs[p].at = "copied" \/ records[p] = "whole") => copies[p] # "none"
  /\ ~mishaps.overlap /\ (runs[p].alive \/ records[p] = "whole") => copies[p] # "torn"
Papers == \A p \in Runs : PaperOf(p)

(***************************************************************************)
(* How far a recovery is: whatever an earlier run left is before it, was   *)
(* spared or could not be undone, or asks for nothing any more.            *)
(***************************************************************************)
Settled(i) == records[i] # "whole" \/ (runs[i].does = "file" /\ copies[i] = "none")
Progress ==
  \A p, i \in Runs : runs[p].alive /\ runs[p].at # "starting" /\ i < p =>
    \/ i \in runs[p].spared \cup runs[p].failed \/ Settled(i)
    \/ runs[p].at = "recovering" /\ (i \in runs[p].todo \/ i = runs[p].inHand)

(***************************************************************************)
(* What is changed is on record, under a record that nobody has in hand.   *)
(***************************************************************************)
Unheld(i) == \A q \in Runs : runs[q].alive => runs[q].inHand # i
RestoresFile(m) ==
  records[m] = "whole" /\ runs[m].does = "file" /\ copies[m] = "pristine" /\ Unheld(m)
FileOnPaper ==
  world.file # "pristine" /\ ~mishaps.overlap => \E m \in Runs : RestoresFile(m)
DropsTwin(m) ==
  records[m] = "whole" /\ runs[m].does = "collection" /\ \A q \in Runs : runs[q].inHand # m
TwinOnPaper == world.twin = "made" => \E m \in Runs : DropsTwin(m)
PortOnPaper ==
  \A x \in Runs : world.port = x =>
    /\ runs[x].does \in {"api", "stock"} /\ runs[x].at \in {"spawned", "guarded", "working"}
    /\ runs[x].at # "spawned" => records[x] = "whole"
    /\ \A q \in Runs : runs[q].inHand # x

OnPaper == FileOnPaper /\ TwinOnPaper /\ PortOnPaper
MeasuredOnes ==
  \A p \in Runs :
    /\ runs[p].measured # NoRun => runs[p].does \in {"api", "stock"}
    /\ IsAt(p, "working") /\ runs[p].does \in {"api", "stock"} => runs[p].measured # NoRun
AtWork == LiveWorkStays /\ MeasuresItsOwn /\ MeasuredOnes

UndoInv == LedgerTyped /\ Order /\ Hands /\ Papers /\ Progress /\ OnPaper /\ AtWork

----------------------------------------------------------------------------
(***************************************************************************)
(* What a step does to the runs.                                           *)
(***************************************************************************)

\* A live run goes on, and nobody else.
Kept(p) ==
  /\ runs' \in [Runs -> RunRecord] /\ \A q \in Runs \ {p} : runs'[q] = runs[q]
  /\ runs[p].alive /\ runs'[p].does = runs[p].does /\ runs'[p].child = runs[p].child
Holds(p) ==
  /\ runs'[p].todo = runs[p].todo /\ runs'[p].spared = runs[p].spared
  /\ runs'[p].failed = runs[p].failed /\ runs'[p].inHand = runs[p].inHand
Goes(p, place) ==
  Kept(p) /\ Holds(p) /\ runs'[p].measured = runs[p].measured /\ runs'[p].alive /\ runs'[p].at = place
Dies(p) ==
  Kept(p) /\ Holds(p) /\ runs'[p].measured = runs[p].measured /\ ~runs'[p].alive
  /\ runs'[p].at = runs[p].at

\* The run started next is the first of those not started.
LEMMA NextIsFirst ==
  ASSUME RunsTyped, IdleLast, Idle # {}
  PROVE  NextRun \in Idle /\ \A other \in Idle : NextRun <= other
<1>1. PICK k \in 1..(MaxRuns + 1) : \A p \in Runs : runs[p].at = "idle" <=> k <= p
  BY DEF IdleLast
<1>2. k \in Runs
  BY <1>1, LedgerAssumption DEF Idle, Runs
<1>3. k \in Idle /\ \A other \in Idle : k <= other
  BY <1>1, <1>2, LedgerAssumption DEF Idle, Runs
<1>4. \E p \in Idle : \A other \in Idle : p <= other
  BY <1>3
<1>. QED  BY <1>4 DEF NextRun

\* Go moves a run, and changes nothing else.
LEMMA GoGoes ==
  ASSUME RunsTyped, NEW p \in Runs, NEW place \in Places, runs[p].alive, Go(p, place)
  PROVE  Goes(p, place)
<1>. DEFINE f == [runs[p] EXCEPT !.at = place]
<1>1. runs \in [Runs -> RunRecord] /\ runs[p] \in RunRecord
  BY DEF RunsTyped
<1>2. /\ f \in RunRecord /\ f.at = place /\ f.does = runs[p].does /\ f.child = runs[p].child
      /\ f.alive = runs[p].alive /\ f.todo = runs[p].todo /\ f.spared = runs[p].spared
      /\ f.failed = runs[p].failed /\ f.inHand = runs[p].inHand /\ f.measured = runs[p].measured
  BY <1>1 DEF RunRecord
<1>3. runs' = [runs EXCEPT ![p] = f]
  BY DEF Go, Put
<1>. HIDE DEF f
<1>. QED  BY <1>1, <1>2, <1>3 DEF Goes, Kept, Holds

\* A kill ends a run where it is.
LEMMA KilledDies ==
  ASSUME RunsTyped, NEW p \in Runs, runs[p].alive,
         Put(p, [runs[p] EXCEPT !.alive = FALSE])
  PROVE  Dies(p)
<1>. DEFINE f == [runs[p] EXCEPT !.alive = FALSE]
<1>1. runs \in [Runs -> RunRecord] /\ runs[p] \in RunRecord
  BY DEF RunsTyped
<1>2. /\ f \in RunRecord /\ ~f.alive /\ f.at = runs[p].at /\ f.does = runs[p].does
      /\ f.child = runs[p].child /\ f.todo = runs[p].todo /\ f.spared = runs[p].spared
      /\ f.failed = runs[p].failed /\ f.inHand = runs[p].inHand /\ f.measured = runs[p].measured
  BY <1>1 DEF RunRecord
<1>3. runs' = [runs EXCEPT ![p] = f]
  BY DEF Put
<1>. HIDE DEF f
<1>. QED  BY <1>1, <1>2, <1>3 DEF Dies, Kept, Holds

\* Exit and a failed connection end a run, over.
LEMMA OverDies ==
  ASSUME RunsTyped, NEW p \in Runs, runs[p].alive,
         Put(p, [runs[p] EXCEPT !.at = "over", !.alive = FALSE])
  PROVE  Kept(p) /\ Holds(p) /\ runs'[p].measured = runs[p].measured
         /\ ~runs'[p].alive /\ runs'[p].at = "over"
<1>. DEFINE f == [runs[p] EXCEPT !.at = "over", !.alive = FALSE]
<1>1. runs \in [Runs -> RunRecord] /\ runs[p] \in RunRecord
  BY DEF RunsTyped
<1>2. /\ f \in RunRecord /\ ~f.alive /\ f.at = "over" /\ f.does = runs[p].does
      /\ f.child = runs[p].child /\ f.todo = runs[p].todo /\ f.spared = runs[p].spared
      /\ f.failed = runs[p].failed /\ f.inHand = runs[p].inHand /\ f.measured = runs[p].measured
  BY <1>1 DEF RunRecord, Places
<1>3. runs' = [runs EXCEPT ![p] = f]
  BY DEF Put
<1>. HIDE DEF f
<1>. QED  BY <1>1, <1>2, <1>3 DEF Kept, Holds

\* A run that goes on to a place of its own keeps the order of all.
LEMMA OrderKept ==
  ASSUME RunsTyped, Order, NEW p \in Runs, Kept(p),
         runs'[p].at \in PlacesOf(runs[p].does), runs'[p].at # "idle",
         runs[p].child # NoRun => runs'[p].at \in {"waiting", "leaving", "over"},
         runs[p].at = "waiting" /\ runs'[p].alive =>
           runs'[p].at = "waiting" \/ ~runs[runs[p].child].alive
  PROVE  RunsTyped' /\ Order'
<1>1. RunsTyped'
  BY DEF RunsTyped, Kept
<1>2. runs[p].at # "idle"
  BY DEF Order, IdleLast, Unstarted, Kept
<1>3. IdleLast'
  <2>1. \A q \in Runs : runs'[q].at = "idle" <=> runs[q].at = "idle"
    BY <1>2 DEF Kept
  <2>2. \A q \in Runs : runs'[q].at = "idle" => runs'[q] = Unstarted
    BY <1>2 DEF Order, IdleLast, Kept
  <2>. QED  BY <2>1, <2>2 DEF Order, IdleLast
<1>4. \A q \in Runs : /\ runs'[q].does = runs[q].does /\ runs'[q].child = runs[q].child
                      /\ runs'[q].alive => runs[q].alive
                      /\ runs'[q].at = "idle" <=> runs[q].at = "idle"
  BY <1>2 DEF Kept
<1>5. OneAtATime'
  <2>1. ASSUME NEW r \in Runs, NEW q \in Runs, q < r, runs'[r].alive, runs'[q].alive
        PROVE  runs'[q].does = "session" \/ (runs'[q].child = r /\ runs'[q].at = "waiting")
    <3>1. runs[q].does = "session" \/ (runs[q].child = r /\ runs[q].at = "waiting")
      BY <1>4, <2>1 DEF Order, OneAtATime
    <3>. QED  BY <1>4, <2>1, <3>1 DEF Kept
  <2>. QED  BY <2>1 DEF OneAtATime
<1>6. ChildrenAreSessions'
  <2>1. ASSUME NEW r \in Runs, runs'[r].child # NoRun
        PROVE  /\ runs'[r].does = "file" /\ runs'[r].at \in {"waiting", "leaving", "over"}
               /\ r < runs'[r].child /\ runs'[runs'[r].child].does = "session"
               /\ runs'[runs'[r].child].at # "idle"
    <3>1. runs[r].child \in Runs
      BY <1>4, <2>1 DEF RunsTyped, RunRecord, SomeRun
    <3>. QED  BY <1>4, <2>1, <3>1 DEF Order, ChildrenAreSessions, Kept
  <2>. QED  BY <2>1 DEF ChildrenAreSessions
<1>7. LaterOnesAreSessions'
  BY <1>4 DEF Order, LaterOnesAreSessions
<1>. QED  BY <1>1, <1>3, <1>5, <1>6, <1>7 DEF Order

\* A run that starts is the last of all, and the only one but for orphans.
LEMMA StartKeepsOrder ==
  ASSUME RunsTyped, Order, Start
  PROVE  /\ RunsTyped' /\ Order'
         /\ NextRun \in Runs /\ runs[NextRun] = Unstarted
         /\ runs'[NextRun].at = "starting" /\ runs'[NextRun].alive
         /\ runs'[NextRun].todo = {} /\ runs'[NextRun].spared = {} /\ runs'[NextRun].failed = {}
         /\ runs'[NextRun].inHand = NoRun /\ runs'[NextRun].measured = NoRun
         /\ \A q \in Runs \ {NextRun} : runs'[q] = runs[q]
<1>. DEFINE n == NextRun
<1>1. n \in Idle /\ \A other \in Idle : n <= other
  BY NextIsFirst DEF Start, Order
<1>2. n \in Runs /\ runs[n].at = "idle" /\ runs[n] = Unstarted
  BY <1>1 DEF Idle, Order, IdleLast
<1>3. PICK driver \in Drivers : runs' = [runs EXCEPT ![n] = Beginning(driver)]
  BY DEF Start, Put
<1>. DEFINE b == Beginning(driver)
<1>4. /\ b \in RunRecord /\ b.at = "starting" /\ b.does = driver /\ b.alive /\ b.child = NoRun
      /\ b.todo = {} /\ b.spared = {} /\ b.failed = {} /\ b.inHand = NoRun /\ b.measured = NoRun
  BY DEF Beginning, Unstarted, RunRecord, Places, SomeRun
<1>5. b.at \in PlacesOf(b.does)
  BY <1>4 DEF PlacesOf, Common
<1>. HIDE DEF b, n
<1>6. /\ runs' \in [Runs -> RunRecord] /\ runs'[n] = b
      /\ \A q \in Runs \ {n} : runs'[q] = runs[q]
  BY <1>2, <1>3, <1>4 DEF RunsTyped, b
<1>7. RunsTyped'
  BY <1>4, <1>5, <1>6 DEF RunsTyped
<1>8. \A q \in Runs : runs[q].alive => runs[q].does = "session"
  BY DEF Start, Order, ChildrenAreSessions, NoRun, Runs
<1>9. \A q \in Runs : q < n => runs[q].at # "idle"
  BY <1>1, <1>2, LedgerAssumption DEF Idle, Runs
<1>10. \A q \in Runs : runs[q].at = "idle" => runs[q].does = "session" /\ ~runs[q].alive /\ runs[q].child = NoRun
  BY DEF Order, IdleLast, Unstarted
<1>11. \A q \in Runs : n <= q => runs[q].at = "idle"
  BY <1>2 DEF Order, IdleLast, Runs
<1>12. IdleLast'
  <2>1. n + 1 \in 1..(MaxRuns + 1) /\ \A q \in Runs : n + 1 <= q <=> n <= q /\ q # n
    BY <1>2, LedgerAssumption DEF Runs
  <2>2. \A q \in Runs : runs'[q].at = "idle" <=> n + 1 <= q
    BY <1>1, <1>4, <1>6, <1>9, <1>11, <2>1 DEF Runs, Idle
  <2>3. \A q \in Runs : runs'[q].at = "idle" => runs'[q] = Unstarted
    BY <1>4, <1>6 DEF Order, IdleLast
  <2>. QED  BY <2>1, <2>2, <2>3 DEF IdleLast
<1>13. OneAtATime'
  <2>1. ASSUME NEW r \in Runs, NEW q \in Runs, q < r, runs'[r].alive, runs'[q].alive
        PROVE  runs'[q].does = "session"
    <3>1. CASE q = n
      BY <1>2, <1>6, <1>10, <1>11, <2>1, <3>1 DEF Runs
    <3>2. CASE q # n
      BY <1>6, <1>8, <2>1, <3>2
    <3>. QED  BY <3>1, <3>2
  <2>. QED  BY <2>1 DEF OneAtATime
<1>14. ChildrenAreSessions'
  <2>1. ASSUME NEW r \in Runs, runs'[r].child # NoRun
        PROVE  /\ runs'[r].does = "file" /\ runs'[r].at \in {"waiting", "leaving", "over"}
               /\ r < runs'[r].child /\ runs'[runs'[r].child].does = "session"
               /\ runs'[runs'[r].child].at # "idle"
    <3>1. r # n /\ runs'[r] = runs[r] /\ runs[r].child \in Runs
      BY <1>4, <1>6, <2>1 DEF RunsTyped, RunRecord, SomeRun
    <3>2. runs[r].child # n
      BY <1>2, <2>1, <3>1 DEF Order, ChildrenAreSessions
    <3>. QED  BY <1>6, <2>1, <3>1, <3>2 DEF Order, ChildrenAreSessions
  <2>. QED  BY <2>1 DEF ChildrenAreSessions
<1>15. LaterOnesAreSessions'
  BY <1>2, <1>6, <1>8, <1>10, <1>11 DEF LaterOnesAreSessions, Runs
<1>. QED  BY <1>2, <1>4, <1>6, <1>7, <1>12, <1>13, <1>14, <1>15 DEF Order, n

\* A session that is driven is the last of all, and its parent waits for it.
LEMMA DriveKeepsOrder ==
  ASSUME RunsTyped, Order, NEW p \in Runs, DriveSession(p)
  PROVE  /\ RunsTyped' /\ Order' /\ p < NextRun
         /\ NextRun \in Runs /\ runs[NextRun] = Unstarted
         /\ runs'[NextRun].at = "starting" /\ runs'[NextRun].alive
         /\ runs'[NextRun].does = "session"
         /\ runs'[NextRun].todo = {} /\ runs'[NextRun].spared = {} /\ runs'[NextRun].failed = {}
         /\ runs'[NextRun].inHand = NoRun /\ runs'[NextRun].measured = NoRun
         /\ runs[p].alive /\ runs[p].at = "working" /\ runs'[p].at = "waiting" /\ runs'[p].alive
         /\ runs[p].does = "file" /\ runs'[p].does = "file" /\ runs[p].child = NoRun
         /\ runs'[p].child = NextRun
         /\ Holds(p) /\ runs'[p].measured = runs[p].measured
         /\ \A q \in Runs \ {p, NextRun} : runs'[q] = runs[q]
<1>. DEFINE n == NextRun
            f == [runs[p] EXCEPT !.at = "waiting", !.child = NextRun]
            b == Beginning("session")
<1>1. n \in Idle /\ \A other \in Idle : n <= other
  BY NextIsFirst DEF DriveSession, Order
<1>2. n \in Runs /\ runs[n].at = "idle" /\ runs[n] = Unstarted
  BY <1>1 DEF Idle, Order, IdleLast
<1>3. runs[p].alive /\ runs[p].at = "working" /\ runs[p].does = "file" /\ p # n
  BY <1>2 DEF DriveSession, IsAt, Does
<1>4. /\ b \in RunRecord /\ b.at = "starting" /\ b.does = "session" /\ b.alive /\ b.child = NoRun
      /\ b.todo = {} /\ b.spared = {} /\ b.failed = {} /\ b.inHand = NoRun /\ b.measured = NoRun
  BY DEF Beginning, Unstarted, RunRecord, Places, SomeRun, Drivers
<1>5. /\ f \in RunRecord /\ f.at = "waiting" /\ f.does = runs[p].does /\ f.alive = runs[p].alive
      /\ f.child = n /\ f.todo = runs[p].todo /\ f.spared = runs[p].spared
      /\ f.failed = runs[p].failed /\ f.inHand = runs[p].inHand /\ f.measured = runs[p].measured
  <2>1. runs[p] \in RunRecord /\ n \in SomeRun
    BY <1>2 DEF RunsTyped, SomeRun
  <2>. QED  BY <2>1 DEF RunRecord, Places
<1>6. runs' = [[runs EXCEPT ![n] = b] EXCEPT ![p] = f]
  BY DEF DriveSession
<1>. HIDE DEF f, b, n
<1>7. /\ runs' \in [Runs -> RunRecord] /\ runs'[n] = b /\ runs'[p] = f
      /\ \A q \in Runs \ {p, n} : runs'[q] = runs[q]
  BY <1>2, <1>3, <1>4, <1>5, <1>6 DEF RunsTyped
<1>8. b.at \in PlacesOf(b.does) /\ f.at \in PlacesOf(f.does)
  BY <1>3, <1>4, <1>5 DEF PlacesOf, Common
<1>9. RunsTyped'
  BY <1>7, <1>8 DEF RunsTyped
<1>10. runs[p].child = NoRun
  BY <1>3 DEF Order, ChildrenAreSessions
<1>11. \A q \in Runs : q < n => runs[q].at # "idle"
  BY <1>1, <1>2, LedgerAssumption DEF Idle, Runs
<1>12. \A q \in Runs : runs[q].at = "idle" => runs[q].does = "session" /\ ~runs[q].alive /\ runs[q].child = NoRun
  BY DEF Order, IdleLast, Unstarted
<1>13. \A q \in Runs : n <= q => runs[q].at = "idle"
  BY <1>2 DEF Order, IdleLast, Runs
<1>14. p < n
  BY <1>2, <1>3, <1>13 DEF Runs
<1>15. \A q \in Runs \ {p} : runs[q].alive => runs[q].does = "session"
  BY <1>3, <1>10 DEF Order, OneAtATime, ChildrenAreSessions, LaterOnesAreSessions, Runs, NoRun
<1>16. IdleLast'
  <2>1. n + 1 \in 1..(MaxRuns + 1) /\ \A q \in Runs : n + 1 <= q <=> n <= q /\ q # n
    BY <1>2, LedgerAssumption DEF Runs
  <2>2. \A q \in Runs : runs'[q].at = "idle" <=> n + 1 <= q
    BY <1>1, <1>3, <1>4, <1>5, <1>7, <1>11, <1>13, <1>14, <2>1 DEF Runs, Idle
  <2>3. \A q \in Runs : runs'[q].at = "idle" => runs'[q] = Unstarted
    BY <1>4, <1>5, <1>7 DEF Order, IdleLast
  <2>. QED  BY <2>1, <2>2, <2>3 DEF IdleLast
<1>17. OneAtATime'
  <2>1. ASSUME NEW r \in Runs, NEW q \in Runs, q < r, runs'[r].alive, runs'[q].alive
        PROVE  runs'[q].does = "session" \/ (runs'[q].child = r /\ runs'[q].at = "waiting")
    <3>1. CASE q = n
      BY <1>4, <1>7, <3>1
    <3>2. CASE q = p
      <4>1. r = n \/ (r # p /\ r # n /\ runs[r].alive)
        BY <1>7, <2>1, <3>2 DEF Runs
      <4>2. ~(r # p /\ r # n /\ runs[r].alive)
        BY <1>3, <1>10, <2>1, <3>2 DEF Order, OneAtATime, NoRun, Runs
      <4>. QED  BY <1>5, <1>7, <3>2, <4>1, <4>2
    <3>3. CASE q # n /\ q # p
      BY <1>7, <1>15, <2>1, <3>3
    <3>. QED  BY <3>1, <3>2, <3>3
  <2>. QED  BY <2>1 DEF OneAtATime
<1>18. ChildrenAreSessions'
  <2>1. ASSUME NEW r \in Runs, runs'[r].child # NoRun
        PROVE  /\ runs'[r].does = "file" /\ runs'[r].at \in {"waiting", "leaving", "over"}
               /\ r < runs'[r].child /\ runs'[runs'[r].child].does = "session"
               /\ runs'[runs'[r].child].at # "idle"
    <3>1. CASE r = p
      BY <1>2, <1>3, <1>4, <1>5, <1>7, <1>14, <3>1
    <3>2. CASE r # p
      <4>1. r # n /\ runs'[r] = runs[r] /\ runs[r].child \in Runs
        BY <1>4, <1>7, <2>1, <3>2 DEF RunsTyped, RunRecord, SomeRun
      <4>2. runs[r].child # n /\ runs[r].child # p
        BY <1>2, <1>3, <2>1, <4>1 DEF Order, ChildrenAreSessions
      <4>. QED  BY <1>7, <2>1, <4>1, <4>2 DEF Order, ChildrenAreSessions
    <3>. QED  BY <3>1, <3>2
  <2>. QED  BY <2>1 DEF ChildrenAreSessions
<1>19. LaterOnesAreSessions'
  <2>1. ASSUME NEW r \in Runs, NEW q \in Runs, r < q, runs'[r].alive, runs'[r].does # "session"
        PROVE  runs'[q].does = "session"
    <3>1. r = p
      BY <1>4, <1>7, <1>15, <2>1
    <3>2. q = n \/ (q # p /\ q # n)
      BY <2>1, <3>1 DEF Runs
    <3>. QED  BY <1>3, <1>4, <1>7, <2>1, <3>1, <3>2 DEF Order, LaterOnesAreSessions
  <2>. QED  BY <2>1 DEF LaterOnesAreSessions
<1>. QED  BY <1>2, <1>3, <1>4, <1>5, <1>7, <1>9, <1>10, <1>14, <1>16, <1>17, <1>18, <1>19
     DEF Order, n, Holds

(***************************************************************************)
(* Undoing.                                                                *)
(***************************************************************************)
Stands(p) == runs'[p].at = runs[p].at /\ runs'[p].alive /\ runs'[p].spared = runs[p].spared
TakesInHand(p, i) ==
  /\ Kept(p) /\ Stands(p) /\ runs'[p].failed = runs[p].failed
  /\ runs'[p].todo = runs[p].todo \ {i} /\ runs'[p].inHand = i
PassesOver(p, i) ==
  /\ Kept(p) /\ Stands(p) /\ runs'[p].failed = runs[p].failed
  /\ runs'[p].todo = runs[p].todo \ {i} /\ runs'[p].inHand = runs[p].inHand
FailsOn(p, i) ==
  /\ Kept(p) /\ Stands(p) /\ runs'[p].failed = runs[p].failed \cup {i}
  /\ runs'[p].todo = runs[p].todo \ {i} /\ runs'[p].inHand = runs[p].inHand
IsOver(p) == Kept(p) /\ Holds(p) /\ ~runs'[p].alive /\ runs'[p].at = "over"

\* The outcomes of UndoRecord: the change is undone and its record in hand, it
\* asks for nothing, or the database is out of reach.
LEMMA UndoMoves ==
  ASSUME RunsTyped, NEW p \in Runs, NEW i \in Runs, runs[p].alive, UndoRecord(p, i)
  PROVE  /\ UNCHANGED <<records, copies>> /\ runs'[p].measured = runs[p].measured
         /\ \/ /\ TakesInHand(p, i) /\ records[i] = "whole" /\ Undone(i).ok
               /\ world' = Undone(i).world /\ UNCHANGED mishaps
            \/ PassesOver(p, i) /\ Settled(i) /\ UNCHANGED <<world, mishaps>>
            \/ /\ FailsOn(p, i) /\ runs[i].does = "collection" /\ UNCHANGED world
               /\ mishaps' = [mishaps EXCEPT !.unreachable = mishaps.unreachable + 1]
            \/ /\ IsOver(p) /\ UNCHANGED world
               /\ mishaps' = [mishaps EXCEPT !.unreachable = mishaps.unreachable + 1]
<1>0. runs \in [Runs -> RunRecord] /\ runs[p] \in RunRecord
  BY DEF RunsTyped
<1>1. UNCHANGED <<records, copies>>
  BY DEF UndoRecord
<1>2. CASE /\ records[i] = "whole" /\ Undone(i).ok
           /\ world' = Undone(i).world /\ UNCHANGED mishaps
           /\ Put(p, [runs[p] EXCEPT !.todo = @ \ {i}, !.inHand = i])
  <2>. DEFINE f == [runs[p] EXCEPT !.todo = runs[p].todo \ {i}, !.inHand = i]
  <2>1. /\ f \in RunRecord /\ f.at = runs[p].at /\ f.does = runs[p].does /\ f.alive = runs[p].alive
        /\ f.todo = runs[p].todo \ {i} /\ f.spared = runs[p].spared /\ f.failed = runs[p].failed
        /\ f.inHand = i /\ f.child = runs[p].child /\ f.measured = runs[p].measured
    BY <1>0 DEF RunRecord, SomeRun
  <2>2. runs' = [runs EXCEPT ![p] = f]
    BY <1>2 DEF Put
  <2>. HIDE DEF f
  <2>3. TakesInHand(p, i) /\ runs'[p].measured = runs[p].measured
    BY <1>0, <2>1, <2>2 DEF TakesInHand, Kept, Stands
  <2>. QED  BY <1>1, <1>2, <2>3
<1>3. CASE /\ records[i] = "whole" => ~Undone(i).ok
           /\ Put(p, [runs[p] EXCEPT !.todo = @ \ {i}])
           /\ UNCHANGED <<world, mishaps>>
  <2>. DEFINE f == [runs[p] EXCEPT !.todo = runs[p].todo \ {i}]
  <2>1. /\ f \in RunRecord /\ f.at = runs[p].at /\ f.does = runs[p].does /\ f.alive = runs[p].alive
        /\ f.todo = runs[p].todo \ {i} /\ f.spared = runs[p].spared /\ f.failed = runs[p].failed
        /\ f.inHand = runs[p].inHand /\ f.child = runs[p].child /\ f.measured = runs[p].measured
    BY <1>0 DEF RunRecord
  <2>2. runs' = [runs EXCEPT ![p] = f]
    BY <1>3 DEF Put
  <2>. HIDE DEF f
  <2>3. PassesOver(p, i) /\ runs'[p].measured = runs[p].measured
    BY <1>0, <2>1, <2>2 DEF PassesOver, Kept, Stands
  <2>4. Settled(i)
    BY <1>3 DEF Settled, Undone, UndoneFile, UndoneCollection, UndoneProcess, Does
  <2>. QED  BY <1>1, <1>3, <2>3, <2>4
<1>4. CASE /\ records[i] = "whole" /\ Does(i, {"collection"})
           /\ mishaps' = [mishaps EXCEPT !.unreachable = @ + 1]
           /\ \/ Put(p, [runs[p] EXCEPT !.todo = @ \ {i}, !.failed = @ \cup {i}])
              \/ Put(p, [runs[p] EXCEPT !.at = "over", !.alive = FALSE])
           /\ UNCHANGED world
  <2>1. runs[i].does = "collection"
    BY <1>4 DEF Does
  <2>2. CASE Put(p, [runs[p] EXCEPT !.at = "over", !.alive = FALSE])
    BY <1>1, <1>4, <2>2, OverDies DEF IsOver
  <2>3. CASE Put(p, [runs[p] EXCEPT !.todo = @ \ {i}, !.failed = @ \cup {i}])
    <3>. DEFINE f == [runs[p] EXCEPT !.todo = runs[p].todo \ {i}, !.failed = runs[p].failed \cup {i}]
    <3>1. /\ f \in RunRecord /\ f.at = runs[p].at /\ f.does = runs[p].does /\ f.alive = runs[p].alive
          /\ f.todo = runs[p].todo \ {i} /\ f.spared = runs[p].spared
          /\ f.failed = runs[p].failed \cup {i} /\ f.inHand = runs[p].inHand
          /\ f.child = runs[p].child /\ f.measured = runs[p].measured
      BY <1>0 DEF RunRecord
    <3>2. runs' = [runs EXCEPT ![p] = f]
      BY <2>3 DEF Put
    <3>. HIDE DEF f
    <3>3. FailsOn(p, i) /\ runs'[p].measured = runs[p].measured
      BY <1>0, <3>1, <3>2 DEF FailsOn, Kept, Stands
    <3>. QED  BY <1>1, <1>4, <2>1, <3>3
  <2>. QED  BY <1>4, <2>2, <2>3
<1>. QED  BY <1>2, <1>3, <1>4 DEF UndoRecord

\* What undoing leaves of the world.
LEMMA UndoneWorld ==
  ASSUME LedgerTyped, NEW i \in Runs, Undone(i).ok, NEW w, w = Undone(i).world
  PROVE  /\ w \in World
         /\ runs[i].does = "file" =>
              copies[i] # "none" /\ w.file = copies[i] /\ w.twin = world.twin /\ w.port = world.port
         /\ runs[i].does = "collection" =>
              w.twin = "gone" /\ w.file = world.file /\ w.port = world.port
         /\ runs[i].does \notin {"file", "collection"} =>
              /\ w.twin = world.twin /\ w.file = world.file
              /\ w.port = IF world.port = i THEN NoRun ELSE world.port
<1>1. world \in World /\ copies[i] \in {"none", "torn", "pristine"}
  BY DEF LedgerTyped
<1>2. CASE runs[i].does = "file"
  <2>1. copies[i] # "none" /\ w = [world EXCEPT !.file = copies[i]]
    BY <1>2 DEF Undone, UndoneFile, Does
  <2>. QED  BY <1>1, <1>2, <2>1 DEF World
<1>3. CASE runs[i].does = "collection"
  <2>1. w = [world EXCEPT !.twin = "gone"]
    BY <1>3 DEF Undone, UndoneCollection, Does
  <2>. QED  BY <1>1, <1>3, <2>1 DEF World
<1>4. CASE runs[i].does \notin {"file", "collection"}
  <2>. DEFINE port == IF world.port = i THEN NoRun ELSE world.port
  <2>1. w = [world EXCEPT !.port = port]
    BY <1>4 DEF Undone, UndoneProcess, Does
  <2>2. port \in SomeRun
    BY <1>1 DEF World, SomeRun
  <2>. HIDE DEF port
  <2>3. w \in World /\ w.port = port /\ w.twin = world.twin /\ w.file = world.file
    BY <1>1, <2>1, <2>2 DEF World
  <2>. QED  BY <1>4, <2>3 DEF port
<1>. QED  BY <1>2, <1>3, <1>4

(***************************************************************************)
(* What each action does to the run that takes it.                         *)
(***************************************************************************)
Looks(p) ==
  /\ Kept(p) /\ runs'[p].at = "recovering" /\ runs'[p].alive
  /\ runs'[p].measured = runs[p].measured
  /\ runs'[p].failed = runs[p].failed /\ runs'[p].inHand = runs[p].inHand
  /\ runs'[p].spared = {i \in Runs : records[i] = "whole" /\ runs[i].alive}
  /\ runs'[p].todo = {i \in Runs : records[i] # "none" /\ ~(records[i] = "whole" /\ runs[i].alive)}
LetsGo(p) ==
  /\ Kept(p) /\ Stands(p) /\ runs'[p].failed = runs[p].failed
  /\ runs'[p].measured = runs[p].measured
  /\ runs'[p].todo = runs[p].todo /\ runs'[p].inHand = NoRun
Measures(p) ==
  /\ Kept(p) /\ Holds(p) /\ runs'[p].at = "working" /\ runs'[p].alive
  /\ runs'[p].measured = world.port

\* LookForLeftovers sees who is alive among those on record.
LEMMA LookLooks ==
  ASSUME RunsTyped, NEW p \in Runs, LookForLeftovers(p)
  PROVE  Looks(p)
<1>. DEFINE spared == {i \in Runs : records[i] = "whole" /\ runs[i].alive}
            todo == {i \in Runs : records[i] # "none" /\ ~(records[i] = "whole" /\ runs[i].alive)}
            f == [runs[p] EXCEPT !.at = "recovering", !.todo = todo, !.spared = spared]
<1>0. runs \in [Runs -> RunRecord] /\ runs[p] \in RunRecord /\ runs[p].alive
  BY DEF RunsTyped, LookForLeftovers, IsAt
<1>1. runs' = [runs EXCEPT ![p] = f]
  <2>. DEFINE there == {i \in Runs : records[i] # "none"}
              kept == {i \in there : records[i] = "whole" /\ OwnerAlive(i)}
  <2>1. kept = spared
    BY DEF OwnerAlive
  <2>2. there \ kept = todo
    BY DEF OwnerAlive
  <2>3. runs' = [runs EXCEPT ![p] = [runs[p] EXCEPT !.at = "recovering", !.todo = there \ kept,
                                                    !.spared = kept]]
    BY DEF LookForLeftovers, Put
  <2>. QED  BY <2>1, <2>2, <2>3
<1>2. spared \subseteq Runs /\ todo \subseteq Runs
  OBVIOUS
<1>. HIDE DEF spared, todo
<1>3. /\ f \in RunRecord /\ f.at = "recovering" /\ f.does = runs[p].does /\ f.alive = runs[p].alive
      /\ f.todo = todo /\ f.spared = spared /\ f.failed = runs[p].failed
      /\ f.inHand = runs[p].inHand /\ f.child = runs[p].child /\ f.measured = runs[p].measured
  BY <1>0, <1>2 DEF RunRecord, Places
<1>. HIDE DEF f
<1>4. /\ Kept(p) /\ runs'[p].at = "recovering" /\ runs'[p].alive
      /\ runs'[p].failed = runs[p].failed /\ runs'[p].inHand = runs[p].inHand
      /\ runs'[p].spared = spared /\ runs'[p].todo = todo
      /\ runs'[p].measured = runs[p].measured
  BY <1>0, <1>1, <1>3 DEF Kept
<1>. QED  BY <1>4 DEF Looks, spared, todo

\* ReleaseRecord ends with empty hands.
LEMMA ReleaseLetsGo ==
  ASSUME RunsTyped, NEW p \in Runs, ReleaseRecord(p)
  PROVE  LetsGo(p)
<1>. DEFINE f == [runs[p] EXCEPT !.inHand = NoRun]
<1>0. runs \in [Runs -> RunRecord] /\ runs[p] \in RunRecord /\ runs[p].alive
  BY DEF RunsTyped, ReleaseRecord
<1>1. runs' = [runs EXCEPT ![p] = f]
  BY DEF ReleaseRecord, Put
<1>2. /\ f \in RunRecord /\ f.at = runs[p].at /\ f.does = runs[p].does /\ f.alive = runs[p].alive
      /\ f.todo = runs[p].todo /\ f.spared = runs[p].spared /\ f.failed = runs[p].failed
      /\ f.inHand = NoRun /\ f.child = runs[p].child /\ f.measured = runs[p].measured
  BY <1>0 DEF RunRecord, SomeRun
<1>. HIDE DEF f
<1>. QED  BY <1>0, <1>1, <1>2 DEF LetsGo, Kept, Stands

\* AwaitServer measures whoever holds the port, or gives up.
LEMMA AwaitMeasures ==
  ASSUME LedgerTyped, NEW p \in Runs, AwaitServer(p)
  PROVE  (world.port = NoRun /\ Goes(p, "leaving")) \/ (world.port # NoRun /\ Measures(p))
<1>0. /\ runs \in [Runs -> RunRecord] /\ runs[p] \in RunRecord /\ runs[p].alive
      /\ world.port \in SomeRun /\ RunsTyped
  BY DEF LedgerTyped, RunsTyped, AwaitServer, IsAt, World
<1>1. CASE world.port = NoRun
  <2>1. Go(p, "leaving") /\ "leaving" \in Places
    BY <1>1 DEF AwaitServer, Go, Places
  <2>. QED  BY <1>0, <1>1, <2>1, GoGoes
<1>2. CASE world.port # NoRun
  <2>. DEFINE f == [runs[p] EXCEPT !.at = "working", !.measured = world.port]
  <2>1. runs' = [runs EXCEPT ![p] = f]
    BY <1>2 DEF AwaitServer, Put
  <2>2. /\ f \in RunRecord /\ f.at = "working" /\ f.does = runs[p].does /\ f.alive = runs[p].alive
        /\ f.todo = runs[p].todo /\ f.spared = runs[p].spared /\ f.failed = runs[p].failed
        /\ f.inHand = runs[p].inHand /\ f.child = runs[p].child /\ f.measured = world.port
    BY <1>0 DEF RunRecord, Places
  <2>. HIDE DEF f
  <2>. QED  BY <1>0, <1>2, <2>1, <2>2 DEF Measures, Kept, Holds
<1>. QED  BY <1>1, <1>2

\* The other actions move a run to a place, or end it.
LEMMA StepsGo ==
  ASSUME RunsTyped, NEW p \in Runs
  PROVE  /\ Recovered(p) => Goes(p, "ready")
         /\ CopyAside(p) => Goes(p, IF world.file = "patched" THEN "over" ELSE "copied")
         /\ Spawn(p) => Goes(p, "spawned")
         /\ Guard(p) => Goes(p, "guarded")
         /\ Patch(p) => Goes(p, "working")
         /\ MakeTwin(p) => Goes(p, "working") \/ IsOver(p)
         /\ SessionEnds(p) => Goes(p, "leaving")
         /\ Finish(p) => Goes(p, "leaving")
         /\ Exit(p) => IsOver(p)
         /\ Kill(p) => Dies(p)
         /\ KillWriting(p) => Dies(p)
<1>1. \A place \in Places : runs[p].alive /\ Go(p, place) => Goes(p, place)
  BY GoGoes
<1>2. {"ready", "over", "copied", "spawned", "guarded", "working", "leaving"} \subseteq Places
  BY DEF Places
<1>3. Recovered(p) => Goes(p, "ready")
  BY <1>1, <1>2 DEF Recovered, IsAt
<1>4. CopyAside(p) => Goes(p, IF world.file = "patched" THEN "over" ELSE "copied")
  BY <1>1, <1>2 DEF CopyAside, IsAt
<1>5. Spawn(p) => Goes(p, "spawned")
  BY <1>1, <1>2 DEF Spawn, IsAt
<1>6. Guard(p) => Goes(p, "guarded")
  BY <1>1, <1>2 DEF Guard, IsAt
<1>7. Patch(p) => Goes(p, "working")
  BY <1>1, <1>2 DEF Patch, IsAt
<1>8. MakeTwin(p) => Goes(p, "working") \/ IsOver(p)
  <2>1. MakeTwin(p) => runs[p].alive /\ (Go(p, "working") \/ Put(p, [runs[p] EXCEPT !.at = "over", !.alive = FALSE]))
    BY DEF MakeTwin, IsAt
  <2>. QED  BY <1>1, <1>2, <2>1, OverDies DEF IsOver
<1>9. SessionEnds(p) => Goes(p, "leaving")
  BY <1>1, <1>2 DEF SessionEnds, IsAt
<1>10. Finish(p) => Goes(p, "leaving")
  BY <1>1, <1>2 DEF Finish, IsAt
<1>11. Exit(p) => IsOver(p)
  BY OverDies DEF Exit, IsAt, IsOver
<1>12. Kill(p) => Dies(p)
  BY KilledDies DEF Kill, Killed
<1>13. KillWriting(p) => Dies(p)
  BY KilledDies DEF KillWriting, Killed
<1>. QED  BY <1>3, <1>4, <1>5, <1>6, <1>7, <1>8, <1>9, <1>10, <1>11, <1>12, <1>13

(***************************************************************************)
(* The order of the runs and what they hold of each other.                 *)
(***************************************************************************)

\* Whatever a run does, the order of all is kept.
LEMMA RunsKeepOrder ==
  ASSUME LedgerTyped, Order, NEW p \in Runs, RunStep(p) \/ Kill(p) \/ KillWriting(p)
  PROVE  RunsTyped' /\ Order'
<1>0. /\ RunsTyped /\ runs[p].at \in PlacesOf(runs[p].does)
      /\ runs[p].child # NoRun => runs[p].at \in {"waiting", "leaving", "over"}
      /\ runs[p].alive => runs[p].at # "idle"
  BY DEF LedgerTyped, RunsTyped, Order, ChildrenAreSessions, IdleLast, Unstarted
<1>1. CASE ReleaseCopy(p)
  <2>1. runs' = runs
    BY <1>1 DEF ReleaseCopy
  <2>. QED  BY <1>0, <2>1 DEF RunsTyped, Order, IdleLast, OneAtATime, ChildrenAreSessions, LaterOnesAreSessions
<1>2. CASE DriveSession(p)
  BY <1>0, <1>2, DriveKeepsOrder
<1>3. ASSUME Kept(p), runs'[p].at = runs[p].at \/ runs'[p].at = "over" \/ ~runs'[p].alive,
             runs'[p].at \in {runs[p].at, "over"}, runs[p].at = "waiting" => runs'[p].at = "waiting" \/ ~runs'[p].alive
      PROVE  RunsTyped' /\ Order'
  <2>1. runs'[p].at \in PlacesOf(runs[p].does) /\ runs'[p].at # "idle"
    BY <1>0, <1>3 DEF Kept, PlacesOf, Common
  <2>2. runs[p].child # NoRun => runs'[p].at \in {"waiting", "leaving", "over"}
    BY <1>0, <1>3
  <2>. QED  BY <1>0, <1>3, <2>1, <2>2, OrderKept
<1>4. CASE UndoOwn(p)
  <2>1. UndoRecord(p, p) /\ runs[p].alive /\ runs[p].at = "leaving"
    BY <1>4 DEF UndoOwn, IsAt
  <2>2. TakesInHand(p, p) \/ PassesOver(p, p) \/ FailsOn(p, p) \/ IsOver(p)
    BY <1>0, <2>1, UndoMoves
  <2>3. Kept(p) /\ runs'[p].at \in {runs[p].at, "over"}
    BY <2>2 DEF TakesInHand, PassesOver, FailsOn, IsOver, Stands
  <2>. QED  BY <1>3, <2>1, <2>3
<1>5. CASE Recover(p)
  <2>1. PICK i \in runs[p].todo : UndoRecord(p, i)
    BY <1>5 DEF Recover
  <2>2. i \in Runs /\ runs[p].alive /\ runs[p].at = "recovering"
    BY <1>0, <1>5 DEF Recover, IsAt, RunsTyped, RunRecord
  <2>3. TakesInHand(p, i) \/ PassesOver(p, i) \/ FailsOn(p, i) \/ IsOver(p)
    BY <1>0, <2>1, <2>2, UndoMoves
  <2>4. Kept(p) /\ runs'[p].at \in {runs[p].at, "over"}
    BY <2>3 DEF TakesInHand, PassesOver, FailsOn, IsOver, Stands
  <2>. QED  BY <1>3, <2>2, <2>4
<1>6. CASE ReleaseRecord(p)
  BY <1>0, <1>3, <1>6, ReleaseLetsGo DEF LetsGo, Stands
<1>7. CASE Exit(p) \/ Kill(p) \/ KillWriting(p)
  BY <1>0, <1>3, <1>7, StepsGo DEF IsOver, Dies
<1>8. ASSUME Kept(p), runs[p].at \notin {"waiting", "leaving", "over"},
             runs'[p].at \in PlacesOf(runs[p].does), runs'[p].at # "idle"
      PROVE  RunsTyped' /\ Order'
  BY <1>0, <1>8, OrderKept
<1>9. CASE LookForLeftovers(p)
  <2>1. runs[p].at = "starting" /\ Kept(p) /\ runs'[p].at = "recovering"
    BY <1>0, <1>9, LookLooks DEF Looks, LookForLeftovers, IsAt
  <2>. QED  BY <1>8, <2>1 DEF PlacesOf, Common
<1>10. CASE AwaitServer(p)
  <2>1. runs[p].at = "guarded" /\ Kept(p) /\ runs'[p].at \in {"leaving", "working"}
        /\ runs[p].does \in {"api", "stock"}
    BY <1>10, AwaitMeasures DEF Goes, Measures, AwaitServer, IsAt, Does
  <2>. QED  BY <1>8, <2>1 DEF PlacesOf, Common
<1>11. CASE Recovered(p) \/ CopyAside(p) \/ Spawn(p)
  <2>1. Kept(p) /\ \/ runs[p].at = "recovering" /\ runs'[p].at = "ready"
                   \/ runs[p].at = "ready" /\ runs[p].does = "file" /\ runs'[p].at \in {"over", "copied"}
                   \/ runs[p].at = "ready" /\ runs[p].does \in {"api", "stock"} /\ runs'[p].at = "spawned"
    BY <1>0, <1>11, StepsGo DEF Goes, Recovered, CopyAside, Spawn, IsAt, Does
  <2>2. runs[p].at \notin {"waiting", "leaving", "over"}
    BY <2>1
  <2>3. runs'[p].at \in PlacesOf(runs[p].does) /\ runs'[p].at # "idle"
    BY <2>1 DEF PlacesOf, Common
  <2>. QED  BY <1>8, <2>1, <2>2, <2>3
<1>12. CASE Guard(p)
  <2>1. Kept(p) /\ runs'[p].at = "guarded"
        /\ \/ runs[p].at = "copied" /\ runs[p].does = "file"
           \/ runs[p].at = "ready" /\ runs[p].does = "collection"
           \/ runs[p].at = "spawned" /\ runs[p].does \in {"api", "stock"}
    <3>1. runs[p].at = BeforeGuard(p) /\ BeforeGuard(p) # "never"
      BY <1>0, <1>12 DEF Guard, IsAt, PlacesOf, Common
    <3>. QED  BY <1>0, <1>12, <3>1, StepsGo DEF Goes, BeforeGuard, Does
  <2>. QED  BY <1>8, <2>1 DEF PlacesOf, Common
<1>13. CASE Patch(p) \/ MakeTwin(p)
  <2>1. runs[p].at = "guarded" /\ runs[p].does \in {"file", "collection"} /\ Kept(p)
        /\ runs'[p].at \in {"working", "over"}
    BY <1>0, <1>13, StepsGo DEF Goes, IsOver, Patch, MakeTwin, IsAt, Does
  <2>. QED  BY <1>8, <2>1 DEF PlacesOf, Common
<1>14. CASE Finish(p)
  <2>1. runs[p].at \in {"working", "ready"} /\ Kept(p) /\ runs'[p].at = "leaving"
    BY <1>0, <1>14, StepsGo DEF Goes, Finish, IsAt
  <2>. QED  BY <1>8, <2>1 DEF PlacesOf, Common
<1>15. CASE SessionEnds(p)
  <2>1. Kept(p) /\ runs[p].at = "waiting" /\ runs'[p].at = "leaving" /\ ~runs[runs[p].child].alive
    BY <1>0, <1>15, StepsGo DEF Goes, SessionEnds, IsAt
  <2>2. runs'[p].at \in PlacesOf(runs[p].does)
    BY <2>1 DEF PlacesOf, Common
  <2>. QED  BY <1>0, <2>1, <2>2, OrderKept
<1>. QED  BY <1>1, <1>2, <1>4, <1>5, <1>6, <1>7, <1>9, <1>10, <1>11, <1>12, <1>13, <1>14, <1>15
     DEF RunStep

\* A run whose hands hold only the dead keeps what all hold.
LEMMA HandsKept ==
  ASSUME Order, Hands, NEW p \in Runs, Kept(p), runs'[p].at # "idle",
         \A i \in Runs : i \in runs'[p].todo => Gone(i),
         \A i \in Runs : i \in runs'[p].spared => p < i \/ runs[i].child = p,
         \A i \in Runs : i \in runs'[p].failed => runs[i].does = "collection",
         \A i \in Runs : runs'[p].inHand = i =>
           (i = p /\ runs'[p].at = "leaving") \/ (runs'[p].at = "recovering" /\ Gone(i))
  PROVE  Hands'
<1>1. \A i \in Runs : Gone(i) => Gone(i)'
  BY DEF Gone, Kept
<1>2. \A i \in Runs : runs'[i].child = runs[i].child /\ runs'[i].does = runs[i].does
  BY DEF Kept
<1>3. ASSUME NEW q \in Runs, NEW i \in Runs PROVE HoldsTheDead(q, i)'
  <2>1. CASE q = p
    BY <1>1, <1>2, <2>1 DEF HoldsTheDead
  <2>2. CASE q # p
    <3>1. runs'[q] = runs[q] /\ HoldsTheDead(q, i)
      BY <2>2 DEF Kept, Hands
    <3>. QED  BY <1>1, <1>2, <3>1 DEF HoldsTheDead
  <2>. QED  BY <2>1, <2>2
<1>. QED  BY <1>3 DEF Hands

\* Whatever a run does, it holds only the dead.
LEMMA RunsKeepHands ==
  ASSUME LedgerTyped, Order, Hands, Papers, NEW p \in Runs,
         RunStep(p) \/ Kill(p) \/ KillWriting(p), ~DriveSession(p)
  PROVE  Hands'
<1>0. /\ RunsTyped /\ (runs[p].alive => runs[p].at # "idle")
      /\ NoRun \notin Runs /\ \A i \in Runs : HoldsTheDead(p, i)
  BY DEF LedgerTyped, Order, IdleLast, Unstarted, Hands, NoRun, Runs
<1>1. ASSUME Kept(p), Holds(p), runs'[p].at # "idle",
             runs'[p].at = runs[p].at \/ \A i \in Runs : runs[p].inHand # i
      PROVE  Hands'
  BY <1>0, <1>1, HandsKept DEF Holds, HoldsTheDead
<1>2. runs[p].at \notin {"leaving", "recovering"} => \A i \in Runs : runs[p].inHand # i
  BY <1>0 DEF HoldsTheDead
<1>3. runs[p].inHand = NoRun => \A i \in Runs : runs[p].inHand # i
  BY <1>0
<1>4. CASE ReleaseCopy(p)
  <2>1. runs' = runs
    BY <1>4 DEF ReleaseCopy
  <2>. QED  BY <2>1 DEF Hands, HoldsTheDead, Gone
<1>5. CASE LookForLeftovers(p)
  <2>1. Looks(p) /\ runs[p].at = "starting" /\ runs[p].alive /\ runs'[p].at = "recovering"
    BY <1>0, <1>5, LookLooks DEF LookForLeftovers, IsAt, Looks
  <2>2. \A i \in Runs : records[i] # "none" => runs[i].at # "idle"
    BY DEF Papers, PaperOf, Order, IdleLast, Unstarted
  <2>3. \A i \in runs'[p].todo : Gone(i)
    <3>1. \A i \in Runs : records[i] \in {"none", "torn", "whole"}
      BY DEF LedgerTyped
    <3>2. \A i \in runs'[p].todo : i \in Runs /\ records[i] # "none" /\ ~runs[i].alive
      BY <2>1, <3>1 DEF Looks, Papers, PaperOf
    <3>. QED  BY <2>2, <3>2 DEF Gone
  <2>4. \A i \in runs'[p].spared : p < i \/ runs[i].child = p
    <3>1. ASSUME NEW i \in runs'[p].spared PROVE p < i \/ runs[i].child = p
      <4>1. i \in Runs /\ records[i] = "whole" /\ runs[i].alive
        BY <2>1, <3>1 DEF Looks
      <4>2. i # p /\ runs[i].does # "session"
        BY <2>1, <4>1 DEF Papers, PaperOf
      <4>. QED  BY <2>1, <4>1, <4>2 DEF Order, OneAtATime, Runs
    <3>. QED  BY <3>1
  <2>. QED  BY <1>0, <1>2, <2>1, <2>3, <2>4, HandsKept DEF Looks, HoldsTheDead
<1>6. ASSUME NEW i \in Runs, runs[p].alive, UndoRecord(p, i), runs[p].inHand = NoRun,
             \/ runs[p].at = "recovering" /\ Gone(i)
             \/ runs[p].at = "leaving" /\ i = p
      PROVE  Hands'
  <2>1. TakesInHand(p, i) \/ PassesOver(p, i) \/ (FailsOn(p, i) /\ runs[i].does = "collection") \/ IsOver(p)
    BY <1>0, <1>6, UndoMoves
  <2>2. CASE IsOver(p)
    BY <1>1, <1>3, <1>6, <2>2 DEF IsOver
  <2>3. CASE TakesInHand(p, i) \/ PassesOver(p, i) \/ (FailsOn(p, i) /\ runs[i].does = "collection")
    <3>1. /\ Kept(p) /\ runs'[p].at = runs[p].at /\ runs'[p].spared = runs[p].spared
          /\ runs'[p].todo \subseteq runs[p].todo
          /\ runs'[p].inHand = i \/ runs'[p].inHand = NoRun
          /\ \A k \in Runs : k \in runs'[p].failed => runs[k].does = "collection"
      BY <1>0, <1>6, <2>3 DEF TakesInHand, PassesOver, FailsOn, Stands, HoldsTheDead
    <3>2. runs'[p].at # "idle"
      BY <1>6, <3>1
    <3>3. \A k \in Runs : k \in runs'[p].todo => Gone(k)
      BY <1>0, <3>1 DEF HoldsTheDead
    <3>4. \A k \in Runs : k \in runs'[p].spared => p < k \/ runs[k].child = p
      BY <1>0, <3>1 DEF HoldsTheDead
    <3>5. \A k \in Runs : runs'[p].inHand = k =>
            (k = p /\ runs'[p].at = "leaving") \/ (runs'[p].at = "recovering" /\ Gone(k))
      BY <1>0, <1>6, <3>1
    <3>. QED  BY <3>1, <3>2, <3>3, <3>4, <3>5, HandsKept
  <2>. QED  BY <2>1, <2>2, <2>3
<1>7. CASE Recover(p)
  <2>1. PICK i \in runs[p].todo : UndoRecord(p, i)
    BY <1>7 DEF Recover
  <2>2. i \in Runs /\ runs[p].alive /\ runs[p].at = "recovering" /\ runs[p].inHand = NoRun
    BY <1>0, <1>7 DEF Recover, IsAt, RunsTyped, RunRecord
  <2>. QED  BY <1>0, <1>6, <2>1, <2>2 DEF HoldsTheDead
<1>8. CASE UndoOwn(p)
  BY <1>6, <1>8 DEF UndoOwn, IsAt
<1>9. CASE ReleaseRecord(p)
  <2>1. LetsGo(p)
    BY <1>0, <1>9, ReleaseLetsGo
  <2>2. runs'[p].at # "idle"
    BY <1>0, <2>1 DEF LetsGo, Stands, Kept
  <2>. QED  BY <1>0, <2>1, <2>2, HandsKept DEF LetsGo, Stands, HoldsTheDead
<1>10. CASE AwaitServer(p)
  <2>1. Goes(p, "leaving") \/ Measures(p)
    BY <1>10, AwaitMeasures
  <2>2. runs[p].at = "guarded"
    BY <1>10 DEF AwaitServer, IsAt
  <2>. QED  BY <1>1, <1>2, <2>1, <2>2 DEF Goes, Measures
<1>11. CASE Recovered(p)
  BY <1>0, <1>1, <1>3, <1>11, StepsGo DEF Goes, Recovered
<1>12. CASE CopyAside(p) \/ Spawn(p) \/ Patch(p) \/ SessionEnds(p) \/ Finish(p) \/ MakeTwin(p)
  <2>1. /\ Kept(p) /\ Holds(p) /\ runs'[p].at # "idle"
        /\ runs[p].at \notin {"leaving", "recovering"}
    BY <1>0, <1>12, StepsGo
       DEF Goes, IsOver, CopyAside, Spawn, Patch, SessionEnds, Finish, MakeTwin, IsAt
  <2>. QED  BY <1>1, <1>2, <2>1
<1>13. CASE Guard(p)
  <2>1. runs[p].at \notin {"leaving", "recovering"}
    BY <1>13 DEF Guard, IsAt, BeforeGuard
  <2>. QED  BY <1>0, <1>1, <1>2, <1>13, <2>1, StepsGo DEF Goes
<1>14. CASE Exit(p)
  <2>1. runs[p].at = "over" \/ runs[p].inHand = NoRun
    BY <1>14 DEF Exit, IsAt
  <2>. QED  BY <1>0, <1>1, <1>2, <1>3, <1>14, <2>1, StepsGo DEF IsOver
<1>15. CASE Kill(p) \/ KillWriting(p)
  <2>1. Dies(p)
    BY <1>0, <1>15, StepsGo
  <2>2. runs'[p].at # "idle"
    BY <1>0, <2>1 DEF Dies, Kept
  <2>. QED  BY <1>0, <1>1, <2>1, <2>2 DEF Dies
<1>. QED  BY <1>4, <1>5, <1>7, <1>8, <1>9, <1>10, <1>11, <1>12, <1>13, <1>14, <1>15 DEF RunStep

\* A run starts; the others go on as they were, but for one that waits for it.
Arrives(n) ==
  /\ n \in Runs /\ runs[n] = Unstarted /\ runs'[n].at = "starting"
  /\ runs'[n].todo = {} /\ runs'[n].spared = {} /\ runs'[n].failed = {} /\ runs'[n].inHand = NoRun
  /\ runs'[n].measured = NoRun
  /\ \A q \in Runs \ {n} :
       /\ runs'[q].todo = runs[q].todo /\ runs'[q].spared = runs[q].spared
       /\ runs'[q].failed = runs[q].failed /\ runs'[q].inHand = runs[q].inHand
       /\ runs'[q].does = runs[q].does /\ (runs'[q].alive <=> runs[q].alive)
       /\ runs'[q].measured = runs[q].measured
       /\ \/ runs'[q].child = runs[q].child /\ runs'[q].at = runs[q].at
          \/ /\ runs[q].child = NoRun /\ runs[q].at = "working" /\ runs'[q].at = "waiting"
             /\ runs[q].does = "file"

\* Start and DriveSession let one run arrive.
LEMMA OneArrives ==
  ASSUME RunsTyped, Order, Start \/ \E p \in Runs : DriveSession(p)
  PROVE  Arrives(NextRun) /\ RunsTyped' /\ Order' /\ UNCHANGED <<records, copies, world, mishaps>>
<1>1. CASE Start
  <2>1. UNCHANGED <<records, copies, world, mishaps>>
    BY <1>1 DEF Start
  <2>. QED  BY <1>1, <2>1, StartKeepsOrder DEF Arrives
<1>2. ASSUME NEW p \in Runs, DriveSession(p)
      PROVE  Arrives(NextRun) /\ RunsTyped' /\ Order' /\ UNCHANGED <<records, copies, world, mishaps>>
  <2>1. UNCHANGED <<records, copies, world, mishaps>>
    BY <1>2 DEF DriveSession
  <2>2. /\ RunsTyped' /\ Order' /\ p < NextRun
        /\ NextRun \in Runs /\ runs[NextRun] = Unstarted /\ runs'[NextRun].at = "starting"
        /\ runs'[NextRun].todo = {} /\ runs'[NextRun].spared = {}
        /\ runs'[NextRun].failed = {} /\ runs'[NextRun].inHand = NoRun
        /\ runs'[NextRun].measured = NoRun
    BY <1>2, DriveKeepsOrder
  <2>3. /\ runs[p].alive /\ runs[p].at = "working" /\ runs'[p].at = "waiting" /\ runs'[p].alive
        /\ runs[p].does = "file" /\ runs'[p].does = "file" /\ runs[p].child = NoRun
        /\ runs'[p].todo = runs[p].todo /\ runs'[p].spared = runs[p].spared
        /\ runs'[p].failed = runs[p].failed /\ runs'[p].inHand = runs[p].inHand
        /\ runs'[p].measured = runs[p].measured
    BY <1>2, DriveKeepsOrder DEF Holds
  <2>4. \A q \in Runs \ {p, NextRun} : runs'[q] = runs[q]
    BY <1>2, DriveKeepsOrder
  <2>. QED  BY <2>1, <2>2, <2>3, <2>4 DEF Arrives
<1>. QED  BY <1>1, <1>2

\* A run that starts holds nothing, and nobody holds it.
LEMMA ArrivalsKeepHands ==
  ASSUME Hands, NEW n, Arrives(n)
  PROVE  Hands'
<1>1. NoRun \notin Runs /\ runs[n].at = "idle" /\ n \in Runs
  BY DEF NoRun, Runs, Arrives, Unstarted
<1>2. \A i \in Runs : Gone(i) => Gone(i)'
  BY <1>1 DEF Gone, Arrives
<1>3. ASSUME NEW q \in Runs, NEW i \in Runs PROVE HoldsTheDead(q, i)'
  <2>1. CASE q = n
    BY <1>1, <2>1 DEF HoldsTheDead, Arrives
  <2>2. CASE q # n
    <3>1. HoldsTheDead(q, i)
      BY DEF Hands
    <3>2. i \in runs'[q].todo => Gone(i)'
      BY <1>2, <2>2, <3>1 DEF HoldsTheDead, Arrives
    <3>3. i \in runs'[q].spared => q < i \/ runs'[i].child = q
      <4>1. runs[i].child = q => i # n /\ runs'[i].child = q
        BY <1>1, <2>2 DEF Arrives, Unstarted
      <4>. QED  BY <2>2, <3>1, <4>1 DEF HoldsTheDead, Arrives
    <3>4. i \in runs'[q].failed => runs'[i].does = "collection"
      <4>1. runs[i].does = "collection" => i # n /\ runs'[i].does = "collection"
        BY <1>1, <2>2 DEF Arrives, Unstarted
      <4>. QED  BY <2>2, <3>1, <4>1 DEF HoldsTheDead, Arrives
    <3>5. runs'[q].inHand = i =>
            (i = q /\ runs'[q].at = "leaving") \/ (runs'[q].at = "recovering" /\ Gone(i)')
      BY <1>2, <2>2, <3>1 DEF HoldsTheDead, Arrives
    <3>. QED  BY <3>2, <3>3, <3>4, <3>5 DEF HoldsTheDead
  <2>. QED  BY <2>1, <2>2
<1>. QED  BY <1>3 DEF Hands

(***************************************************************************)
(* The types of what is on disk and of the world.                          *)
(***************************************************************************)
\* A kill is counted, and whether it was in the middle of a second restore.
LEMMA KillIsNoted ==
  ASSUME mishaps \in Mishaps, NEW p, NEW overlap \in BOOLEAN, Killed(p, overlap)
  PROVE  mishaps' \in Mishaps /\ (mishaps'.overlap <=> mishaps.overlap \/ overlap)
<1>. DEFINE both == mishaps.overlap \/ overlap
            n == mishaps.kills + 1
<1>1. mishaps' = [mishaps EXCEPT !.kills = n, !.overlap = both]
  BY DEF Killed
<1>2. both \in BOOLEAN /\ n \in Nat
  BY DEF Mishaps
<1>. HIDE DEF both, n
<1>3. mishaps' \in Mishaps /\ mishaps'.overlap = both
  BY <1>1, <1>2 DEF Mishaps
<1>. QED  BY <1>3 DEF both

\* A database out of reach is counted, and nothing else.
LEMMA UnreachableIsNoted ==
  ASSUME mishaps \in Mishaps, mishaps' = [mishaps EXCEPT !.unreachable = mishaps.unreachable + 1]
  PROVE  mishaps' \in Mishaps /\ mishaps'.overlap = mishaps.overlap
<1>. DEFINE n == mishaps.unreachable + 1
<1>1. n \in Nat
  BY DEF Mishaps
<1>. HIDE DEF n
<1>2. mishaps' = [mishaps EXCEPT !.unreachable = n]
  BY DEF n
<1>. QED  BY <1>1, <1>2 DEF Mishaps

\* What a run makes of the disk and of the world has its type.
LEMMA RunsKeepTypes ==
  ASSUME LedgerTyped, NEW p \in Runs, RunStep(p) \/ Kill(p) \/ KillWriting(p)
  PROVE  /\ records' \in [Runs -> {"none", "torn", "whole"}]
         /\ copies' \in [Runs -> {"none", "torn", "pristine"}]
         /\ world' \in World /\ mishaps' \in Mishaps
         /\ mishaps.overlap => mishaps'.overlap
<1>0. /\ RunsTyped /\ mishaps \in Mishaps /\ world \in World
      /\ records \in [Runs -> {"none", "torn", "whole"}]
      /\ copies \in [Runs -> {"none", "torn", "pristine"}]
      /\ runs[p].inHand \in SomeRun /\ runs[p].todo \subseteq Runs
  BY DEF LedgerTyped, Mishaps, RunsTyped, RunRecord
<1>1. ASSUME NEW i \in Runs, runs[p].alive, UndoRecord(p, i)
      PROVE  /\ UNCHANGED <<records, copies>> /\ world' \in World /\ mishaps' \in Mishaps
             /\ mishaps.overlap => mishaps'.overlap
  <2>1. /\ UNCHANGED <<records, copies>>
        /\ \/ world' = world
           \/ Undone(i).ok /\ world' = Undone(i).world
        /\ \/ mishaps' = mishaps
           \/ mishaps' = [mishaps EXCEPT !.unreachable = mishaps.unreachable + 1]
    BY <1>0, <1>1, UndoMoves
  <2>2. world' \in World
    BY <1>0, <2>1, UndoneWorld
  <2>3. mishaps' \in Mishaps /\ mishaps'.overlap = mishaps.overlap
    BY <1>0, <2>1, UnreachableIsNoted
  <2>. QED  BY <2>1, <2>2, <2>3
<1>2. CASE Recover(p) \/ UndoOwn(p)
  <2>1. \E i \in Runs : UndoRecord(p, i) /\ runs[p].alive
    BY <1>0, <1>2 DEF Recover, UndoOwn, IsAt
  <2>. QED  BY <1>0, <1>1, <2>1
<1>3. CASE ReleaseCopy(p) \/ ReleaseRecord(p)
  <2>1. runs[p].inHand \in Runs
    BY <1>0, <1>3 DEF ReleaseCopy, ReleaseRecord, SomeRun
  <2>. QED  BY <1>0, <1>3, <2>1 DEF ReleaseCopy, ReleaseRecord
<1>4. CASE CopyAside(p)
  <2>1. world.file # "patched" => world.file \in {"torn", "pristine"}
    BY <1>0 DEF World
  <2>. QED  BY <1>0, <1>4, <2>1 DEF CopyAside
<1>5. CASE Spawn(p) \/ Finish(p)
  <2>1. UNCHANGED <<records, copies, mishaps>>
    BY <1>5 DEF Spawn, Finish
  <2>2. \E port \in SomeRun : world' = [world EXCEPT !.port = port]
    BY <1>0, <1>5 DEF Spawn, Finish, World, SomeRun
  <2>. QED  BY <1>0, <2>1, <2>2 DEF World
<1>6. CASE Guard(p)
  BY <1>0, <1>6 DEF Guard
<1>7. CASE Patch(p)
  BY <1>0, <1>7 DEF Patch, World
<1>8. CASE MakeTwin(p)
  <2>1. UNCHANGED <<records, copies>>
    BY <1>8 DEF MakeTwin
  <2>2. world' = [world EXCEPT !.twin = "made"] \/ world' = world
    BY <1>8 DEF MakeTwin
  <2>3. mishaps' = mishaps \/ mishaps' = [mishaps EXCEPT !.unreachable = mishaps.unreachable + 1]
    BY <1>8 DEF MakeTwin
  <2>4. mishaps' \in Mishaps /\ mishaps'.overlap = mishaps.overlap
    BY <1>0, <2>3, UnreachableIsNoted
  <2>. QED  BY <1>0, <2>1, <2>2, <2>4 DEF World
<1>9. CASE LookForLeftovers(p) \/ Recovered(p) \/ AwaitServer(p) \/ DriveSession(p) \/ SessionEnds(p) \/ Exit(p)
  BY <1>0, <1>9 DEF LookForLeftovers, Recovered, AwaitServer, DriveSession, SessionEnds, Exit
<1>10. CASE Kill(p)
  <2>1. FALSE \in BOOLEAN
    OBVIOUS
  <2>2. mishaps' \in Mishaps /\ (mishaps'.overlap <=> mishaps.overlap \/ FALSE)
    BY <1>0, <1>10, <2>1, KillIsNoted DEF Kill
  <2>. QED  BY <1>0, <1>10, <2>2 DEF Kill
<1>11. CASE KillWriting(p)
  <2>. DEFINE overlap == runs[p].at = "recovering" /\ \E q \in Runs \ {p} :
                           runs[q].alive /\ runs[q].inHand \in runs[p].todo
  <2>1. overlap \in BOOLEAN
    OBVIOUS
  <2>2. Killed(p, overlap)
    BY <1>11 DEF KillWriting
  <2>. HIDE DEF overlap
  <2>3. mishaps' \in Mishaps /\ (mishaps'.overlap <=> mishaps.overlap \/ overlap)
    BY <1>0, <2>1, <2>2, KillIsNoted
  <2>4. \/ copies' = [copies EXCEPT ![p] = "torn"] /\ UNCHANGED <<records, world>>
        \/ records' = [records EXCEPT ![p] = "torn"] /\ UNCHANGED <<copies, world>>
        \/ world' = [world EXCEPT !.file = "torn"] /\ UNCHANGED <<records, copies>>
    BY <1>11 DEF KillWriting
  <2>. QED  BY <1>0, <2>3, <2>4 DEF World
<1>. QED  BY <1>2, <1>3, <1>4, <1>5, <1>6, <1>7, <1>8, <1>9, <1>10, <1>11 DEF RunStep

(***************************************************************************)
(* A run started by hand that has recovered is alone with what it changes. *)
(***************************************************************************)

\* Beside it there are only sessions.
LEMMA OthersAreSessions ==
  ASSUME Order, NEW p \in Runs, NEW q \in Runs \ {p}, runs[p].alive, runs[q].alive,
         runs[p].does # "session"
  PROVE  runs[q].does = "session"
BY DEF Order, OneAtATime, ChildrenAreSessions, LaterOnesAreSessions, Runs, NoRun

\* What others left is settled, but for collections it could not drop.
LEMMA OthersAreSettled ==
  ASSUME Order, Hands, Papers, Progress, NEW p \in Runs, NEW i \in Runs \ {p},
         runs[p].alive, runs[p].does # "session", runs[p].at \notin {"starting", "recovering"}
  PROVE  Settled(i) \/ (i \in runs[p].failed /\ runs[i].does = "collection")
<1>1. CASE i < p
  <2>1. i \in runs[p].spared \cup runs[p].failed \/ Settled(i)
    BY <1>1 DEF Progress
  <2>2. i \in runs[p].failed => runs[i].does = "collection"
    BY DEF Hands, HoldsTheDead
  <2>3. i \notin runs[p].spared
    <3>1. runs[i].child # p
      BY DEF Order, ChildrenAreSessions, NoRun, Runs
    <3>. QED  BY <1>1, <3>1 DEF Hands, HoldsTheDead, Runs
  <2>. QED  BY <2>1, <2>2, <2>3
<1>2. CASE p < i
  BY <1>2 DEF Order, LaterOnesAreSessions, Papers, PaperOf, Settled
<1>. QED  BY <1>1, <1>2 DEF Runs

\* A file that somebody is about to copy is pristine.
LEMMA FileIsFree ==
  ASSUME Order, Hands, Papers, Progress, FileOnPaper, NEW p \in Runs,
         runs[p].alive, runs[p].does = "file", runs[p].at = "ready", ~mishaps.overlap
  PROVE  world.file = "pristine"
<1>1. \A m \in Runs : ~RestoresFile(m)
  <2>1. ASSUME NEW m \in Runs, RestoresFile(m) PROVE FALSE
    <3>1. m # p
      BY <2>1 DEF RestoresFile, Papers, PaperOf
    <3>2. Settled(m) \/ runs[m].does = "collection"
      BY <3>1, OthersAreSettled
    <3>. QED  BY <2>1, <3>2 DEF RestoresFile, Settled
  <2>. QED  BY <2>1
<1>. QED  BY <1>1 DEF FileOnPaper

(***************************************************************************)
(* What is on disk.                                                        *)
(***************************************************************************)

\* What a run has on disk by where it is, if the others' is left alone.
LEMMA PapersKept ==
  ASSUME Papers, NEW p \in Runs, \A q \in Runs \ {p} : runs'[q] = runs[q],
         \A q \in Runs \ {p} : records'[q] = records[q] /\ copies'[q] = copies[q],
         mishaps.overlap => mishaps'.overlap, PaperOf(p)'
  PROVE  Papers'
<1>1. ASSUME NEW q \in Runs \ {p} PROVE PaperOf(q)'
  <2>1. PaperOf(q) /\ runs'[q] = runs[q] /\ records'[q] = records[q] /\ copies'[q] = copies[q]
    BY DEF Papers
  <2>. QED  BY <2>1 DEF PaperOf
<1>. QED  BY <1>1 DEF Papers

\* A run that moves on with its papers as they are.
LEMMA MovesKeepPapers ==
  ASSUME Papers, Order, NEW p \in Runs, Kept(p), UNCHANGED <<records, copies>>,
         mishaps.overlap => mishaps'.overlap,
         runs'[p].inHand = NoRun => runs[p].inHand = NoRun,
         runs'[p].alive =>
           /\ runs'[p].at \in {"starting", "recovering", "ready", "copied", "spawned"} =>
                records[p] = "none"
           /\ runs'[p].at \in {"guarded", "working", "waiting"} => records[p] = "whole"
           /\ runs'[p].at = "copied" => runs[p].at = "copied"
  PROVE  Papers'
<1>1. PaperOf(p) /\ runs[p].alive /\ runs'[p].does = runs[p].does
  BY DEF Papers, Kept
<1>2. PaperOf(p)'
  BY <1>1 DEF PaperOf
<1>. QED  BY <1>2, PapersKept DEF Kept

\* Whatever a run does, everybody's papers are in order.
LEMMA RunsKeepPapers ==
  ASSUME LedgerTyped, Order, Hands, Papers, Progress, FileOnPaper, NEW p \in Runs,
         RunStep(p) \/ Kill(p) \/ KillWriting(p), ~DriveSession(p)
  PROVE  Papers'
<1>0. /\ RunsTyped /\ mishaps \in Mishaps
      /\ records \in [Runs -> {"none", "torn", "whole"}]
      /\ copies \in [Runs -> {"none", "torn", "pristine"}]
      /\ (mishaps.overlap => mishaps'.overlap)
      /\ PaperOf(p) /\ NoRun \notin Runs
  BY RunsKeepTypes DEF LedgerTyped, Papers, NoRun, Runs
<1>1. CASE LookForLeftovers(p)
  <2>1. Looks(p) /\ runs[p].at = "starting" /\ UNCHANGED <<records, copies>>
    BY <1>0, <1>1, LookLooks DEF LookForLeftovers, IsAt
  <2>. QED  BY <1>0, <2>1, MovesKeepPapers DEF Looks, PaperOf, Kept
<1>2. ASSUME NEW i \in Runs, runs[p].alive, UndoRecord(p, i), runs[p].at \in {"recovering", "leaving"}
      PROVE  Papers'
  <2>1. UNCHANGED <<records, copies>> /\ (TakesInHand(p, i) \/ PassesOver(p, i) \/ FailsOn(p, i) \/ IsOver(p))
    BY <1>0, <1>2, UndoMoves
  <2>2. Kept(p) /\ (runs'[p].inHand = NoRun => runs[p].inHand = NoRun)
        /\ (runs'[p].alive => runs'[p].at = runs[p].at)
    BY <1>0, <2>1 DEF TakesInHand, PassesOver, FailsOn, IsOver, Stands, Holds
  <2>. QED  BY <1>0, <1>2, <2>1, <2>2, MovesKeepPapers DEF PaperOf
<1>3. CASE Recover(p) \/ UndoOwn(p)
  <2>1. \E i \in Runs : UndoRecord(p, i) /\ runs[p].alive
    BY <1>0, <1>3 DEF Recover, UndoOwn, IsAt, RunsTyped, RunRecord
  <2>2. runs[p].at \in {"recovering", "leaving"}
    BY <1>3 DEF Recover, UndoOwn, IsAt
  <2>. QED  BY <1>2, <2>1, <2>2
<1>4. CASE ReleaseCopy(p)
  <2>1. \E i \in Runs : i = runs[p].inHand
    BY <1>0, <1>4 DEF ReleaseCopy, RunsTyped, RunRecord, SomeRun
  <2>2. PICK i \in Runs : i = runs[p].inHand
    BY <2>1
  <2>3. /\ runs' = runs /\ UNCHANGED <<records, mishaps>>
        /\ copies' = [copies EXCEPT ![i] = "none"] /\ runs[p].alive
    BY <1>4, <2>2 DEF ReleaseCopy
  <2>4. runs[i].alive => i = p
    BY <2>2 DEF Hands, HoldsTheDead, Gone
  <2>5. PaperOf(i) /\ copies'[i] = "none" /\ \A q \in Runs \ {i} : copies'[q] = copies[q]
    BY <1>0, <2>3 DEF Papers
  <2>6. ~(runs[i].alive /\ runs[i].inHand = NoRun)
    BY <1>0, <2>2, <2>4
  <2>7. PaperOf(i)'
    BY <2>3, <2>5, <2>6 DEF PaperOf
  <2>8. \A q \in Runs \ {i} : runs'[q] = runs[q] /\ records'[q] = records[q]
    BY <2>3
  <2>. QED  BY <1>0, <2>5, <2>7, <2>8, PapersKept
<1>5. CASE ReleaseRecord(p)
  <2>1. \E i \in Runs : i = runs[p].inHand
    BY <1>0, <1>5 DEF ReleaseRecord, RunsTyped, RunRecord, SomeRun
  <2>2. PICK i \in Runs : i = runs[p].inHand
    BY <2>1
  <2>3. /\ LetsGo(p) /\ UNCHANGED <<copies, mishaps>>
        /\ records' = [records EXCEPT ![i] = "none"] /\ copies[i] = "none"
    BY <1>0, <1>5, <2>2, ReleaseLetsGo DEF ReleaseRecord
  <2>4. (runs[i].alive => i = p /\ runs[p].at = "leaving") /\ (i = p => runs[p].at = "leaving")
        /\ (i # p => runs[p].at = "recovering")
    BY <2>2, <2>3 DEF Hands, HoldsTheDead, Gone, LetsGo, Kept
  <2>5. PaperOf(i) /\ records'[i] = "none" /\ \A q \in Runs \ {i} : records'[q] = records[q]
    BY <1>0, <2>3 DEF Papers
  <2>6. /\ runs'[p].at = runs[p].at /\ runs'[p].does = runs[p].does /\ runs[p].alive
        /\ \A q \in Runs \ {p} : runs'[q] = runs[q]
    BY <2>3 DEF LetsGo, Kept, Stands
  <2>7. copies'[i] = "none" /\ (runs'[i].alive => runs'[i].at = "leaving")
    BY <2>3, <2>4, <2>6
  <2>8. PaperOf(i)'
    BY <2>5, <2>7 DEF PaperOf
  <2>9. ASSUME NEW q \in Runs, q # i PROVE PaperOf(q)'
    <3>1. PaperOf(q) /\ records'[q] = records[q] /\ copies'[q] = copies[q]
      BY <2>3, <2>5, <2>9 DEF Papers
    <3>2. CASE q # p
      BY <2>3, <2>6, <3>1, <3>2 DEF PaperOf
    <3>3. CASE q = p
      <4>1. runs[p].at = "recovering" /\ records[p] = "none"
        BY <1>0, <2>4, <2>6, <2>9, <3>3 DEF PaperOf
      <4>. QED  BY <1>0, <2>3, <2>6, <3>1, <3>3, <4>1 DEF PaperOf
    <3>. QED  BY <3>2, <3>3
  <2>10. \A q \in Runs : PaperOf(q)'
    BY <2>8, <2>9
  <2>. QED  BY <2>10 DEF Papers
<1>6. CASE Recovered(p)
  <2>1. Goes(p, "ready") /\ runs[p].at = "recovering" /\ UNCHANGED <<records, copies>>
    BY <1>0, <1>6, StepsGo DEF Recovered, IsAt
  <2>. QED  BY <1>0, <2>1, MovesKeepPapers DEF Goes, Holds, PaperOf, Kept
<1>7. CASE CopyAside(p)
  <2>1. /\ runs[p].at = "ready" /\ runs[p].alive /\ runs[p].does = "file" /\ UNCHANGED <<records, mishaps>>
    BY <1>7 DEF CopyAside, IsAt, Does
  <2>2. CASE world.file = "patched"
    <3>1. Goes(p, "over") /\ UNCHANGED copies
      BY <1>0, <1>7, <2>2, StepsGo DEF CopyAside
    <3>. QED  BY <1>0, <2>1, <3>1, MovesKeepPapers DEF Goes, Holds
  <2>3. CASE world.file # "patched"
    <3>1. Goes(p, "copied") /\ copies' = [copies EXCEPT ![p] = world.file]
      BY <1>0, <1>7, <2>3, StepsGo DEF CopyAside
    <3>2. world.file # "none" /\ (~mishaps.overlap => world.file = "pristine")
      BY <2>1, FileIsFree DEF LedgerTyped, World
    <3>3. copies'[p] = world.file /\ \A q \in Runs \ {p} : copies'[q] = copies[q]
      BY <1>0, <3>1
    <3>4. PaperOf(p)'
      BY <1>0, <2>1, <3>1, <3>2, <3>3 DEF PaperOf, Goes, Kept
    <3>. QED  BY <1>0, <2>1, <3>1, <3>3, <3>4, PapersKept DEF Goes, Kept
  <2>. QED  BY <2>2, <2>3
<1>8. CASE Spawn(p)
  <2>1. Goes(p, "spawned") /\ runs[p].at = "ready" /\ UNCHANGED <<records, copies>>
    BY <1>0, <1>8, StepsGo DEF Spawn, IsAt
  <2>. QED  BY <1>0, <2>1, MovesKeepPapers DEF Goes, Holds, PaperOf, Kept
<1>9. CASE Guard(p)
  <2>1. /\ Goes(p, "guarded") /\ UNCHANGED <<copies, mishaps>>
        /\ records' = [records EXCEPT ![p] = "whole"] /\ runs[p].at = BeforeGuard(p)
    BY <1>0, <1>9, StepsGo DEF Guard, IsAt
  <2>2. records'[p] = "whole" /\ \A q \in Runs \ {p} : records'[q] = records[q]
    BY <1>0, <2>1
  <2>3. runs[p].does # "session" /\ (runs[p].does = "file" => runs[p].at = "copied")
    BY <1>0, <2>1 DEF BeforeGuard, Does, RunsTyped, PlacesOf, Common
  <2>4. PaperOf(p)'
    BY <1>0, <2>1, <2>2, <2>3 DEF PaperOf, Goes, Kept, Holds
  <2>. QED  BY <1>0, <2>1, <2>2, <2>4, PapersKept DEF Goes, Kept
<1>10. CASE Patch(p) \/ MakeTwin(p)
  <2>1. runs[p].at = "guarded" /\ (Goes(p, "working") \/ IsOver(p)) /\ UNCHANGED <<records, copies>>
    BY <1>0, <1>10, StepsGo DEF Patch, MakeTwin, IsAt
  <2>. QED  BY <1>0, <2>1, MovesKeepPapers DEF Goes, IsOver, Holds, PaperOf, Kept
<1>11. CASE AwaitServer(p)
  <2>1. runs[p].at = "guarded" /\ (Goes(p, "leaving") \/ Measures(p)) /\ UNCHANGED <<records, copies>>
    BY <1>0, <1>11, AwaitMeasures DEF AwaitServer, IsAt
  <2>. QED  BY <1>0, <2>1, MovesKeepPapers DEF Goes, Measures, Holds, PaperOf, Kept
<1>12. CASE SessionEnds(p) \/ Finish(p)
  <2>1. Goes(p, "leaving") /\ UNCHANGED <<records, copies>>
    BY <1>0, <1>12, StepsGo DEF SessionEnds, Finish
  <2>. QED  BY <1>0, <2>1, MovesKeepPapers DEF Goes, Holds
<1>13. CASE Exit(p)
  <2>1. IsOver(p) /\ UNCHANGED <<records, copies>>
    BY <1>0, <1>13, StepsGo DEF Exit
  <2>. QED  BY <1>0, <2>1, MovesKeepPapers DEF IsOver, Holds
<1>14. CASE Kill(p)
  <2>1. Dies(p) /\ UNCHANGED <<records, copies>>
    BY <1>0, <1>14, StepsGo DEF Kill
  <2>. QED  BY <1>0, <2>1, MovesKeepPapers DEF Dies, Holds
<1>15. CASE KillWriting(p)
  <2>1. Dies(p)
    BY <1>0, <1>15, StepsGo
  <2>2. CASE UNCHANGED <<records, copies>>
    BY <1>0, <2>1, <2>2, MovesKeepPapers DEF Dies, Holds
  <2>3. CASE runs[p].at = "ready" /\ Does(p, {"file"}) /\ copies' = [copies EXCEPT ![p] = "torn"] /\ UNCHANGED records
    <3>1. records[p] = "none" /\ runs'[p].does = "file" /\ ~runs'[p].alive
      BY <1>0, <2>1, <2>3 DEF Dies, Kept, PaperOf, Does
    <3>2. PaperOf(p)' /\ \A q \in Runs \ {p} : copies'[q] = copies[q]
      BY <1>0, <2>3, <3>1 DEF PaperOf
    <3>. QED  BY <1>0, <2>1, <2>3, <3>2, PapersKept DEF Dies, Kept
  <2>4. CASE runs[p].at = BeforeGuard(p) /\ records' = [records EXCEPT ![p] = "torn"] /\ UNCHANGED copies
    <3>1. runs[p].does # "session" /\ ~runs'[p].alive /\ runs'[p].does = runs[p].does
      BY <1>0, <2>1, <2>4 DEF Dies, Kept, BeforeGuard, Does, RunsTyped, PlacesOf, Common
    <3>2. records'[p] = "torn" /\ \A q \in Runs \ {p} : records'[q] = records[q]
      BY <1>0, <2>4
    <3>3. PaperOf(p)'
      BY <3>1, <3>2 DEF PaperOf
    <3>. QED  BY <1>0, <2>1, <2>4, <3>2, <3>3, PapersKept DEF Dies, Kept
  <2>. QED  BY <1>15, <2>2, <2>3, <2>4 DEF KillWriting
<1>. QED  BY <1>1, <1>3, <1>4, <1>5, <1>6, <1>7, <1>8, <1>9, <1>10, <1>11, <1>12, <1>13, <1>14, <1>15
     DEF RunStep

\* A run that starts has nothing on disk.
LEMMA ArrivalsKeepPapers ==
  ASSUME Papers, NEW n, Arrives(n), UNCHANGED <<records, copies, mishaps>>
  PROVE  Papers'
<1>1. n \in Runs /\ runs[n].does = "session" /\ runs'[n].at = "starting"
  BY DEF Arrives, Unstarted
<1>2. records[n] = "none" /\ copies[n] = "none"
  BY <1>1 DEF Papers, PaperOf
<1>3. ASSUME NEW q \in Runs PROVE PaperOf(q)'
  <2>1. CASE q = n
    BY <1>1, <1>2, <2>1 DEF PaperOf
  <2>2. CASE q # n
    <3>1. PaperOf(q)
      BY DEF Papers
    <3>2. /\ runs'[q].inHand = runs[q].inHand /\ runs'[q].does = runs[q].does
          /\ runs'[q].alive <=> runs[q].alive
          /\ runs'[q].at = runs[q].at \/ (runs[q].at = "working" /\ runs'[q].at = "waiting")
      BY <2>2 DEF Arrives
    <3>. QED  BY <3>1, <3>2 DEF PaperOf
  <2>. QED  BY <2>1, <2>2
<1>. QED  BY <1>3 DEF Papers

(***************************************************************************)
(* How far the recoveries are.                                             *)
(***************************************************************************)

\* A step changes the run that takes it, or none.
LEMMA OneMoves ==
  ASSUME RunsTyped, LedgerTyped, NEW p \in Runs, RunStep(p) \/ Kill(p) \/ KillWriting(p),
         ~DriveSession(p)
  PROVE  (ReleaseCopy(p) /\ runs' = runs) \/ Kept(p)
<1>1. CASE ReleaseCopy(p)
  BY <1>1 DEF ReleaseCopy
<1>2. CASE Recover(p) \/ UndoOwn(p)
  <2>1. \E i \in Runs : UndoRecord(p, i) /\ runs[p].alive
    BY <1>2 DEF Recover, UndoOwn, IsAt, RunsTyped, RunRecord
  <2>2. \E i \in Runs : TakesInHand(p, i) \/ PassesOver(p, i) \/ FailsOn(p, i) \/ IsOver(p)
    BY <2>1, UndoMoves
  <2>. QED  BY <2>2 DEF TakesInHand, PassesOver, FailsOn, IsOver
<1>3. CASE LookForLeftovers(p) \/ ReleaseRecord(p) \/ AwaitServer(p)
  BY <1>3, LookLooks, ReleaseLetsGo, AwaitMeasures DEF Looks, LetsGo, Goes, Measures
<1>4. CASE \/ Recovered(p) \/ CopyAside(p) \/ Spawn(p) \/ Guard(p) \/ Patch(p) \/ MakeTwin(p)
           \/ SessionEnds(p) \/ Finish(p) \/ Exit(p) \/ Kill(p) \/ KillWriting(p)
  BY <1>4, StepsGo DEF Goes, IsOver, Dies
<1>. QED  BY <1>1, <1>2, <1>3, <1>4 DEF RunStep

\* What asks for nothing goes on asking for nothing, until its run writes a record.
LEMMA SettledStays ==
  ASSUME LedgerTyped, Papers, NEW p \in Runs, RunStep(p) \/ Kill(p) \/ KillWriting(p),
         ~DriveSession(p), NEW i \in Runs, Settled(i), i # p \/ ~Guard(p)
  PROVE  Settled(i)'
<1>0. /\ RunsTyped /\ PaperOf(p) /\ runs[p].inHand \in SomeRun
      /\ records \in [Runs -> {"none", "torn", "whole"}]
      /\ copies \in [Runs -> {"none", "torn", "pristine"}]
  BY DEF LedgerTyped, Papers, RunsTyped, RunRecord
<1>1. runs'[i].does = runs[i].does
  BY <1>0, OneMoves DEF Kept
<1>2. records'[i] = "whole" => records[i] = "whole"
  <2>1. CASE Guard(p)
    BY <1>0, <2>1 DEF Guard
  <2>2. CASE ReleaseRecord(p)
    BY <1>0, <2>2 DEF ReleaseRecord, SomeRun
  <2>3. CASE KillWriting(p)
    BY <1>0, <2>3 DEF KillWriting
  <2>4. CASE Recover(p) \/ UndoOwn(p)
    BY <2>4 DEF Recover, UndoOwn, UndoRecord
  <2>5. CASE \/ LookForLeftovers(p) \/ ReleaseCopy(p) \/ Recovered(p) \/ CopyAside(p) \/ Spawn(p) \/ Patch(p)
             \/ MakeTwin(p) \/ AwaitServer(p) \/ SessionEnds(p) \/ Finish(p) \/ Exit(p) \/ Kill(p)
    BY <2>5 DEF LookForLeftovers, ReleaseCopy, Recovered, CopyAside, Spawn, Patch, MakeTwin, AwaitServer,
                SessionEnds, Finish, Exit, Kill
  <2>. QED  BY <2>1, <2>2, <2>3, <2>4, <2>5 DEF RunStep
<1>3. copies[i] = "none" /\ records'[i] = "whole" => copies'[i] = "none"
  <2>1. CASE CopyAside(p)
    <3>1. records'[p] = "none" /\ (copies' = copies \/ copies' = [copies EXCEPT ![p] = world.file])
      BY <1>0, <2>1 DEF CopyAside, IsAt, PaperOf
    <3>. QED  BY <1>0, <3>1
  <2>2. CASE KillWriting(p)
    <3>1. runs[p].at = "ready" => records[p] = "none"
      BY <1>0, <2>2 DEF KillWriting, Killed, PaperOf
    <3>. QED  BY <1>0, <2>2, <3>1 DEF KillWriting
  <2>3. CASE ReleaseCopy(p)
    BY <1>0, <2>3 DEF ReleaseCopy, SomeRun
  <2>4. CASE Recover(p) \/ UndoOwn(p)
    BY <2>4 DEF Recover, UndoOwn, UndoRecord
  <2>5. CASE \/ LookForLeftovers(p) \/ ReleaseRecord(p) \/ Recovered(p) \/ Spawn(p) \/ Guard(p) \/ Patch(p)
             \/ MakeTwin(p) \/ AwaitServer(p) \/ SessionEnds(p) \/ Finish(p) \/ Exit(p) \/ Kill(p)
    BY <2>5 DEF LookForLeftovers, ReleaseRecord, Recovered, Spawn, Guard, Patch, MakeTwin, AwaitServer,
                SessionEnds, Finish, Exit, Kill
  <2>. QED  BY <2>1, <2>2, <2>3, <2>4, <2>5 DEF RunStep
<1>. QED  BY <1>1, <1>2, <1>3 DEF Settled

\* Where one run has got to, when the others stay where they are.
Reached(p, i) ==
  \/ i \in runs[p].spared \cup runs[p].failed \/ Settled(i)
  \/ runs[p].at = "recovering" /\ (i \in runs[p].todo \/ i = runs[p].inHand)

\* A run that has got far enough keeps the progress of all.
LEMMA ProgressKept ==
  ASSUME Order, Progress, NEW p \in Runs, Kept(p),
         \A i \in Runs : Settled(i) =>
           Settled(i)' \/ (i = p /\ runs[p].does # "session" /\ runs[p].at # "waiting"),
         \A i \in Runs : runs'[p].alive /\ runs'[p].at # "starting" /\ i < p => Reached(p, i)'
  PROVE  Progress'
<1>1. ASSUME NEW q \in Runs, NEW i \in Runs, runs'[q].alive, runs'[q].at # "starting", i < q
      PROVE  Reached(q, i)'
  <2>1. CASE q = p
    BY <1>1, <2>1
  <2>2. CASE q # p
    <3>1. runs'[q] = runs[q] /\ runs[p].alive
      BY <2>2 DEF Kept
    <3>2. Reached(q, i)
      BY <1>1, <3>1 DEF Progress, Reached
    <3>3. Settled(i) => Settled(i)'
      <4>1. i = p => runs[p].does = "session" \/ runs[p].at = "waiting"
        BY <1>1, <3>1 DEF Order, OneAtATime
      <4>. QED  BY <4>1
    <3>. QED  BY <3>1, <3>2, <3>3 DEF Reached
  <2>. QED  BY <2>1, <2>2
<1>. QED  BY <1>1 DEF Progress, Reached

\* Whatever a run does, what it has not undone is before it.
LEMMA RunsKeepProgress ==
  ASSUME LedgerTyped, Order, Hands, Papers, Progress, NEW p \in Runs,
         RunStep(p) \/ Kill(p) \/ KillWriting(p), ~DriveSession(p)
  PROVE  Progress'
<1>0. /\ RunsTyped /\ NoRun \notin Runs /\ runs[p] \in RunRecord
      /\ records \in [Runs -> {"none", "torn", "whole"}]
  BY DEF LedgerTyped, RunsTyped, NoRun, Runs
<1>1. \A i \in Runs : Settled(i) =>
        Settled(i)' \/ (i = p /\ runs[p].does # "session" /\ runs[p].at # "waiting")
  <2>1. Guard(p) => runs[p].does # "session" /\ runs[p].at # "waiting"
    BY <1>0 DEF Guard, IsAt, BeforeGuard, Does, RunsTyped, PlacesOf, Common
  <2>. QED  BY <2>1, SettledStays
<1>2. \A i \in Runs : i < p /\ Settled(i) => Settled(i)'
  BY SettledStays DEF Runs
<1>3. \A i \in Runs : i < p /\ runs[p].alive /\ runs[p].at # "starting" => Reached(p, i)
  BY DEF Progress, Reached
<1>4. ASSUME Kept(p), Holds(p), runs'[p].alive, runs[p].at # "starting",
             runs[p].at = "recovering" => runs[p].todo = {} /\ runs[p].inHand = NoRun
      PROVE  Progress'
  <2>1. \A i \in Runs : i < p => Reached(p, i)'
    BY <1>0, <1>2, <1>3, <1>4 DEF Reached, Kept, Holds
  <2>. QED  BY <1>1, <1>4, <2>1, ProgressKept
<1>5. ASSUME Kept(p), ~runs'[p].alive PROVE Progress'
  BY <1>1, <1>5, ProgressKept
<1>6. CASE ReleaseCopy(p)
  <2>1. runs' = runs /\ UNCHANGED records
    BY <1>6 DEF ReleaseCopy
  <2>2. \A i \in Runs : Settled(i) => Settled(i)'
    <3>1. ~Guard(p)
      BY <1>6, <2>1, <1>0, StepsGo, OneMoves DEF Guard, Goes, IsAt, BeforeGuard
    <3>. QED  BY <3>1, SettledStays
  <2>. QED  BY <2>1, <2>2 DEF Progress
<1>7. CASE LookForLeftovers(p)
  <2>1. Looks(p) /\ UNCHANGED <<records, copies>>
    BY <1>0, <1>7, LookLooks DEF LookForLeftovers
  <2>2. ASSUME NEW i \in Runs, i < p PROVE Reached(p, i)'
    <3>1. CASE records[i] = "none"
      BY <2>1, <3>1 DEF Reached, Settled
    <3>2. CASE records[i] # "none"
      BY <2>1, <3>2 DEF Reached, Looks
    <3>. QED  BY <3>1, <3>2
  <2>. QED  BY <1>1, <2>1, <2>2, ProgressKept DEF Looks
<1>8. ASSUME NEW i \in Runs, runs[p].alive, UndoRecord(p, i), runs[p].inHand = NoRun,
             runs[p].at # "starting"
      PROVE  Progress'
  <2>1. TakesInHand(p, i) \/ (PassesOver(p, i) /\ Settled(i)) \/ FailsOn(p, i) \/ IsOver(p)
    BY <1>0, <1>8, UndoMoves
  <2>2. CASE IsOver(p)
    BY <1>5, <2>2 DEF IsOver
  <2>3. CASE TakesInHand(p, i) \/ (PassesOver(p, i) /\ Settled(i)) \/ FailsOn(p, i)
    <3>1. /\ Kept(p) /\ runs'[p].at = runs[p].at /\ runs'[p].spared = runs[p].spared
          /\ runs[p].failed \subseteq runs'[p].failed
          /\ runs'[p].todo = runs[p].todo \ {i}
          /\ runs'[p].inHand = i \/ Settled(i) \/ i \in runs'[p].failed
      BY <2>3 DEF TakesInHand, PassesOver, FailsOn, Stands
    <3>2. ASSUME NEW j \in Runs, j < p PROVE Reached(p, j)'
      <4>1. Reached(p, j) /\ (Settled(j) => Settled(j)')
        BY <1>2, <1>3, <1>8, <3>2
      <4>. QED  BY <1>0, <1>8, <3>1, <3>2, <4>1 DEF Reached
    <3>. QED  BY <1>1, <3>1, <3>2, ProgressKept
  <2>. QED  BY <2>1, <2>2, <2>3
<1>9. CASE Recover(p) \/ UndoOwn(p)
  <2>1. \E i \in Runs : UndoRecord(p, i)
    BY <1>0, <1>9 DEF Recover, UndoOwn, RunRecord
  <2>2. runs[p].alive /\ runs[p].inHand = NoRun /\ runs[p].at # "starting"
    BY <1>9 DEF Recover, UndoOwn, IsAt
  <2>. QED  BY <1>8, <2>1, <2>2
<1>10. CASE ReleaseRecord(p)
  <2>1. \E i \in Runs : i = runs[p].inHand
    BY <1>0, <1>10 DEF ReleaseRecord, RunRecord, SomeRun
  <2>2. PICK i \in Runs : i = runs[p].inHand
    BY <2>1
  <2>3. LetsGo(p) /\ records' = [records EXCEPT ![i] = "none"] /\ runs[p].at # "starting"
    BY <1>0, <1>10, <2>2, ReleaseLetsGo DEF ReleaseRecord, Hands, HoldsTheDead
  <2>4. Settled(i)'
    BY <1>0, <2>3 DEF Settled
  <2>5. ASSUME NEW j \in Runs, j < p PROVE Reached(p, j)'
    <3>1. Reached(p, j) /\ (Settled(j) => Settled(j)')
      BY <1>2, <1>3, <2>3, <2>5 DEF LetsGo, Kept
    <3>. QED  BY <2>2, <2>3, <2>4, <3>1 DEF Reached, LetsGo, Stands
  <2>. QED  BY <1>1, <2>3, <2>5, ProgressKept DEF LetsGo
<1>11. CASE Recovered(p)
  BY <1>0, <1>4, <1>11, StepsGo DEF Recovered, IsAt, Goes
<1>12. CASE CopyAside(p) \/ Spawn(p) \/ Patch(p) \/ SessionEnds(p) \/ Finish(p) \/ Guard(p)
  <2>1. Kept(p) /\ Holds(p) /\ runs'[p].alive
    BY <1>0, <1>12, StepsGo DEF Goes
  <2>2. runs[p].at \notin {"starting", "recovering"}
    BY <1>12 DEF CopyAside, Spawn, Patch, SessionEnds, Finish, Guard, IsAt, BeforeGuard
  <2>. QED  BY <1>4, <2>1, <2>2
<1>13. CASE MakeTwin(p)
  <2>1. Goes(p, "working") \/ IsOver(p)
    BY <1>0, <1>13, StepsGo
  <2>2. runs[p].at \notin {"starting", "recovering"}
    BY <1>13 DEF MakeTwin, IsAt
  <2>. QED  BY <1>4, <1>5, <2>1, <2>2 DEF Goes, IsOver
<1>14. CASE AwaitServer(p)
  <2>1. Goes(p, "leaving") \/ Measures(p)
    BY <1>14, AwaitMeasures
  <2>2. runs[p].at \notin {"starting", "recovering"}
    BY <1>14 DEF AwaitServer, IsAt
  <2>. QED  BY <1>4, <2>1, <2>2 DEF Goes, Measures
<1>15. CASE Exit(p) \/ Kill(p) \/ KillWriting(p)
  BY <1>0, <1>5, <1>15, StepsGo DEF IsOver, Dies
<1>. QED  BY <1>6, <1>7, <1>9, <1>10, <1>11, <1>12, <1>13, <1>14, <1>15 DEF RunStep

\* A run that starts has everything before it.
LEMMA ArrivalsKeepProgress ==
  ASSUME Progress, Papers, NEW n, Arrives(n), UNCHANGED <<records, copies, mishaps>>
  PROVE  Progress'
<1>1. n \in Runs /\ runs[n].does = "session" /\ runs'[n].at = "starting"
  BY DEF Arrives, Unstarted
<1>2. \A i \in Runs : Settled(i) => Settled(i)'
  <2>1. ASSUME NEW i \in Runs, Settled(i) PROVE Settled(i)'
    <3>1. CASE i = n
      BY <1>1, <3>1 DEF Papers, PaperOf, Settled
    <3>2. CASE i # n
      BY <2>1, <3>2 DEF Settled, Arrives
    <3>. QED  BY <3>1, <3>2
  <2>. QED  BY <2>1
<1>3. ASSUME NEW q \in Runs, NEW i \in Runs, runs'[q].alive, runs'[q].at # "starting", i < q
      PROVE  Reached(q, i)'
  <2>1. q # n
    BY <1>1, <1>3
  <2>2. /\ runs[q].alive /\ runs[q].at # "starting"
        /\ runs'[q].todo = runs[q].todo /\ runs'[q].spared = runs[q].spared
        /\ runs'[q].failed = runs[q].failed /\ runs'[q].inHand = runs[q].inHand
        /\ runs[q].at = "recovering" => runs'[q].at = "recovering"
    BY <1>3, <2>1 DEF Arrives
  <2>3. Reached(q, i)
    BY <1>3, <2>2 DEF Progress, Reached
  <2>. QED  BY <1>2, <2>2, <2>3 DEF Reached
<1>. QED  BY <1>3 DEF Progress, Reached

(***************************************************************************)
(* What a step does to the world, to the records and to who holds them.    *)
(***************************************************************************)
\* A run undoes the change of a dead one, or its own at the end.
Takes(p, i) ==
  /\ runs[p].alive /\ TakesInHand(p, i) /\ UNCHANGED <<records, copies, mishaps>>
  /\ \/ runs[p].at = "recovering" /\ Gone(i)
     \/ runs[p].at = "leaving" /\ i = p
  /\ records[i] = "whole" /\ Undone(i).ok /\ world' = Undone(i).world

\* Or else nobody takes anything in hand, and the world changes by the run's own change.
Touches(p) ==
  /\ \A q \in Runs : runs'[q].inHand \in {runs[q].inHand, NoRun}
  /\ world'.file = world.file \/ Patch(p) \/ KillWriting(p)
  /\ world'.twin = world.twin \/ MakeTwin(p)
  /\ world'.port = world.port \/ Spawn(p) \/ Finish(p)

\* Every step but the arrival of a session is one of the two.
LEMMA TakesOrTouches ==
  ASSUME LedgerTyped, Hands, NEW p \in Runs, RunStep(p) \/ Kill(p) \/ KillWriting(p),
         ~DriveSession(p)
  PROVE  (\E i \in Runs : Takes(p, i)) \/ Touches(p)
<1>0. RunsTyped /\ world \in World /\ runs[p] \in RunRecord
  BY DEF LedgerTyped, RunsTyped
<1>1. ASSUME Kept(p), runs'[p].inHand \in {runs[p].inHand, NoRun}
      PROVE  \A q \in Runs : runs'[q].inHand \in {runs[q].inHand, NoRun}
  BY <1>1 DEF Kept
<1>2. ASSUME NEW i \in Runs, runs[p].alive, UndoRecord(p, i),
             \/ runs[p].at = "recovering" /\ Gone(i)
             \/ runs[p].at = "leaving" /\ i = p
      PROVE  (\E j \in Runs : Takes(p, j)) \/ Touches(p)
  <2>1. UNCHANGED <<records, copies>> /\
        \/ /\ TakesInHand(p, i) /\ records[i] = "whole" /\ Undone(i).ok
           /\ world' = Undone(i).world /\ UNCHANGED mishaps
        \/ (PassesOver(p, i) \/ FailsOn(p, i) \/ IsOver(p)) /\ world' = world
    BY <1>0, <1>2, UndoMoves
  <2>2. CASE TakesInHand(p, i) /\ records[i] = "whole" /\ Undone(i).ok
             /\ world' = Undone(i).world /\ UNCHANGED mishaps
    <3>1. Takes(p, i)
      BY <1>2, <2>1, <2>2 DEF Takes
    <3>. QED  BY <3>1
  <2>3. CASE (PassesOver(p, i) \/ FailsOn(p, i) \/ IsOver(p)) /\ world' = world
    <3>1. Kept(p) /\ runs'[p].inHand = runs[p].inHand
      BY <2>3 DEF PassesOver, FailsOn, IsOver, Holds
    <3>. QED  BY <1>1, <2>3, <3>1 DEF Touches
  <2>. QED  BY <2>1, <2>2, <2>3
<1>3. CASE Recover(p)
  <2>1. PICK i \in runs[p].todo : UndoRecord(p, i)
    BY <1>3 DEF Recover
  <2>2. i \in Runs /\ Gone(i) /\ runs[p].alive /\ runs[p].at = "recovering"
    BY <1>0, <1>3 DEF Hands, HoldsTheDead, Recover, IsAt, RunRecord
  <2>. QED  BY <1>2, <2>1, <2>2
<1>4. CASE UndoOwn(p)
  BY <1>2, <1>4 DEF UndoOwn, IsAt
<1>5. CASE ReleaseCopy(p)
  BY <1>5 DEF ReleaseCopy, Touches
<1>6. CASE LookForLeftovers(p) \/ ReleaseRecord(p) \/ AwaitServer(p)
  <2>1. Kept(p) /\ runs'[p].inHand \in {runs[p].inHand, NoRun}
    BY <1>0, <1>6, LookLooks, ReleaseLetsGo, AwaitMeasures DEF Looks, LetsGo, Goes, Measures, Holds
  <2>2. UNCHANGED world
    BY <1>6 DEF LookForLeftovers, ReleaseRecord, AwaitServer
  <2>. QED  BY <1>1, <2>1, <2>2 DEF Touches
<1>7. CASE \/ Recovered(p) \/ CopyAside(p) \/ Spawn(p) \/ Guard(p) \/ Patch(p) \/ MakeTwin(p)
           \/ SessionEnds(p) \/ Finish(p) \/ Exit(p) \/ Kill(p) \/ KillWriting(p)
  <2>1. Kept(p) /\ runs'[p].inHand \in {runs[p].inHand, NoRun}
    BY <1>0, <1>7, StepsGo DEF Goes, IsOver, Dies, Holds
  <2>2. CASE Spawn(p) \/ Finish(p)
    <3>1. \E port : world' = [world EXCEPT !.port = port]
      BY <2>2 DEF Spawn, Finish
    <3>2. world'.file = world.file /\ world'.twin = world.twin
      BY <1>0, <3>1 DEF World
    <3>. QED  BY <1>1, <2>1, <2>2, <3>2 DEF Touches
  <2>3. CASE Patch(p) \/ KillWriting(p)
    <3>1. world' = world \/ \E file : world' = [world EXCEPT !.file = file]
      BY <2>3 DEF Patch, KillWriting
    <3>2. world'.port = world.port /\ world'.twin = world.twin
      BY <1>0, <3>1 DEF World
    <3>. QED  BY <1>1, <2>1, <2>3, <3>2 DEF Touches
  <2>4. CASE MakeTwin(p)
    <3>1. world'.port = world.port /\ world'.file = world.file
      BY <1>0, <2>4 DEF World, MakeTwin
    <3>. QED  BY <1>1, <2>1, <2>4, <3>1 DEF Touches
  <2>5. CASE Recovered(p) \/ CopyAside(p) \/ Guard(p) \/ SessionEnds(p) \/ Exit(p) \/ Kill(p)
    <3>1. UNCHANGED world
      BY <2>5 DEF Recovered, CopyAside, Guard, SessionEnds, Exit, Kill
    <3>. QED  BY <1>1, <2>1, <3>1 DEF Touches
  <2>. QED  BY <1>7, <2>2, <2>3, <2>4, <2>5
<1>. QED  BY <1>3, <1>4, <1>5, <1>6, <1>7 DEF RunStep

\* A whole record stays, and its copy, unless the run that steps has it in hand.
LEMMA RecordStays ==
  ASSUME LedgerTyped, Papers, NEW p \in Runs, RunStep(p) \/ Kill(p) \/ KillWriting(p),
         ~DriveSession(p), NEW m \in Runs, runs[p].inHand # m, records[m] = "whole"
  PROVE  records'[m] = "whole" /\ copies'[m] = copies[m] /\ runs'[m].does = runs[m].does
<1>0. /\ RunsTyped /\ PaperOf(p) /\ runs[p].inHand \in SomeRun
      /\ records \in [Runs -> {"none", "torn", "whole"}]
      /\ copies \in [Runs -> {"none", "torn", "pristine"}]
  BY DEF LedgerTyped, Papers, RunsTyped, RunRecord
<1>1. runs'[m].does = runs[m].does
  BY <1>0, OneMoves DEF Kept
<1>2. CASE ReleaseCopy(p) \/ ReleaseRecord(p)
  BY <1>0, <1>1, <1>2 DEF ReleaseCopy, ReleaseRecord
<1>3. CASE CopyAside(p)
  <2>1. m # p
    BY <1>0, <1>3 DEF CopyAside, IsAt, PaperOf
  <2>. QED  BY <1>0, <1>1, <1>3, <2>1 DEF CopyAside
<1>4. CASE Guard(p)
  BY <1>0, <1>1, <1>4 DEF Guard
<1>5. CASE KillWriting(p)
  <2>1. runs[p].at \in {"ready", BeforeGuard(p)} => m # p
    <3>1. runs[p].alive /\ runs[p].at \in Places /\ BeforeGuard(p) \in {"copied", "ready", "spawned", "never"}
      BY <1>0, <1>5 DEF KillWriting, Killed, BeforeGuard, RunsTyped, RunRecord
    <3>2. BeforeGuard(p) = runs[p].at => BeforeGuard(p) # "never"
      BY <3>1 DEF Places
    <3>. QED  BY <1>0, <3>1, <3>2 DEF PaperOf
  <2>. QED  BY <1>0, <1>1, <1>5, <2>1 DEF KillWriting
<1>6. CASE Recover(p) \/ UndoOwn(p)
  BY <1>1, <1>6 DEF Recover, UndoOwn, UndoRecord
<1>7. CASE \/ LookForLeftovers(p) \/ Recovered(p) \/ Spawn(p) \/ Patch(p) \/ MakeTwin(p)
           \/ AwaitServer(p) \/ SessionEnds(p) \/ Finish(p) \/ Exit(p) \/ Kill(p)
  BY <1>1, <1>7 DEF LookForLeftovers, Recovered, Spawn, Patch, MakeTwin, AwaitServer,
                    SessionEnds, Finish, Exit, Kill
<1>. QED  BY <1>2, <1>3, <1>4, <1>5, <1>6, <1>7 DEF RunStep

(***************************************************************************)
(* What is changed stays on record.                                        *)
(***************************************************************************)

\* Nobody holds a live run that is not leaving.
LEMMA LiveIsUnheld ==
  ASSUME Hands, NEW p \in Runs, runs[p].alive, runs[p].at # "leaving"
  PROVE  \A q \in Runs : runs[q].inHand # p
BY DEF Hands, HoldsTheDead, Gone

\* A step kills, or revives nobody.
LEMMA NobodyRevives ==
  ASSUME LedgerTyped, NEW p \in Runs, RunStep(p) \/ Kill(p) \/ KillWriting(p), ~DriveSession(p)
  PROVE  \A q \in Runs : runs'[q].alive => runs[q].alive
<1>1. RunsTyped
  BY DEF LedgerTyped
<1>. QED  BY <1>1, OneMoves DEF Kept

\* The file can be restored from what is on disk, whatever a run does.
LEMMA RunsKeepFileOnPaper ==
  ASSUME LedgerTyped, Order, Hands, Papers, FileOnPaper, NEW p \in Runs,
         RunStep(p) \/ Kill(p) \/ KillWriting(p), ~DriveSession(p)
  PROVE  FileOnPaper'
<1>0. /\ RunsTyped /\ PaperOf(p) /\ NoRun \notin Runs
      /\ mishaps.overlap => mishaps'.overlap
      /\ copies \in [Runs -> {"none", "torn", "pristine"}]
      /\ records \in [Runs -> {"none", "torn", "whole"}]
      /\ \A q \in Runs : runs'[q].alive => runs[q].alive
  BY RunsKeepTypes, NobodyRevives DEF LedgerTyped, Papers, NoRun, Runs
<1>1. ASSUME NEW m \in Runs, RestoresFile(m), runs[p].alive,
             \A q \in Runs : runs'[q].inHand = m => runs[q].inHand = m
      PROVE  FileOnPaper'
  <2>1. runs[p].inHand # m /\ records[m] = "whole"
    BY <1>1 DEF RestoresFile, Unheld
  <2>2. records'[m] = "whole" /\ copies'[m] = copies[m] /\ runs'[m].does = runs[m].does
    BY <2>1, RecordStays
  <2>3. RestoresFile(m)'
    BY <1>0, <1>1, <2>2 DEF RestoresFile, Unheld
  <2>. QED  BY <2>3 DEF FileOnPaper
<1>2. runs[p].alive
  <2>1. ReleaseCopy(p) => runs[p].alive
    BY DEF ReleaseCopy
  <2>. QED  BY <1>0, <2>1, OneMoves DEF Kept
<1>3. ASSUME NEW i \in Runs, Takes(p, i) PROVE FileOnPaper'
  <2>1. CASE runs[i].does = "file"
    <3>1. world'.file = copies[i] /\ copies[i] # "none"
      BY <1>3, <2>1, UndoneWorld DEF Takes
    <3>2. ~mishaps.overlap => copies[i] # "torn"
      BY <1>3 DEF Takes, Papers, PaperOf
    <3>3. copies[i] \in {"none", "torn", "pristine"}
      BY <1>0
    <3>. QED  BY <1>0, <3>1, <3>2, <3>3 DEF FileOnPaper
  <2>2. CASE runs[i].does # "file"
    <3>1. world'.file = world.file
      BY <1>3, <2>2, UndoneWorld DEF Takes
    <3>2. CASE world.file # "pristine" /\ ~mishaps.overlap
      <4>1. PICK m \in Runs : RestoresFile(m)
        BY <3>2 DEF FileOnPaper
      <4>2. m # i
        BY <2>2, <4>1 DEF RestoresFile
      <4>3. \A q \in Runs : runs'[q].inHand = m => runs[q].inHand = m
        BY <1>3, <4>2 DEF Takes, TakesInHand, Kept
      <4>. QED  BY <1>1, <1>2, <4>1, <4>3
    <3>3. CASE ~(world.file # "pristine" /\ ~mishaps.overlap)
      BY <1>0, <3>1, <3>3 DEF FileOnPaper
    <3>. QED  BY <3>2, <3>3
  <2>. QED  BY <2>1, <2>2
<1>4. ASSUME Touches(p), world'.file = world.file PROVE FileOnPaper'
  <2>1. CASE world.file # "pristine" /\ ~mishaps.overlap
    <3>1. PICK m \in Runs : RestoresFile(m)
      BY <2>1 DEF FileOnPaper
    <3>2. \A q \in Runs : runs'[q].inHand = m => runs[q].inHand = m
      BY <1>0, <1>4 DEF Touches
    <3>. QED  BY <1>1, <1>2, <3>1, <3>2
  <2>2. CASE ~(world.file # "pristine" /\ ~mishaps.overlap)
    BY <1>0, <1>4, <2>2 DEF FileOnPaper
  <2>. QED  BY <2>1, <2>2
<1>5. ASSUME Touches(p), records[p] = "whole", runs[p].does = "file", runs[p].inHand = NoRun,
             \A q \in Runs : runs'[q].alive => runs[q].inHand # p
      PROVE  FileOnPaper'
  <2>1. CASE mishaps.overlap
    BY <1>0, <2>1 DEF FileOnPaper
  <2>2. CASE ~mishaps.overlap
    <3>1. copies[p] = "pristine"
      BY <1>0, <1>2, <1>5, <2>2 DEF PaperOf
    <3>2. /\ records'[p] = "whole" /\ copies'[p] = copies[p] /\ runs'[p].does = runs[p].does
          /\ \A q \in Runs : runs'[q].alive => runs'[q].inHand # p
      BY <1>0, <1>5, RecordStays DEF Touches
    <3>3. RestoresFile(p)'
      BY <1>5, <3>1, <3>2 DEF RestoresFile, Unheld
    <3>. QED  BY <3>3 DEF FileOnPaper
  <2>. QED  BY <2>1, <2>2
<1>6. CASE Patch(p) /\ Touches(p)
  <2>1. runs[p].at = "guarded" /\ runs[p].does = "file"
    BY <1>6 DEF Patch, IsAt, Does
  <2>2. \A q \in Runs : runs[q].inHand # p
    BY <1>2, <2>1, LiveIsUnheld
  <2>3. runs[p].inHand = NoRun
    BY <1>0, <2>1 DEF LedgerTyped, RunsTyped, RunRecord, SomeRun, Hands, HoldsTheDead
  <2>. QED  BY <1>0, <1>2, <1>5, <1>6, <2>1, <2>2, <2>3 DEF PaperOf
<1>7. CASE KillWriting(p) /\ Touches(p)
  <2>0. Dies(p)
    BY <1>0, <1>7, StepsGo
  <2>1. CASE UNCHANGED world
    BY <1>4, <1>7, <2>1
  <2>2. CASE Does(p, {"file"}) /\ runs[p].inHand = NoRun /\ records[p] = "whole"
    <3>1. \A q \in Runs : runs'[q].alive => runs[q].inHand # p
      BY <1>2, <2>0 DEF Dies, Kept, Hands, HoldsTheDead, Gone
    <3>. QED  BY <1>5, <1>7, <2>2, <3>1 DEF Does
  <2>3. CASE /\ runs[p].at = "recovering" /\ runs[p].inHand = NoRun
             /\ \E i \in runs[p].todo :
                  /\ \A other \in runs[p].todo : i <= other
                  /\ Does(i, {"file"}) /\ records[i] = "whole" /\ copies[i] # "none"
    <3>1. PICK i \in runs[p].todo : runs[i].does = "file" /\ records[i] = "whole" /\ copies[i] # "none"
      BY <2>3 DEF Does
    <3>2. i \in Runs
      BY <1>0 DEF RunsTyped, RunRecord
    <3>3. CASE mishaps'.overlap
      BY <3>3 DEF FileOnPaper
    <3>4. CASE ~mishaps'.overlap
      <4>. DEFINE overlap == runs[p].at = "recovering" /\ \E q \in Runs \ {p} :
                               runs[q].alive /\ runs[q].inHand \in runs[p].todo
      <4>1. overlap \in BOOLEAN /\ Killed(p, overlap) /\ mishaps \in Mishaps
        BY <1>7 DEF KillWriting, LedgerTyped
      <4>2. mishaps'.overlap <=> mishaps.overlap \/ overlap
        <5>. HIDE DEF overlap
        <5>. QED  BY <4>1, KillIsNoted
      <4>3. ~mishaps.overlap /\ \A q \in Runs \ {p} : runs[q].alive => runs[q].inHand # i
        BY <2>3, <3>4, <4>2
      <4>4. copies[i] = "pristine"
        BY <1>0, <3>1, <3>2, <4>3 DEF Papers, PaperOf
      <4>5. RestoresFile(i)
        BY <1>0, <2>3, <3>1, <3>2, <4>3, <4>4 DEF RestoresFile, Unheld
      <4>6. \A q \in Runs : runs'[q].inHand = i => runs[q].inHand = i
        BY <1>0, <1>7, <3>2 DEF Touches
      <4>. QED  BY <1>1, <1>2, <3>2, <4>5, <4>6
    <3>. QED  BY <3>3, <3>4
  <2>. QED  BY <1>7, <2>1, <2>2, <2>3 DEF KillWriting
<1>8. (\E i \in Runs : Takes(p, i)) \/ Touches(p)
  BY TakesOrTouches
<1>. QED  BY <1>3, <1>4, <1>6, <1>7, <1>8 DEF Touches

\* The twin is on the record of one that nobody has in hand.
LEMMA RunsKeepTwinOnPaper ==
  ASSUME LedgerTyped, Order, Hands, Papers, TwinOnPaper, NEW p \in Runs,
         RunStep(p) \/ Kill(p) \/ KillWriting(p), ~DriveSession(p)
  PROVE  TwinOnPaper'
<1>0. RunsTyped /\ PaperOf(p) /\ NoRun \notin Runs
  BY DEF LedgerTyped, Papers, NoRun, Runs
<1>1. ASSUME NEW m \in Runs, DropsTwin(m),
             \A q \in Runs : runs'[q].inHand = m => runs[q].inHand = m
      PROVE  TwinOnPaper'
  <2>1. runs[p].inHand # m /\ records[m] = "whole"
    BY <1>1 DEF DropsTwin
  <2>2. records'[m] = "whole" /\ runs'[m].does = runs[m].does
    BY <2>1, RecordStays
  <2>3. DropsTwin(m)'
    BY <1>1, <2>2 DEF DropsTwin
  <2>. QED  BY <2>3 DEF TwinOnPaper
<1>2. ASSUME NEW i \in Runs, Takes(p, i) PROVE TwinOnPaper'
  <2>1. CASE runs[i].does = "collection"
    <3>1. world'.twin = "gone"
      BY <1>2, <2>1, UndoneWorld DEF Takes
    <3>. QED  BY <3>1 DEF TwinOnPaper
  <2>2. CASE runs[i].does # "collection"
    <3>1. world'.twin = world.twin
      BY <1>2, <2>2, UndoneWorld DEF Takes
    <3>2. CASE world.twin = "made"
      <4>1. PICK m \in Runs : DropsTwin(m)
        BY <3>2 DEF TwinOnPaper
      <4>2. m # i
        BY <2>2, <4>1 DEF DropsTwin
      <4>3. \A q \in Runs : runs'[q].inHand = m => runs[q].inHand = m
        BY <1>2, <4>2 DEF Takes, TakesInHand, Kept
      <4>. QED  BY <1>1, <4>1, <4>3
    <3>3. CASE world.twin # "made"
      BY <3>1, <3>3 DEF TwinOnPaper
    <3>. QED  BY <3>2, <3>3
  <2>. QED  BY <2>1, <2>2
<1>3. ASSUME Touches(p), world'.twin = world.twin PROVE TwinOnPaper'
  <2>1. CASE world.twin = "made"
    <3>1. PICK m \in Runs : DropsTwin(m)
      BY <2>1 DEF TwinOnPaper
    <3>. QED  BY <1>0, <1>1, <1>3, <3>1 DEF Touches
  <2>2. CASE world.twin # "made"
    BY <1>3, <2>2 DEF TwinOnPaper
  <2>. QED  BY <2>1, <2>2
<1>4. CASE MakeTwin(p) /\ Touches(p)
  <2>1. runs[p].alive /\ runs[p].at = "guarded" /\ runs[p].does = "collection"
    BY <1>4 DEF MakeTwin, IsAt, Does
  <2>2. \A q \in Runs : runs[q].inHand # p
    BY <2>1, LiveIsUnheld
  <2>3. DropsTwin(p)
    BY <1>0, <2>1, <2>2 DEF DropsTwin, PaperOf
  <2>. QED  BY <1>0, <1>1, <1>4, <2>3 DEF Touches
<1>5. (\E i \in Runs : Takes(p, i)) \/ Touches(p)
  BY TakesOrTouches
<1>. QED  BY <1>2, <1>3, <1>4, <1>5 DEF Touches

\* A run that holds the port writes its record and measures, or ends and lets go of it.
LEMMA ServersGoOn ==
  ASSUME LedgerTyped, Hands, Papers, NEW p \in Runs, runs[p].does \in {"api", "stock"},
         runs[p].at \in {"spawned", "guarded", "working"},
         RunStep(p) \/ Kill(p) \/ KillWriting(p), ~DriveSession(p), world.port = p,
         runs[p].at # "spawned" => records[p] = "whole"
  PROVE  \/ world'.port = NoRun
         \/ /\ runs'[p].at \in {"spawned", "guarded", "working"}
            /\ runs'[p].at # "spawned" => records'[p] = "whole"
<1>0. /\ RunsTyped /\ NoRun \notin Runs /\ world \in World
      /\ records \in [Runs -> {"none", "torn", "whole"}]
      /\ runs[p].inHand = NoRun
  BY DEF LedgerTyped, NoRun, Runs, Hands, HoldsTheDead, RunsTyped, RunRecord, SomeRun
<1>1. records[p] = "whole" => records'[p] = "whole"
  BY <1>0, RecordStays
<1>2. CASE Guard(p)
  <2>1. records'[p] = "whole" /\ runs'[p].at = "guarded"
    BY <1>0, <1>2, StepsGo DEF Guard, Goes
  <2>. QED  BY <2>1
<1>3. CASE AwaitServer(p)
  <2>1. Measures(p) /\ runs[p].at = "guarded"
    BY <1>0, <1>3, AwaitMeasures DEF AwaitServer, IsAt
  <2>. QED  BY <1>1, <2>1 DEF Measures
<1>4. CASE Finish(p)
  <2>. DEFINE port == IF world.port = p THEN NoRun ELSE world.port
  <2>1. world' = [world EXCEPT !.port = port] /\ port = NoRun
    BY <1>4 DEF Finish
  <2>. HIDE DEF port
  <2>. QED  BY <1>0, <2>1 DEF World
<1>5. CASE Kill(p) \/ KillWriting(p)
  BY <1>0, <1>1, <1>5, StepsGo DEF Dies
<1>6. CASE Exit(p)
  BY <1>6 DEF Exit, IsAt
<1>7. CASE \/ LookForLeftovers(p) \/ Recover(p) \/ ReleaseCopy(p) \/ ReleaseRecord(p) \/ Recovered(p)
           \/ CopyAside(p) \/ Spawn(p) \/ Patch(p) \/ MakeTwin(p) \/ SessionEnds(p) \/ UndoOwn(p)
  BY <1>0, <1>7 DEF LookForLeftovers, Recover, ReleaseCopy, ReleaseRecord, Recovered, CopyAside, Spawn,
                    Patch, MakeTwin, SessionEnds, UndoOwn, IsAt, Does
<1>. QED  BY <1>2, <1>3, <1>4, <1>5, <1>6, <1>7 DEF RunStep

\* The server that holds the port is on record, but for the moment after its spawn.
LEMMA RunsKeepPortOnPaper ==
  ASSUME LedgerTyped, Order, Hands, Papers, PortOnPaper, NEW p \in Runs,
         RunStep(p) \/ Kill(p) \/ KillWriting(p), ~DriveSession(p)
  PROVE  PortOnPaper'
<1>0. RunsTyped /\ PaperOf(p) /\ NoRun \notin Runs /\ world \in World
  BY DEF LedgerTyped, Papers, NoRun, Runs
<1>1. ASSUME NEW x \in Runs, world'.port = x, world.port = x,
             \A q \in Runs : runs'[q].inHand # x
      PROVE  /\ runs'[x].does \in {"api", "stock"} /\ runs'[x].at \in {"spawned", "guarded", "working"}
             /\ runs'[x].at # "spawned" => records'[x] = "whole"
  <2>1. /\ runs[x].does \in {"api", "stock"} /\ runs[x].at \in {"spawned", "guarded", "working"}
        /\ runs[x].at # "spawned" => records[x] = "whole"
        /\ \A q \in Runs : runs[q].inHand # x
    BY <1>1 DEF PortOnPaper
  <2>2. runs'[x].does = runs[x].does
    BY <1>0, OneMoves DEF Kept
  <2>3. CASE x = p
    BY <1>0, <1>1, <2>1, <2>2, <2>3, ServersGoOn
  <2>4. CASE x # p
    <3>1. runs'[x] = runs[x]
      BY <1>0, <2>4, OneMoves DEF Kept
    <3>2. records[x] = "whole" => records'[x] = "whole"
      BY <2>1, RecordStays
    <3>. QED  BY <2>1, <3>1, <3>2
  <2>. QED  BY <2>3, <2>4
<1>2. ASSUME NEW i \in Runs, Takes(p, i) PROVE PortOnPaper'
  <2>1. ASSUME NEW x \in Runs, world'.port = x
        PROVE  world.port = x /\ \A q \in Runs : runs'[q].inHand # x
    <3>1. world.port = x
      BY <1>0, <1>2, <2>1, UndoneWorld DEF Takes
    <3>2. runs[x].does \in {"api", "stock"} /\ \A q \in Runs : runs[q].inHand # x
      BY <3>1 DEF PortOnPaper
    <3>3. x # i
      BY <1>0, <1>2, <2>1, <3>1, <3>2, UndoneWorld DEF Takes
    <3>. QED  BY <1>2, <3>1, <3>2, <3>3 DEF Takes, TakesInHand, Kept
  <2>. QED  BY <1>1, <2>1 DEF PortOnPaper
<1>3. ASSUME Touches(p), NEW x \in Runs, world'.port = x, world.port = x
      PROVE  \A q \in Runs : runs'[q].inHand # x
  BY <1>0, <1>3 DEF Touches, PortOnPaper
<1>4. CASE Touches(p) /\ ~Spawn(p)
  <2>1. ASSUME NEW x \in Runs, world'.port = x PROVE world.port = x
    <3>1. CASE Finish(p)
      <4>. DEFINE port == IF world.port = p THEN NoRun ELSE world.port
      <4>1. world' = [world EXCEPT !.port = port]
        BY <3>1 DEF Finish
      <4>2. world'.port = port
        <5>. HIDE DEF port
        <5>. QED  BY <1>0, <4>1 DEF World
      <4>. QED  BY <1>0, <2>1, <4>2
    <3>2. CASE ~Finish(p)
      BY <1>4, <2>1, <3>2 DEF Touches
    <3>. QED  BY <3>1, <3>2
  <2>. QED  BY <1>1, <1>3, <1>4, <2>1 DEF PortOnPaper
<1>5. CASE Touches(p) /\ Spawn(p)
  <2>. DEFINE port == IF world.port = NoRun THEN p ELSE world.port
  <2>1. world' = [world EXCEPT !.port = port]
    BY <1>5 DEF Spawn
  <2>2. world'.port = port
    <3>. HIDE DEF port
    <3>. QED  BY <1>0, <2>1 DEF World
  <2>3. CASE world.port # NoRun
    <3>1. world'.port = world.port
      BY <2>2, <2>3
    <3>. QED  BY <1>1, <1>3, <1>5, <3>1 DEF PortOnPaper
  <2>4. CASE world.port = NoRun
    <3>1. world'.port = p
      BY <2>2, <2>4
    <3>2. runs[p].alive /\ runs[p].at = "ready" /\ runs[p].does \in {"api", "stock"}
      BY <1>5 DEF Spawn, IsAt, Does
    <3>3. runs'[p].at = "spawned" /\ runs'[p].does = runs[p].does
      BY <1>0, <1>5, StepsGo DEF Goes, Kept
    <3>4. \A q \in Runs : runs'[q].inHand # p
      BY <1>0, <1>5, <3>2, LiveIsUnheld DEF Touches
    <3>. QED  BY <3>1, <3>2, <3>3, <3>4 DEF PortOnPaper
  <2>. QED  BY <2>3, <2>4
<1>6. (\E i \in Runs : Takes(p, i)) \/ Touches(p)
  BY TakesOrTouches
<1>. QED  BY <1>2, <1>4, <1>5, <1>6

\* A run that starts has nothing to do with what is changed.
LEMMA ArrivalsKeepOnPaper ==
  ASSUME OnPaper, Papers, Hands, NEW n, Arrives(n), UNCHANGED <<records, copies, world, mishaps>>
  PROVE  OnPaper'
<1>1. /\ n \in Runs /\ records[n] = "none" /\ NoRun \notin Runs
      /\ runs[n].does = "session" /\ runs'[n].inHand = NoRun
  BY DEF Arrives, Unstarted, Papers, PaperOf, NoRun, Runs
<1>2. /\ \A q \in Runs : runs'[q].inHand \in {runs[q].inHand, NoRun}
      /\ \A q \in Runs \ {n} : (runs'[q].alive => runs[q].alive) /\ runs'[q].does = runs[q].does
  BY <1>1 DEF Arrives
<1>3. FileOnPaper'
  <2>1. ASSUME NEW m \in Runs, RestoresFile(m) PROVE RestoresFile(m)'
    <3>1. m # n
      BY <1>1, <2>1 DEF RestoresFile
    <3>. QED  BY <1>1, <1>2, <2>1, <3>1 DEF RestoresFile, Unheld
  <2>. QED  BY <2>1 DEF OnPaper, FileOnPaper
<1>4. TwinOnPaper'
  <2>1. ASSUME NEW m \in Runs, DropsTwin(m) PROVE DropsTwin(m)'
    <3>1. m # n
      BY <1>1, <2>1 DEF DropsTwin
    <3>. QED  BY <1>1, <1>2, <2>1, <3>1 DEF DropsTwin
  <2>. QED  BY <2>1 DEF OnPaper, TwinOnPaper
<1>5. PortOnPaper'
  <2>1. ASSUME NEW x \in Runs, world'.port = x
        PROVE  /\ runs'[x].does \in {"api", "stock"} /\ runs'[x].at \in {"spawned", "guarded", "working"}
               /\ runs'[x].at # "spawned" => records'[x] = "whole"
               /\ \A q \in Runs : runs'[q].inHand # x
    <3>1. /\ runs[x].does \in {"api", "stock"} /\ runs[x].at \in {"spawned", "guarded", "working"}
          /\ runs[x].at # "spawned" => records[x] = "whole"
          /\ \A q \in Runs : runs[q].inHand # x
      BY <2>1 DEF OnPaper, PortOnPaper
    <3>2. x # n /\ runs'[x].at = runs[x].at
      BY <1>1, <3>1 DEF Arrives
    <3>. QED  BY <1>1, <1>2, <3>1, <3>2
  <2>. QED  BY <2>1 DEF PortOnPaper
<1>. QED  BY <1>3, <1>4, <1>5 DEF OnPaper

(***************************************************************************)
(* What a live run works on.                                               *)
(***************************************************************************)

\* Who is at work after a step was before, or begins to be with it.
LEMMA WorkGoesOn ==
  ASSUME LedgerTyped, Hands, NEW p \in Runs, RunStep(p) \/ Kill(p) \/ KillWriting(p),
         ~DriveSession(p), NEW w \in Runs, runs'[w].alive, runs'[w].at \in {"working", "waiting"}
  PROVE  \/ w # p /\ runs'[w] = runs[w]
         \/ w = p /\ runs'[p].at = "working" /\ runs'[p].does = runs[p].does
            /\ ((Patch(p) /\ Goes(p, "working")) \/ (MakeTwin(p) /\ Goes(p, "working"))
                \/ (AwaitServer(p) /\ Measures(p) /\ world.port # NoRun))
<1>0. RunsTyped
  BY DEF LedgerTyped
<1>1. CASE w # p
  BY <1>0, <1>1, OneMoves DEF Kept
<1>2. CASE w = p
  <2>0. runs[p].at \notin {"recovering", "leaving"} => runs[p].inHand = NoRun
    BY DEF Hands, HoldsTheDead, LedgerTyped, RunsTyped, RunRecord, SomeRun
  <2>1. ~ReleaseCopy(p)
    BY <1>2, <2>0 DEF ReleaseCopy
  <2>2. ~ReleaseRecord(p)
    <3>1. ReleaseRecord(p) => runs[p].inHand # NoRun /\ runs'[p].at = runs[p].at
      BY <1>0, ReleaseLetsGo DEF ReleaseRecord, LetsGo, Stands
    <3>. QED  BY <1>2, <2>0, <3>1
  <2>3. ~(Recover(p) \/ UndoOwn(p))
    <3>1. ASSUME Recover(p) \/ UndoOwn(p) PROVE FALSE
      <4>1. runs[p].alive /\ runs[p].at \in {"recovering", "leaving"} /\ \E i \in Runs : UndoRecord(p, i)
        BY <1>0, <3>1 DEF Recover, UndoOwn, IsAt, RunsTyped, RunRecord
      <4>2. runs'[p].at = runs[p].at \/ ~runs'[p].alive
        BY <1>0, <4>1, UndoMoves DEF TakesInHand, PassesOver, FailsOn, IsOver, Stands
      <4>. QED  BY <1>2, <4>1, <4>2
    <3>. QED  BY <3>1
  <2>4. ~LookForLeftovers(p)
    BY <1>0, <1>2, LookLooks DEF Looks
  <2>5. ~(Recovered(p) \/ CopyAside(p) \/ Spawn(p) \/ Guard(p) \/ SessionEnds(p) \/ Finish(p)
          \/ Exit(p) \/ Kill(p) \/ KillWriting(p))
    BY <1>0, <1>2, StepsGo DEF Goes, IsOver, Dies
  <2>6. Patch(p) \/ MakeTwin(p) \/ AwaitServer(p)
    BY <2>1, <2>2, <2>3, <2>4, <2>5 DEF RunStep
  <2>7. (Patch(p) \/ MakeTwin(p) => Goes(p, "working") \/ IsOver(p))
        /\ (AwaitServer(p) => Goes(p, "leaving") \/ (world.port # NoRun /\ Measures(p)))
    BY <1>0, StepsGo, AwaitMeasures
  <2>. QED  BY <1>2, <2>6, <2>7 DEF Goes, IsOver, Measures, Kept
<1>. QED  BY <1>1, <1>2

\* What is not settled, and nobody's who is alive, no run leaves unsettled that
\* is at work: but for the collections it could not drop.
LEMMA WorkIsAlone ==
  ASSUME Order, Hands, Papers, Progress, NEW w \in Runs, runs[w].alive,
         runs[w].at \in {"working", "waiting", "guarded"}, runs[w].does # "session",
         NEW i \in Runs \ {w}, records[i] = "whole",
         runs[i].does = "file" => copies[i] # "none"
  PROVE  runs[i].does = "collection" /\ runs[w].failed # {}
BY OthersAreSettled DEF Settled

\* What another run does leaves alone what a live run works on.
LEMMA OthersKeepWork ==
  ASSUME LedgerTyped, Order, Hands, Papers, Progress, LiveWorkStays, NEW p \in Runs,
         RunStep(p) \/ Kill(p) \/ KillWriting(p), ~DriveSession(p),
         NEW w \in Runs \ {p}, runs[w].alive, runs[w].at \in {"working", "waiting"}
  PROVE  /\ runs[w].does = "file" => world'.file = "patched"
         /\ runs[w].does = "collection" => world'.twin = "made" \/ runs[w].failed # {}
         /\ runs[w].measured = w => world'.port = w
<1>0. /\ RunsTyped /\ NoRun \notin Runs /\ world \in World
      /\ runs[w].does = "file" => world.file = "patched"
      /\ runs[w].does = "collection" => world.twin = "made" \/ runs[w].failed # {}
      /\ runs[w].measured = w => world.port = w
  BY DEF LedgerTyped, LiveWorkStays, IsAt, Does, NoRun, Runs
<1>1. runs[p].alive
  <2>1. ReleaseCopy(p) => runs[p].alive
    BY DEF ReleaseCopy
  <2>. QED  BY <1>0, <2>1, OneMoves DEF Kept
<1>2. runs[w].does # "session" => runs[p].does = "session"
  BY <1>1, OthersAreSessions
<1>3. CASE \E i \in Runs : Takes(p, i)
  <2>1. PICK i \in Runs : Takes(p, i)
    BY <1>3
  <2>2. /\ records[i] = "whole" /\ Undone(i).ok /\ world' = Undone(i).world /\ i # w
        /\ (i = p \/ ~runs[i].alive)
    BY <2>1 DEF Takes, Gone
  <2>3. /\ runs[i].does = "file" => copies[i] # "none" /\ world'.twin = world.twin /\ world'.port = world.port
        /\ runs[i].does = "collection" => world'.file = world.file /\ world'.port = world.port
        /\ runs[i].does \notin {"file", "collection"} =>
             /\ world'.twin = world.twin /\ world'.file = world.file
             /\ world'.port = IF world.port = i THEN NoRun ELSE world.port
    BY <2>2, UndoneWorld
  <2>4. runs[w].does # "session" => runs[i].does = "collection" /\ runs[w].failed # {}
    BY <2>2, <2>3, WorkIsAlone
  <2>5. runs[w].measured = w => world'.port = w
    BY <1>0, <2>2, <2>3
  <2>6. runs[w].does = "file" => world'.file = "patched"
    BY <1>0, <2>3, <2>4
  <2>. QED  BY <2>4, <2>5, <2>6
<1>4. CASE Touches(p)
  <2>1. runs[w].does = "file" => world'.file = "patched"
    <3>1. ASSUME runs[w].does = "file" PROVE world'.file = "patched"
      <4>1. runs[p].does = "session"
        BY <1>2, <3>1
      <4>2. ~Patch(p)
        BY <4>1 DEF Patch, Does
      <4>3. KillWriting(p) => UNCHANGED world
        <5>1. ASSUME NEW i \in runs[p].todo, Does(i, {"file"}), records[i] = "whole", copies[i] # "none"
              PROVE  FALSE
          <6>1. i \in Runs /\ i # w
            BY <1>0, <5>1 DEF RunsTyped, RunRecord, Hands, HoldsTheDead, Gone
          <6>. QED  BY <3>1, <5>1, <6>1, WorkIsAlone DEF Does
        <5>. QED  BY <4>1, <5>1 DEF KillWriting, Does
      <4>. QED  BY <1>0, <1>4, <3>1, <4>2, <4>3 DEF Touches
    <3>. QED  BY <3>1
  <2>2. runs[w].does = "collection" => world'.twin = "made" \/ runs[w].failed # {}
    <3>1. runs[w].does = "collection" => ~MakeTwin(p)
      BY <1>2 DEF MakeTwin, Does
    <3>. QED  BY <1>0, <1>4, <3>1 DEF Touches
  <2>3. runs[w].measured = w => world'.port = w
    <3>1. ASSUME runs[w].measured = w PROVE world'.port = w
      <4>1. world.port = w
        BY <1>0, <3>1
      <4>2. Spawn(p) \/ Finish(p) => world' = [world EXCEPT !.port = w]
        BY <1>0, <4>1 DEF Spawn, Finish
      <4>3. Spawn(p) \/ Finish(p) => world'.port = w
        BY <1>0, <4>2 DEF World
      <4>. QED  BY <1>4, <4>1, <4>3 DEF Touches
    <3>. QED  BY <3>1
  <2>. QED  BY <2>1, <2>2, <2>3
<1>. QED  BY <1>3, <1>4, TakesOrTouches

\* What a run measures is set once, when it awaits the server.
LEMMA MeasuredStays ==
  ASSUME LedgerTyped, NEW p \in Runs, RunStep(p) \/ Kill(p) \/ KillWriting(p), ~DriveSession(p),
         NEW q \in Runs
  PROVE  runs'[q].measured = runs[q].measured \/ (q = p /\ AwaitServer(p) /\ Measures(p))
<1>0. RunsTyped
  BY DEF LedgerTyped
<1>1. CASE q # p
  BY <1>0, <1>1, OneMoves DEF Kept
<1>2. CASE q = p
  <2>1. CASE ReleaseCopy(p)
    BY <2>1 DEF ReleaseCopy
  <2>2. CASE Recover(p) \/ UndoOwn(p)
    <3>1. \E i \in Runs : UndoRecord(p, i) /\ runs[p].alive
      BY <1>0, <2>2 DEF Recover, UndoOwn, IsAt, RunsTyped, RunRecord
    <3>. QED  BY <1>0, <1>2, <3>1, UndoMoves
  <2>3. CASE LookForLeftovers(p) \/ ReleaseRecord(p) \/ AwaitServer(p)
    BY <1>0, <1>2, <2>3, LookLooks, ReleaseLetsGo, AwaitMeasures DEF Looks, LetsGo, Goes
  <2>4. CASE \/ Recovered(p) \/ CopyAside(p) \/ Spawn(p) \/ Guard(p) \/ Patch(p)
             \/ SessionEnds(p) \/ Finish(p) \/ Kill(p) \/ KillWriting(p)
    BY <1>0, <1>2, <2>4, StepsGo DEF Goes, Dies
  <2>5. CASE MakeTwin(p) \/ Exit(p)
    <3>. DEFINE f == [runs[p] EXCEPT !.at = "over", !.alive = FALSE]
    <3>1. runs' = [runs EXCEPT ![p] = f] \/ Goes(p, "working")
      <4>1. MakeTwin(p) => runs[p].alive /\ (Go(p, "working") \/ Put(p, f))
        BY DEF MakeTwin, IsAt
      <4>2. "working" \in Places
        BY DEF Places
      <4>3. Exit(p) => Put(p, f)
        BY DEF Exit
      <4>. QED  BY <1>0, <2>5, <4>1, <4>2, <4>3, GoGoes DEF Put
    <3>2. f.measured = runs[p].measured
      BY <1>0 DEF RunsTyped, RunRecord
    <3>. HIDE DEF f
    <3>. QED  BY <1>0, <1>2, <3>1, <3>2 DEF Goes, RunsTyped
  <2>. QED  BY <2>1, <2>2, <2>3, <2>4, <2>5 DEF RunStep
<1>. QED  BY <1>1, <1>2

\* What a run is given to work on, and what a live run works on, stays.
LEMMA RunsKeepAtWork ==
  ASSUME LedgerTyped, Order, Hands, Papers, Progress, OnPaper, AtWork, NEW p \in Runs,
         RunStep(p) \/ Kill(p) \/ KillWriting(p), ~DriveSession(p)
  PROVE  AtWork'
<1>0. RunsTyped /\ NoRun \notin Runs /\ world \in World
  BY DEF LedgerTyped, NoRun, Runs
<1>1. MeasuredOnes'
  <2>1. ASSUME NEW q \in Runs, runs'[q].measured # NoRun PROVE runs'[q].does \in {"api", "stock"}
    <3>1. runs'[q].does = runs[q].does
      BY <1>0, OneMoves DEF Kept
    <3>2. CASE runs'[q].measured = runs[q].measured
      BY <2>1, <3>1, <3>2 DEF AtWork, MeasuredOnes
    <3>3. CASE q = p /\ AwaitServer(p)
      BY <3>1, <3>3 DEF AwaitServer, Does
    <3>. QED  BY <3>2, <3>3, MeasuredStays
  <2>2. ASSUME NEW w \in Runs, runs'[w].alive, runs'[w].at = "working", runs'[w].does \in {"api", "stock"}
        PROVE  runs'[w].measured # NoRun
    <3>1. CASE w # p /\ runs'[w] = runs[w]
      BY <2>2, <3>1 DEF AtWork, MeasuredOnes, IsAt
    <3>2. CASE w = p /\ runs'[p].does = runs[p].does /\ (Patch(p) \/ MakeTwin(p))
      BY <2>2, <3>2 DEF Patch, MakeTwin, Does
    <3>3. CASE w = p /\ Measures(p) /\ world.port # NoRun
      BY <3>3 DEF Measures
    <3>. QED  BY <2>2, <3>1, <3>2, <3>3, WorkGoesOn
  <2>. QED  BY <2>1, <2>2 DEF MeasuredOnes, IsAt
<1>2. LiveWorkStays'
  <2>1. ASSUME NEW w \in Runs, runs'[w].alive, runs'[w].at \in {"working", "waiting"}
        PROVE  /\ runs'[w].does = "file" => world'.file = "patched"
               /\ runs'[w].does = "collection" => world'.twin = "made" \/ runs'[w].failed # {}
               /\ runs'[w].measured = w => world'.port = w
    <3>1. CASE w # p /\ runs'[w] = runs[w]
      <4>1. runs[w].alive /\ runs[w].at \in {"working", "waiting"}
        BY <2>1, <3>1
      <4>2. LiveWorkStays
        BY DEF AtWork
      <4>3. /\ runs[w].does = "file" => world'.file = "patched"
            /\ runs[w].does = "collection" => world'.twin = "made" \/ runs[w].failed # {}
            /\ runs[w].measured = w => world'.port = w
        BY <3>1, <4>1, <4>2, OthersKeepWork
      <4>. QED  BY <3>1, <4>3
    <3>2. CASE w = p /\ runs'[p].does = runs[p].does /\ Patch(p) /\ Goes(p, "working")
      <4>1. world'.file = "patched" /\ runs[p].does = "file"
        BY <1>0, <3>2 DEF Patch, Does, World
      <4>2. runs'[p].measured = NoRun
        BY <3>2, <4>1 DEF Goes, AtWork, MeasuredOnes
      <4>. QED  BY <1>0, <3>2, <4>1, <4>2
    <3>3. CASE w = p /\ runs'[p].does = runs[p].does /\ MakeTwin(p) /\ Goes(p, "working")
      <4>1. runs[p].does = "collection"
        BY <3>3 DEF MakeTwin, Does
      <4>2. runs'[p].measured = NoRun
        BY <3>3, <4>1 DEF Goes, AtWork, MeasuredOnes
      <4>3. world'.twin = "made"
        <5>. DEFINE f == [runs[p] EXCEPT !.at = "over", !.alive = FALSE]
        <5>1. Put(p, f) => ~runs'[p].alive
          BY <1>0, <3>3, OverDies DEF MakeTwin, IsAt
        <5>2. world' = [world EXCEPT !.twin = "made"] \/ Put(p, f)
          BY <3>3 DEF MakeTwin
        <5>. HIDE DEF f
        <5>. QED  BY <1>0, <2>1, <3>3, <5>1, <5>2 DEF World
      <4>. QED  BY <1>0, <3>3, <4>1, <4>2, <4>3
    <3>4. CASE w = p /\ runs'[p].does = runs[p].does /\ AwaitServer(p) /\ Measures(p)
      BY <1>0, <3>4 DEF AwaitServer, Measures, Does
    <3>. QED  BY <2>1, <3>1, <3>2, <3>3, <3>4, WorkGoesOn
  <2>. QED  BY <2>1 DEF LiveWorkStays, IsAt, Does
<1>3. MeasuresItsOwn'
  <2>0. ASSUME NEW i \in Runs, Unrecorded(i) PROVE Unrecorded(i)'
    BY <1>0, <2>0, OneMoves DEF Unrecorded, Kept
  <2>1. ASSUME NEW w \in Runs, runs'[w].alive, runs'[w].at = "working", runs'[w].does \in {"api", "stock"}
        PROVE  runs'[w].measured = w \/ Unrecorded(runs[w].measured)' \/
               \E x \in Runs : runs'[w].measured = x /\ Unrecorded(x)'
    <3>1. CASE w # p /\ runs'[w] = runs[w]
      <4>1. runs[w].measured = w \/ Unrecorded(runs[w].measured)
        BY <2>1, <3>1 DEF AtWork, MeasuresItsOwn, IsAt, Does
      <4>2. runs[w].measured \in Runs
        BY <1>0, <2>1, <3>1 DEF AtWork, MeasuredOnes, IsAt, RunsTyped, RunRecord, SomeRun
      <4>. QED  BY <2>0, <3>1, <4>1, <4>2
    <3>2. CASE w = p /\ AwaitServer(p) /\ Measures(p) /\ world.port # NoRun
      <4>1. \E x \in Runs : x = world.port
        BY <1>0, <3>2 DEF World, SomeRun
      <4>2. PICK x \in Runs : x = world.port
        BY <4>1
      <4>3. runs'[w].measured = x
        BY <3>2, <4>2 DEF Measures
      <4>4. CASE x # p
        <5>1. /\ runs[x].does \in {"api", "stock"} /\ runs[x].at \in {"spawned", "guarded", "working"}
              /\ runs[x].at # "spawned" => records[x] = "whole"
          BY <4>2 DEF OnPaper, PortOnPaper
        <5>2. runs[p].alive /\ runs[p].at = "guarded" /\ runs[p].does \in {"api", "stock"}
          BY <3>2 DEF AwaitServer, IsAt, Does
        <5>3. ~runs[x].alive
          BY <4>4, <5>1, <5>2, OthersAreSessions
        <5>4. runs[x].at = "spawned"
          BY <4>4, <5>1, <5>2, WorkIsAlone
        <5>5. Unrecorded(x)
          BY <5>3, <5>4 DEF Unrecorded
        <5>. QED  BY <2>0, <4>3, <5>5
      <4>5. CASE x = p
        BY <3>2, <4>3, <4>5
      <4>. QED  BY <4>4, <4>5
    <3>3. CASE w = p /\ runs'[p].does = runs[p].does /\ (Patch(p) \/ MakeTwin(p))
      BY <2>1, <3>3 DEF Patch, MakeTwin, Does
    <3>. QED  BY <2>1, <3>1, <3>2, <3>3, WorkGoesOn
  <2>. QED  BY <2>1 DEF MeasuresItsOwn, IsAt, Does, Unrecorded
<1>. QED  BY <1>1, <1>2, <1>3 DEF AtWork

\* A run that starts disturbs nobody's work.
LEMMA ArrivalsKeepAtWork ==
  ASSUME AtWork, RunsTyped, NEW n, Arrives(n), UNCHANGED world
  PROVE  AtWork'
<1>1. /\ NoRun \notin Runs /\ n \in Runs /\ runs[n] = Unstarted /\ runs'[n].at = "starting"
  BY DEF Arrives, NoRun, Runs
<1>2. ASSUME NEW w \in Runs, w # n
      PROVE  /\ runs'[w].failed = runs[w].failed /\ runs'[w].does = runs[w].does
             /\ runs'[w].alive <=> runs[w].alive
             /\ runs'[w].measured = runs[w].measured
             /\ runs'[w].at = runs[w].at \/ (runs[w].at = "working" /\ runs'[w].at = "waiting")
  BY <1>2 DEF Arrives
<1>3. LiveWorkStays'
  BY <1>1, <1>2 DEF AtWork, LiveWorkStays, IsAt, Does
<1>4. ASSUME NEW i \in Runs, Unrecorded(i) PROVE Unrecorded(i)'
  BY <1>1, <1>2, <1>4 DEF Unrecorded, Unstarted
<1>5. MeasuredOnes'
  <2>1. ASSUME NEW q \in Runs, runs'[q].measured # NoRun PROVE runs'[q].does \in {"api", "stock"}
    <3>1. q # n
      BY <2>1 DEF Arrives
    <3>. QED  BY <1>2, <2>1, <3>1 DEF AtWork, MeasuredOnes
  <2>2. ASSUME NEW w \in Runs, runs'[w].alive, runs'[w].at = "working", runs'[w].does \in {"api", "stock"}
        PROVE  runs'[w].measured # NoRun
    <3>1. w # n
      BY <1>1, <2>2
    <3>. QED  BY <1>2, <2>2, <3>1 DEF AtWork, MeasuredOnes, IsAt
  <2>. QED  BY <2>1, <2>2 DEF MeasuredOnes, IsAt
<1>6. MeasuresItsOwn'
  <2>1. ASSUME NEW w \in Runs, runs'[w].alive, runs'[w].at = "working", runs'[w].does \in {"api", "stock"}
        PROVE  runs'[w].measured = w \/ \E x \in Runs : runs'[w].measured = x /\ Unrecorded(x)'
    <3>1. w # n
      BY <1>1, <2>1
    <3>2. runs[w].measured = w \/ Unrecorded(runs[w].measured)
      BY <1>2, <2>1, <3>1 DEF AtWork, MeasuresItsOwn, IsAt, Does
    <3>3. runs[w].measured \in Runs
      BY <1>1, <1>2, <2>1, <3>1 DEF AtWork, MeasuredOnes, IsAt, RunsTyped, RunRecord, SomeRun
    <3>. QED  BY <1>2, <1>4, <3>1, <3>2, <3>3
  <2>. QED  BY <2>1 DEF MeasuresItsOwn, IsAt, Does, Unrecorded
<1>. QED  BY <1>3, <1>5, <1>6 DEF AtWork

(***************************************************************************)
(* The invariant.                                                          *)
(***************************************************************************)

\* Before the first run nothing is changed.
LEMMA LedgerStarts ==
  ASSUME LedgerInit PROVE UndoInv
<1>. DEFINE u == [at |-> "idle", does |-> "session", alive |-> FALSE, todo |-> {}, spared |-> {},
                  failed |-> {}, inHand |-> NoRun, child |-> NoRun, measured |-> NoRun]
<1>1. u = Unstarted
  BY DEF Unstarted
<1>2. /\ u \in RunRecord /\ u.at = "idle" /\ u.does = "session" /\ u.alive = FALSE /\ u.todo = {}
      /\ u.spared = {} /\ u.failed = {} /\ u.inHand = NoRun /\ u.child = NoRun /\ u.measured = NoRun
  BY DEF RunRecord, Places, Drivers, SomeRun
<1>3. runs = [p \in Runs |-> u]
  BY <1>1 DEF LedgerInit
<1>. HIDE DEF u
<1>4. runs \in [Runs -> RunRecord] /\ \A p \in Runs : runs[p] = u
  BY <1>2, <1>3
<1>5. /\ records = [p \in Runs |-> "none"] /\ copies = [p \in Runs |-> "none"]
      /\ world = [file |-> "pristine", twin |-> "gone", port |-> NoRun]
      /\ mishaps = [kills |-> 0, unreachable |-> 0, overlap |-> FALSE]
  BY DEF LedgerInit
<1>6. /\ records \in [Runs -> {"none", "torn", "whole"}] /\ copies \in [Runs -> {"none", "torn", "pristine"}]
      /\ \A p \in Runs : records[p] = "none" /\ copies[p] = "none"
  BY <1>5
<1>7. world \in World /\ world.file = "pristine" /\ world.twin = "gone" /\ world.port = NoRun
  BY <1>5 DEF World, SomeRun
<1>8. mishaps \in Mishaps
  BY <1>5 DEF Mishaps
<1>9. LedgerTyped
  BY <1>2, <1>4, <1>6, <1>7, <1>8 DEF LedgerTyped, RunsTyped, PlacesOf, Common
<1>10. NoRun \notin Runs /\ 1 \in 1..(MaxRuns + 1) /\ \A p \in Runs : 1 <= p
  BY LedgerAssumption DEF NoRun, Runs
<1>11. Order
  <2>1. \A p \in Runs : runs[p].at = "idle" <=> 1 <= p
    BY <1>2, <1>4, <1>10
  <2>2. IdleLast
    BY <1>1, <1>4, <1>10, <2>1 DEF IdleLast
  <2>. QED  BY <1>2, <1>4, <2>2 DEF Order, OneAtATime, ChildrenAreSessions, LaterOnesAreSessions
<1>12. Hands /\ Papers /\ Progress
  BY <1>2, <1>4, <1>6, <1>10 DEF Hands, HoldsTheDead, Papers, PaperOf, Progress
<1>13. OnPaper
  BY <1>7, <1>10 DEF OnPaper, FileOnPaper, TwinOnPaper, PortOnPaper
<1>14. AtWork
  BY <1>2, <1>4 DEF AtWork, LiveWorkStays, MeasuresItsOwn, MeasuredOnes, IsAt
<1>. QED  BY <1>9, <1>11, <1>12, <1>13, <1>14 DEF UndoInv

\* The watchdog ends a server whose run is gone, and no other.
LEMMA WatchdogIsSafe ==
  ASSUME UndoInv, Watchdog PROVE UndoInv'
<1>1. /\ UNCHANGED <<runs, records, copies, mishaps>> /\ world' = [world EXCEPT !.port = NoRun]
      /\ ~runs[world.port].alive /\ world \in World /\ NoRun \notin Runs
  BY DEF Watchdog, UndoInv, LedgerTyped, NoRun, Runs
<1>2. world' \in World /\ world'.file = world.file /\ world'.twin = world.twin /\ world'.port = NoRun
  BY <1>1 DEF World, SomeRun
<1>3. LedgerTyped'
  BY <1>1, <1>2 DEF UndoInv, LedgerTyped, RunsTyped
<1>4. Order' /\ Hands' /\ Progress'
  BY <1>1 DEF UndoInv, Order, IdleLast, OneAtATime, ChildrenAreSessions, LaterOnesAreSessions,
              Hands, HoldsTheDead, Gone, Progress, Settled
<1>5. Papers'
  BY <1>1 DEF UndoInv, Papers, PaperOf
<1>6. OnPaper'
  BY <1>1, <1>2 DEF UndoInv, OnPaper, FileOnPaper, RestoresFile, Unheld, TwinOnPaper, DropsTwin, PortOnPaper
<1>7. AtWork'
  <2>1. MeasuresItsOwn' /\ MeasuredOnes'
    BY <1>1 DEF UndoInv, AtWork, MeasuresItsOwn, MeasuredOnes, Unrecorded, IsAt, Does
  <2>2. LiveWorkStays'
    BY <1>1, <1>2 DEF UndoInv, AtWork, LiveWorkStays, IsAt, Does
  <2>. QED  BY <2>1, <2>2 DEF AtWork
<1>. QED  BY <1>3, <1>4, <1>5, <1>6, <1>7 DEF UndoInv

\* Every step keeps the invariant.
LEMMA LedgerStepsKeep ==
  ASSUME UndoInv, [LedgerNext]_ledgerVars PROVE UndoInv'
<1>0. LedgerTyped /\ RunsTyped /\ Order /\ Hands /\ Papers /\ Progress /\ OnPaper /\ AtWork
  BY DEF UndoInv, LedgerTyped
<1>1. ASSUME Start \/ \E p \in Runs : DriveSession(p) PROVE UndoInv'
  <2>1. Arrives(NextRun) /\ RunsTyped' /\ Order' /\ UNCHANGED <<records, copies, world, mishaps>>
    BY <1>0, <1>1, OneArrives
  <2>2. Hands' /\ Papers' /\ Progress' /\ OnPaper' /\ AtWork'
    BY <1>0, <2>1, ArrivalsKeepHands, ArrivalsKeepPapers, ArrivalsKeepProgress, ArrivalsKeepOnPaper,
       ArrivalsKeepAtWork
  <2>3. LedgerTyped'
    BY <1>0, <2>1 DEF LedgerTyped
  <2>. QED  BY <2>1, <2>2, <2>3 DEF UndoInv
<1>2. ASSUME NEW p \in Runs, RunStep(p) \/ Kill(p) \/ KillWriting(p), ~DriveSession(p) PROVE UndoInv'
  <2>1. RunsTyped' /\ Order'
    BY <1>0, <1>2, RunsKeepOrder
  <2>2. LedgerTyped'
    BY <1>0, <1>2, <2>1, RunsKeepTypes DEF LedgerTyped
  <2>3. FileOnPaper /\ TwinOnPaper /\ PortOnPaper
    BY <1>0 DEF OnPaper
  <2>4. Hands' /\ Papers' /\ Progress' /\ AtWork'
    BY <1>0, <1>2, <2>3, RunsKeepHands, RunsKeepPapers, RunsKeepProgress, RunsKeepAtWork
  <2>5. OnPaper'
    BY <1>0, <1>2, <2>3, RunsKeepFileOnPaper, RunsKeepTwinOnPaper, RunsKeepPortOnPaper DEF OnPaper
  <2>. QED  BY <2>1, <2>2, <2>4, <2>5 DEF UndoInv
<1>3. CASE UNCHANGED ledgerVars
  <2>1. UNCHANGED <<runs, records, copies, world, mishaps>>
    BY <1>3 DEF ledgerVars
  <2>2. LedgerTyped' /\ Order' /\ Hands' /\ Progress'
    BY <1>0, <2>1 DEF LedgerTyped, RunsTyped, Order, IdleLast, OneAtATime, ChildrenAreSessions,
       LaterOnesAreSessions, Hands, HoldsTheDead, Gone, Progress, Settled
  <2>3. Papers'
    BY <1>0, <2>1 DEF Papers, PaperOf
  <2>4. OnPaper'
    BY <1>0, <2>1 DEF OnPaper, FileOnPaper, RestoresFile, Unheld, TwinOnPaper, DropsTwin, PortOnPaper
  <2>5. AtWork'
    BY <1>0, <2>1 DEF AtWork, LiveWorkStays, MeasuresItsOwn, MeasuredOnes, Unrecorded, IsAt, Does
  <2>. QED  BY <2>2, <2>3, <2>4, <2>5 DEF UndoInv
<1>4. CASE LedgerNext
  BY <1>1, <1>2, <1>4, WatchdogIsSafe DEF LedgerNext, RunStep
<1>. QED  BY <1>3, <1>4

\* What the invariant says of a run that has recovered.
LEMMA RecoveredIsComplete ==
  ASSUME UndoInv PROVE RecoveryIsComplete
<1>0. /\ LedgerTyped /\ Order /\ Hands /\ Papers /\ Progress /\ OnPaper
      /\ NoRun \notin Runs /\ world \in World /\ records \in [Runs -> {"none", "torn", "whole"}]
  BY DEF UndoInv, LedgerTyped, NoRun, Runs
<1>. SUFFICES ASSUME NEW p \in Runs, runs[p].alive, runs[p].at = "ready"
     PROVE  LET excused == runs[p].spared \cup runs[p].failed \cup {q \in Runs : q > p}
            IN /\ world.file # "pristine" /\ ~mishaps.overlap => \E i \in excused : Does(i, {"file"})
               /\ world.twin = "made" => \E i \in excused : Does(i, {"collection"})
               /\ world.port \in excused \cup {NoRun} \/ Unrecorded(world.port)
               /\ \A i \in Runs \ excused :
                    \/ records[i] \in {"none", "torn"}
                    \/ Does(i, {"file"}) /\ copies[i] = "none"
  BY DEF RecoveryIsComplete, IsAt
<1>. DEFINE excused == runs[p].spared \cup runs[p].failed \cup {q \in Runs : q > p}
<1>1. records[p] = "none"
  BY <1>0 DEF Papers, PaperOf
<1>2. ASSUME NEW i \in Runs, i \notin excused PROVE Settled(i)
  <2>1. i < p \/ i = p
    BY <1>2 DEF Runs
  <2>. QED  BY <1>0, <1>1, <1>2, <2>1 DEF Progress, Settled
<1>. HIDE DEF excused
<1>3. world.file # "pristine" /\ ~mishaps.overlap => \E i \in excused : Does(i, {"file"})
  BY <1>0, <1>2 DEF OnPaper, FileOnPaper, RestoresFile, Settled, Does
<1>4. world.twin = "made" => \E i \in excused : Does(i, {"collection"})
  BY <1>0, <1>2 DEF OnPaper, TwinOnPaper, DropsTwin, Settled, Does
<1>5. world.port \in excused \cup {NoRun} \/ Unrecorded(world.port)
  <2>1. ASSUME NEW x \in Runs, x = world.port, x \notin excused PROVE Unrecorded(x)
    <3>1. /\ runs[x].does \in {"api", "stock"} /\ runs[x].at \in {"spawned", "guarded", "working"}
          /\ runs[x].at # "spawned" => records[x] = "whole"
      BY <1>0, <2>1 DEF OnPaper, PortOnPaper
    <3>2. runs[x].at = "spawned"
      BY <1>2, <2>1, <3>1 DEF Settled
    <3>3. x < p
      BY <2>1, <3>2 DEF excused, Runs
    <3>4. ~runs[x].alive
      BY <1>0, <3>1, <3>2, <3>3 DEF Order, OneAtATime
    <3>. QED  BY <3>2, <3>4 DEF Unrecorded
  <2>. QED  BY <1>0, <2>1 DEF World, SomeRun
<1>6. \A i \in Runs \ excused : \/ records[i] \in {"none", "torn"}
                                \/ Does(i, {"file"}) /\ copies[i] = "none"
  BY <1>0, <1>2 DEF Settled, Does
<1>. QED  BY <1>3, <1>4, <1>5, <1>6 DEF excused

\* The invariant says what is checked of the ledger.
LEMMA InvariantHolds ==
  ASSUME UndoInv PROVE LedgerHolds
<1>0. LedgerTyped /\ Order /\ OnPaper /\ AtWork /\ NoRun \notin Runs
  BY DEF UndoInv, NoRun, Runs
<1>1. LedgerTypeOK
  <2>1. \A p \in Runs : runs[p] \in RunRecord
    BY <1>0 DEF LedgerTyped, RunsTyped
  <2>2. \A p \in Runs :
          /\ runs[p].at \in Places /\ runs[p].does \in Drivers /\ runs[p].alive \in BOOLEAN
          /\ runs[p].todo \cup runs[p].spared \cup runs[p].failed \subseteq Runs
    BY <2>1 DEF RunRecord
  <2>3. world.file \in {"pristine", "torn", "patched"} /\ world.port \in Runs \cup {NoRun}
    BY <1>0 DEF LedgerTyped, World, SomeRun
  <2>4. copies \in [Runs -> {"none", "torn", "pristine", "patched"}]
    BY <1>0 DEF LedgerTyped
  <2>. QED  BY <1>0, <2>2, <2>3, <2>4 DEF LedgerTypeOK, LedgerTyped
<1>2. NothingIsForgotten
  <2>1. world.file # "pristine" /\ ~mishaps.overlap =>
          \E i \in Runs : records[i] = "whole" /\ Does(i, {"file"}) /\ copies[i] = "pristine"
    BY <1>0 DEF OnPaper, FileOnPaper, RestoresFile, Does
  <2>2. world.twin = "made" => \E i \in Runs : records[i] = "whole" /\ Does(i, {"collection"})
    BY <1>0 DEF OnPaper, TwinOnPaper, DropsTwin, Does
  <2>3. world.port # NoRun =>
          records[world.port] = "whole" \/ IsAt(world.port, "spawned") \/ Unrecorded(world.port)
    <3>1. world.port # NoRun => world.port \in Runs
      BY <1>0 DEF LedgerTyped, World, SomeRun
    <3>. QED  BY <1>0, <3>1 DEF OnPaper, PortOnPaper, IsAt, Unrecorded
  <2>. QED  BY <2>1, <2>2, <2>3 DEF NothingIsForgotten
<1>3. RecoveryIsComplete
  BY RecoveredIsComplete
<1>. QED  BY <1>0, <1>1, <1>2, <1>3 DEF LedgerHolds, AtWork

\* For any number of runs, kills and unreachable databases: whatever a run
\* changes is on record at every moment it may be killed (safety.js:12-22), no
\* recovery undoes what a live run works on (220-263), a recovery leaves nothing
\* behind that it could undo (265-320), and a run measures its own server.
THEOREM NothingIsLeftBehind == LedgerSpec => []LedgerHolds
<1>1. LedgerInit => UndoInv
  BY LedgerStarts
<1>2. UndoInv /\ [LedgerNext]_ledgerVars => UndoInv'
  BY LedgerStepsKeep
<1>3. UndoInv => LedgerHolds
  BY InvariantHolds
<1>. QED  BY <1>1, <1>2, <1>3, PTL DEF LedgerSpec

----------------------------------------------------------------------------
(***************************************************************************)
(* What holds of the services for any threadpool and any number of calls,  *)
(* banners and outages, and of Access, which runs the session and the      *)
(* harness beside them.                                                    *)
(***************************************************************************)

(***************************************************************************)
(* The lock is held by the one thread that looks again or loads, and who   *)
(* loads has seen that there is nothing yet.                               *)
(***************************************************************************)
ThreadPlaces == {"idle", "check", "lock", "recheck", "load", "classify", "failed"}
Inside == {"recheck", "load"}

TaggerTyped ==
  /\ bundle \in BOOLEAN /\ lock \in Threads \cup {Free}
  /\ pc \in [Threads -> ThreadPlaces]
  /\ call \in [Threads -> {"none", "waiting", "tagged", "null"}]

LockKept == \A t \in Threads : pc[t] \in Inside <=> lock = t
NoSecondLoad == \A t \in Threads : pc[t] = "load" => ~bundle

TaggerInv == TaggerTyped /\ LockKept /\ NoSecondLoad

(***************************************************************************)
(* What the banner shows was found by its own checks, and what they found  *)
(* of a service says how that service was while the banner was checking,   *)
(* or that it was not heard of.                                            *)
(***************************************************************************)
Reports == [Reported -> Statuses \cup {"none"}]
Noticed == Conditions \cup {"unanswered"}

HealthTyped ==
  /\ mongo \in BOOLEAN /\ minio \in {"up", "bare", "gone"} /\ ai \in {"up", "sick", "gone"}
  /\ api \in {"connecting", "waiting", "connected"}
  /\ banner \in [state : {"absent", "loading", "failed", "rows"}, report : Reports]
  /\ checks \in [at : CheckStates, found : Reports]
  /\ seen \in [Reported -> SUBSET Noticed]

SeenIsCurrent == banner.state = "loading" => \A s \in Reported : Condition[s] \in seen[s]
\* A check was run or not, and what it found is so.
FoundSo(found, noticed) ==
  \A s \in Reported : found[s] = "none" \/ Says(found[s]) \cap noticed[s] # {}
FoundWasSeen == banner.state = "loading" => FoundSo(checks.found, seen)
Pending == checks.at # "none" => banner.state = "loading"
AnsweredInFull == checks.at = "answered" => \A s \in Reported : checks.found[s] # "none"

HealthInv ==
  HealthTyped /\ SeenIsCurrent /\ FoundWasSeen /\ Pending /\ AnsweredInFull /\ ReportIsTrue

\* How a service is, it is in one of the ways there are.
LEMMA ConditionTyped ==
  ASSUME minio \in {"up", "bare", "gone"}, ai \in {"up", "sick", "gone"}
  PROVE  Condition \in [Reported -> Conditions]
<1>1. (IF api = "connected" /\ mongo THEN "up" ELSE "gone") \in Conditions
      /\ minio \in Conditions /\ ai \in Conditions
  BY DEF Conditions
<1>. QED  BY <1>1 DEF Condition, Reported

\* What a check answers says of its service how it is.
LEMMA StatusSays ==
  ASSUME mongo \in BOOLEAN, minio \in {"up", "bare", "gone"}, ai \in {"up", "sick", "gone"},
         NEW s \in Reported
  PROVE  Status(s, Condition[s]) \in Statuses /\ Condition[s] \in Says(Status(s, Condition[s]))
<1>1. CASE s = "database"
  <2>1. Condition[s] = IF api = "connected" /\ mongo THEN "up" ELSE "gone"
    BY <1>1 DEF Condition
  <2>2. Condition[s] \in {"up", "gone"}
    BY <2>1
  <2>. QED  BY <1>1, <2>2 DEF Status, DatabaseStatus, Says, Statuses
<1>2. CASE s = "storage"
  <2>1. Condition[s] = minio
    BY <1>2 DEF Condition
  <2>. QED  BY <1>2, <2>1 DEF Status, StorageStatus, Says, Statuses
<1>3. CASE s = "ai"
  <2>1. Condition[s] = ai
    BY <1>3 DEF Condition
  <2>. QED  BY <1>3, <2>1 DEF Status, AiStatus, Says, Statuses
<1>. QED  BY <1>1, <1>2, <1>3 DEF Reported

\* What was so once stays so, however much more is noticed.
LEMMA FoundStays ==
  ASSUME NEW found, NEW noticed, NEW more, FoundSo(found, noticed),
         \A s \in Reported : noticed[s] \subseteq more[s]
  PROVE  FoundSo(found, more)
BY DEF FoundSo

\* A check more has found what is so.
LEMMA FoundOneMore ==
  ASSUME NEW found \in Reports, NEW noticed, FoundSo(found, noticed),
         NEW s \in Reported, NEW word \in Statuses, Says(word) \cap noticed[s] # {}
  PROVE  /\ [found EXCEPT ![s] = word] \in Reports
         /\ FoundSo([found EXCEPT ![s] = word], noticed)
<1>. DEFINE more == [found EXCEPT ![s] = word]
<1>1. more \in Reports /\ more[s] = word /\ \A r \in Reported \ {s} : more[r] = found[r]
  BY DEF Reports
<1>. QED  BY <1>1 DEF FoundSo

\* The tagger as the AI service starts.
LEMMA TaggerStarts == ServicesInit => TaggerInv
<1> SUFFICES ASSUME ServicesInit PROVE TaggerInv
  OBVIOUS
<1>1. bundle = FALSE /\ bundle \in BOOLEAN
  BY Zenon DEF ServicesInit
<1>2. lock = Free /\ \A t \in Threads : pc[t] = "idle"
  BY DEF ServicesInit
<1>3. pc \in [Threads -> ThreadPlaces]
  BY DEF ServicesInit, ThreadPlaces
<1>4. call \in [Threads -> {"none", "waiting", "tagged", "null"}]
  BY DEF ServicesInit
<1>5. LockKept /\ NoSecondLoad
  BY <1>2, FreeIsNoThread DEF LockKept, NoSecondLoad, Inside
<1>. QED  BY <1>1, <1>2, <1>3, <1>4, <1>5 DEF TaggerInv, TaggerTyped

\* What a thread does by itself keeps the tagger's invariant.
LEMMA ThreadsKeepLock ==
  ASSUME TaggerInv, NEW t \in Threads,
         \/ Tag(t) \/ CheckBundle(t) \/ AcquireLock(t) \/ Recheck(t) \/ Loaded(t)
         \/ LoadFails(t) \/ Answer(t) \/ Refuse(t) \/ GiveUp(t)
  PROVE  TaggerInv'
<1>0. TaggerTyped /\ LockKept /\ NoSecondLoad
  BY DEF TaggerInv
<1>1. \E place \in ThreadPlaces : pc' = [pc EXCEPT ![t] = place]
  <2>1. ASSUME NEW from, NEW to \in ThreadPlaces, At(t, from, to)
        PROVE  \E place \in ThreadPlaces : pc' = [pc EXCEPT ![t] = place]
    BY <2>1 DEF At
  <2>2. pc = [pc EXCEPT ![t] = pc[t]] /\ pc[t] \in ThreadPlaces
    BY <1>0 DEF TaggerTyped
  <2>. QED  BY <2>1, <2>2 DEF Tag, CheckBundle, AcquireLock, Recheck, Loaded, LoadFails, Answer,
            Refuse, GiveUp, At, ThreadPlaces
<1>2. pc' \in [Threads -> ThreadPlaces] /\ \A u \in Threads : u # t => pc'[u] = pc[u]
  BY <1>0, <1>1 DEF TaggerTyped
<1>3. call' \in [Threads -> {"none", "waiting", "tagged", "null"}]
  BY <1>0 DEF TaggerTyped, Tag, CheckBundle, AcquireLock, Recheck, Loaded, LoadFails, Answer,
     Refuse, GiveUp
<1>4. bundle' \in BOOLEAN /\ lock' \in Threads \cup {Free}
  BY <1>0 DEF TaggerTyped, Tag, CheckBundle, AcquireLock, Recheck, Loaded, LoadFails, Answer,
     Refuse, GiveUp
<1>5. LockKept' /\ NoSecondLoad'
  <2>1. CASE Tag(t) \/ CheckBundle(t) \/ Answer(t) \/ Refuse(t) \/ GiveUp(t)
    <3>1. UNCHANGED <<bundle, lock>>
      BY <2>1 DEF Tag, CheckBundle, Answer, Refuse, GiveUp
    <3>2. pc' = pc \/ (pc[t] \notin Inside /\ pc'[t] \notin Inside)
      BY <1>0, <2>1 DEF TaggerTyped, Tag, CheckBundle, Answer, Refuse, GiveUp, At, Inside
    <3>. QED  BY <1>0, <1>2, <3>1, <3>2 DEF LockKept, NoSecondLoad, Inside
  <2>2. CASE AcquireLock(t)
    <3>1. UNCHANGED bundle /\ lock = Free /\ lock' = t /\ pc'[t] = "recheck"
      BY <1>0, <2>2 DEF AcquireLock, At, TaggerTyped
    <3>. QED  BY <1>0, <1>2, <3>1, FreeIsNoThread DEF LockKept, NoSecondLoad, Inside
  <2>3. CASE Recheck(t)
    <3>1. /\ UNCHANGED bundle /\ pc[t] = "recheck"
          /\ \/ pc'[t] = "classify" /\ lock' = Free
             \/ ~bundle /\ pc'[t] = "load" /\ lock' = lock
      BY <1>0, <2>3 DEF Recheck, At, TaggerTyped
    <3>. QED  BY <1>0, <1>2, <3>1, FreeIsNoThread DEF LockKept, NoSecondLoad, Inside
  <2>4. CASE Loaded(t) \/ LoadFails(t)
    <3>1. pc[t] = "load" /\ pc'[t] \notin Inside /\ lock' = Free
      BY <1>0, <2>4 DEF Loaded, LoadFails, At, TaggerTyped, Inside
    <3>2. \A u \in Threads : pc'[u] \notin Inside
      BY <1>0, <1>2, <3>1 DEF LockKept, Inside
    <3>. QED  BY <3>1, <3>2, FreeIsNoThread DEF LockKept, NoSecondLoad, Inside
  <2>. QED  BY <2>1, <2>2, <2>3, <2>4
<1>. QED  BY <1>2, <1>3, <1>4, <1>5 DEF TaggerInv, TaggerTyped

\* So does the death of a process, and all that has nothing to do with tagging.
LEMMA TaggerGoesOn ==
  ASSUME TaggerInv, StartNext \/ TaggingNext \/ UNCHANGED servicesVars
  PROVE  TaggerInv'
<1>1. CASE UNCHANGED <<bundle, lock, pc, call>>
  BY <1>1 DEF TaggerInv, TaggerTyped, LockKept, NoSecondLoad
<1>2. CASE RestartApi
  <2>1. UNCHANGED <<bundle, lock, pc>>
    BY <1>2 DEF RestartApi
  <2>2. call' \in [Threads -> {"none", "waiting", "tagged", "null"}]
    BY <1>2 DEF RestartApi, TaggerInv, TaggerTyped
  <2>. QED  BY <2>1, <2>2 DEF TaggerInv, TaggerTyped, LockKept, NoSecondLoad
<1>3. CASE ChangeAi /\ ~UNCHANGED <<bundle, lock, pc, call>>
  <2>1. /\ bundle' = FALSE /\ lock' = Free /\ pc' = [t \in Threads |-> "idle"]
        /\ call' = [t \in Threads |-> IF call[t] = "waiting" THEN "null" ELSE call[t]]
    BY <1>3 DEF ChangeAi
  <2>2. bundle' \in BOOLEAN
    BY <2>1, Zenon
  <2>3. pc' \in [Threads -> ThreadPlaces] /\ call' \in [Threads -> {"none", "waiting", "tagged", "null"}]
    BY <2>1 DEF TaggerInv, TaggerTyped, ThreadPlaces
  <2>4. LockKept' /\ NoSecondLoad'
    BY <2>1, FreeIsNoThread DEF LockKept, NoSecondLoad, Inside
  <2>. QED  BY <2>1, <2>2, <2>3, <2>4 DEF TaggerInv, TaggerTyped
<1>4. ASSUME NEW t \in Threads,
             \/ Tag(t) \/ CheckBundle(t) \/ AcquireLock(t) \/ Recheck(t) \/ Loaded(t)
             \/ LoadFails(t) \/ Answer(t) \/ Refuse(t) \/ GiveUp(t)
      PROVE  TaggerInv'
  BY <1>4, ThreadsKeepLock
<1>5. ASSUME NEW s \in Reported, RunCheck(s) \/ MissCheck(s)
      PROVE  UNCHANGED <<bundle, lock, pc, call>>
  BY <1>5 DEF RunCheck, MissCheck, taggerVars
<1>6. ASSUME Connect \/ ChangeStores \/ MountBanner \/ AnswerHealth \/ LoseHealth \/ DeliverHealth
             \/ UnmountBanner \/ UNCHANGED servicesVars
      PROVE  UNCHANGED <<bundle, lock, pc, call>>
  BY <1>6 DEF Connect, ChangeStores, MountBanner, AnswerHealth, LoseHealth, DeliverHealth,
     UnmountBanner, servicesVars, taggerVars
<1>. QED  BY <1>1, <1>2, <1>3, <1>4, <1>5, <1>6 DEF StartNext, TaggingNext

\* Under the lock the model is loaded once.
LEMMA OneLoads == TaggerInv => OneLoad
<1> SUFFICES ASSUME TaggerInv PROVE OneLoad
  OBVIOUS
<1>. DEFINE loading == {t \in Threads : pc[t] = "load"}
<1>1. loading = {} \/ loading = {lock}
  BY DEF TaggerInv, LockKept, Inside
<1>2. Cardinality({}) = 0 /\ Cardinality({lock}) = 1
  BY FS_EmptySet, FS_Singleton
<1>3. Cardinality(loading) <= 1
  BY <1>1, <1>2
<1>4. bundle => loading = {}
  BY DEF TaggerInv, NoSecondLoad
<1>. QED  BY <1>3, <1>4 DEF OneLoad

\* The health report as the services start.
LEMMA HealthStarts == ServicesInit => HealthInv
<1> SUFFICES ASSUME ServicesInit PROVE HealthInv
  OBVIOUS
<1>1. mongo \in BOOLEAN
  BY Zenon DEF ServicesInit
<1>2. /\ minio \in {"up", "bare", "gone"} /\ ai \in {"up", "sick", "gone"}
      /\ api \in {"connecting", "waiting", "connected"} /\ seen \in [Reported -> SUBSET Noticed]
  BY DEF ServicesInit
<1>3. /\ banner \in [state : {"absent", "loading", "failed", "rows"}, report : Reports]
      /\ checks \in [at : CheckStates, found : Reports]
  BY DEF ServicesInit, NoReport, NoChecks, CheckStates, Reports
<1>4. banner.state = "absent" /\ checks.at = "none"
  BY DEF ServicesInit, NoChecks
<1>. QED  BY <1>1, <1>2, <1>3, <1>4
     DEF HealthInv, HealthTyped, SeenIsCurrent, FoundWasSeen, Pending, AnsweredInFull, ReportIsTrue

\* A service that changes is seen to have changed.
LEMMA ServicesChange ==
  ASSUME HealthInv, Connect \/ ChangeStores \/ RestartApi \/ ChangeAi
  PROVE  HealthInv'
<1>0. HealthTyped /\ SeenIsCurrent /\ FoundWasSeen /\ Pending /\ AnsweredInFull /\ ReportIsTrue
  BY DEF HealthInv
<1>1. Noted /\ banner' = banner
  BY DEF Connect, ChangeStores, RestartApi, ChangeAi
<1>2. mongo' \in BOOLEAN
  <2>1. mongo' = ~mongo \/ mongo' = mongo
    BY Zenon DEF Connect, ChangeStores, RestartApi, ChangeAi
  <2>. QED  BY <1>0, <2>1, Zenon DEF HealthTyped
<1>3. /\ minio' \in {"up", "bare", "gone"} /\ ai' \in {"up", "sick", "gone"}
      /\ api' \in {"connecting", "waiting", "connected"}
  BY <1>0 DEF HealthTyped, Connect, ChangeStores, RestartApi, ChangeAi
<1>4. /\ checks' \in [at : CheckStates, found : Reports] /\ checks'.found = checks.found
      /\ checks'.at = "answered" => checks.at = "answered"
      /\ checks'.at # "none" => checks.at # "none"
  <2>1. checks' = checks \/ (checks' = [checks EXCEPT !.at = "lost"] /\ checks.at = "asking")
    BY DEF Connect, ChangeStores, RestartApi, ChangeAi
  <2>. QED  BY <1>0, <2>1 DEF HealthTyped, CheckStates
<1>5. Condition' \in [Reported -> Conditions]
  <2>1. (IF api' = "connected" /\ mongo' THEN "up" ELSE "gone") \in Conditions
        /\ minio' \in Conditions /\ ai' \in Conditions
    BY <1>3 DEF Conditions
  <2>. QED  BY <2>1 DEF Condition, Reported
<1>6. /\ seen' \in [Reported -> SUBSET Noticed]
      /\ \A s \in Reported : seen[s] \subseteq seen'[s]
      /\ banner.state = "loading" => \A s \in Reported : Condition'[s] \in seen'[s]
  <2>1. CASE banner.state = "loading"
    <3>1. seen' = [s \in Reported |-> seen[s] \cup {Condition'[s]}]
      BY <1>1, <2>1 DEF Noted
    <3>. QED  BY <1>0, <1>5, <3>1 DEF HealthTyped, Noticed
  <2>2. CASE banner.state # "loading"
    <3>1. seen' = seen
      BY <1>1, <2>2 DEF Noted
    <3>. QED  BY <1>0, <2>2, <3>1 DEF HealthTyped
  <2>. QED  BY <2>1, <2>2
<1>7. HealthTyped'
  BY <1>0, <1>1, <1>2, <1>3, <1>4, <1>6 DEF HealthTyped
<1>8. FoundWasSeen'
  BY <1>0, <1>1, <1>4, <1>6, FoundStays DEF FoundWasSeen
<1>9. ReportIsTrue'
  BY <1>0, <1>1, <1>6 DEF ReportIsTrue
<1>. QED  BY <1>0, <1>1, <1>4, <1>6, <1>7, <1>8, <1>9
     DEF HealthInv, SeenIsCurrent, Pending, AnsweredInFull

\* A check that is run finds what is so; one that is missed finds a service
\* that did not answer.
LEMMA ServiceIsChecked ==
  ASSUME HealthInv, NEW s \in Reported, RunCheck(s) \/ MissCheck(s)
  PROVE  HealthInv'
<1>0. HealthTyped /\ SeenIsCurrent /\ FoundWasSeen /\ Pending /\ AnsweredInFull /\ ReportIsTrue
  BY DEF HealthInv
<1>1. UNCHANGED <<mongo, minio, ai, api, banner>> /\ checks.at = "asking"
  BY DEF RunCheck, MissCheck
<1>2. banner.state = "loading" /\ FoundSo(checks.found, seen) /\ checks.found \in Reports
  BY <1>0, <1>1 DEF Pending, FoundWasSeen, HealthTyped
<1>3. Condition' = Condition
  BY <1>1 DEF Condition
<1>4. PICK word \in Statuses : checks' = [checks EXCEPT !.found[s] = word]
        /\ seen' \in [Reported -> SUBSET Noticed]
        /\ (\A r \in Reported : seen[r] \subseteq seen'[r])
        /\ Says(word) \cap seen'[s] # {}
  <2>1. CASE RunCheck(s)
    <3>1. checks' = [checks EXCEPT !.found[s] = Status(s, Condition[s])] /\ seen' = seen
      BY <2>1 DEF RunCheck
    <3>2. Status(s, Condition[s]) \in Statuses /\ Condition[s] \in Says(Status(s, Condition[s]))
      BY <1>0, StatusSays DEF HealthTyped
    <3>3. Condition[s] \in seen[s]
      BY <1>0, <1>2 DEF SeenIsCurrent
    <3>. QED  BY <1>0, <3>1, <3>2, <3>3 DEF HealthTyped
  <2>2. CASE MissCheck(s)
    <3>1. /\ checks' = [checks EXCEPT !.found[s] = "down"]
          /\ seen' = [seen EXCEPT ![s] = @ \cup {"unanswered"}]
      BY <2>2 DEF MissCheck
    <3>2. "down" \in Statuses /\ "unanswered" \in Says("down")
      BY DEF Statuses, Says
    <3>3. /\ seen' \in [Reported -> SUBSET Noticed] /\ "unanswered" \in seen'[s]
          /\ \A r \in Reported : seen[r] \subseteq seen'[r]
      BY <1>0, <3>1 DEF HealthTyped, Noticed
    <3>. QED  BY <3>1, <3>2, <3>3
  <2>. QED  BY <2>1, <2>2
<1>5. /\ checks' = [checks EXCEPT !.found = [checks.found EXCEPT ![s] = word]]
      /\ checks'.at = "asking" /\ checks'.found = [checks.found EXCEPT ![s] = word]
  BY <1>0, <1>1, <1>4 DEF HealthTyped
<1>6. FoundSo(checks.found, seen')
  BY <1>2, <1>4, FoundStays
<1>7. checks'.found \in Reports /\ FoundSo(checks'.found, seen')
  BY <1>2, <1>4, <1>5, <1>6, FoundOneMore
<1>8. HealthTyped'
  BY <1>0, <1>1, <1>4, <1>5, <1>7 DEF HealthTyped, CheckStates
<1>9. SeenIsCurrent' /\ ReportIsTrue'
  BY <1>0, <1>1, <1>3, <1>4 DEF SeenIsCurrent, ReportIsTrue
<1>. QED  BY <1>1, <1>2, <1>5, <1>7, <1>8, <1>9
     DEF HealthInv, FoundWasSeen, Pending, AnsweredInFull

\* The banner leaves the services as they are.
LEMMA HealthAsks ==
  ASSUME HealthInv,
         MountBanner \/ AnswerHealth \/ LoseHealth \/ DeliverHealth \/ UnmountBanner
  PROVE  HealthInv' /\ (banner.state = "loading" /\ banner'.state = "failed" => checks.at = "lost")
<1>0. HealthTyped /\ SeenIsCurrent /\ FoundWasSeen /\ Pending /\ AnsweredInFull /\ ReportIsTrue
  BY DEF HealthInv
<1>1. UNCHANGED <<mongo, minio, ai, api>>
  BY DEF MountBanner, AnswerHealth, LoseHealth, DeliverHealth, UnmountBanner
<1>2. Condition' = Condition /\ Condition \in [Reported -> Conditions]
  BY <1>0, <1>1, ConditionTyped DEF Condition, HealthTyped
<1>3. /\ mongo' \in BOOLEAN /\ minio' \in {"up", "bare", "gone"} /\ ai' \in {"up", "sick", "gone"}
      /\ api' \in {"connecting", "waiting", "connected"}
  BY <1>0, <1>1 DEF HealthTyped
<1>4. NoReport \in Reports /\ \A s \in Reported : NoReport[s] = "none"
  BY DEF NoReport, Reports
<1>5. CASE MountBanner
  <2>1. /\ banner' = [state |-> "loading", report |-> NoReport]
        /\ checks' = [NoChecks EXCEPT !.at = "asking"]
        /\ seen' = [s \in Reported |-> {Condition[s]}]
    BY <1>5 DEF MountBanner
  <2>2. checks' \in [at : CheckStates, found : Reports]
        /\ checks'.at = "asking" /\ checks'.found = NoReport
    BY <1>4, <2>1 DEF NoChecks, CheckStates
  <2>3. seen' \in [Reported -> SUBSET Noticed] /\ \A s \in Reported : Condition[s] \in seen'[s]
    BY <1>2, <2>1 DEF Noticed
  <2>4. HealthTyped' /\ banner'.state = "loading"
    BY <1>3, <1>4, <2>1, <2>2, <2>3 DEF HealthTyped
  <2>5. FoundWasSeen'
    BY <1>4, <2>2 DEF FoundWasSeen, FoundSo
  <2>. QED  BY <1>2, <2>2, <2>3, <2>4, <2>5
       DEF HealthInv, SeenIsCurrent, Pending, AnsweredInFull, ReportIsTrue
<1>6. CASE AnswerHealth \/ LoseHealth
  <2>1. /\ UNCHANGED <<banner, seen>> /\ checks.at # "none"
        /\ \E at \in {"answered", "lost"} : checks' = [checks EXCEPT !.at = at]
        /\ AnswerHealth \/ checks' = [checks EXCEPT !.at = "lost"]
    BY <1>6 DEF AnswerHealth, LoseHealth
  <2>2. /\ checks' \in [at : CheckStates, found : Reports]
        /\ checks'.found = checks.found /\ (checks'.at = "lost" \/ AnswerHealth)
    BY <1>0, <2>1 DEF HealthTyped, CheckStates
  <2>3. AnsweredInFull'
    BY <2>2 DEF AnsweredInFull, AnswerHealth
  <2>4. HealthTyped'
    BY <1>0, <1>3, <2>1, <2>2 DEF HealthTyped
  <2>. QED  BY <1>0, <1>2, <2>1, <2>2, <2>3, <2>4
       DEF HealthInv, SeenIsCurrent, FoundWasSeen, Pending, ReportIsTrue
<1>7. CASE DeliverHealth
  <2>1. /\ checks' = NoChecks /\ seen' = seen /\ banner' = Show
        /\ checks.at \in {"answered", "lost"} /\ banner.state = "loading"
    BY <1>0, <1>7 DEF DeliverHealth, Pending
  <2>2. /\ checks' \in [at : CheckStates, found : Reports] /\ checks'.at = "none"
        /\ checks'.found = NoReport
    BY <1>4, <2>1 DEF NoChecks, CheckStates
  <2>3. CASE checks.at = "answered"
    <3>1. banner' = [banner EXCEPT !.state = "rows", !.report = checks.found]
      BY <2>1, <2>3 DEF Show
    <3>2. /\ banner' \in [state : {"absent", "loading", "failed", "rows"}, report : Reports]
          /\ banner'.state = "rows" /\ banner'.report = checks.found
      BY <1>0, <3>1 DEF HealthTyped
    <3>3. \A s \in Reported : checks.found[s] # "none"
      BY <1>0, <2>3 DEF AnsweredInFull
    <3>4. \A s \in Reported : Says(checks.found[s]) \cap seen[s] # {}
      BY <1>0, <2>1, <3>3 DEF FoundWasSeen, FoundSo
    <3>5. ReportIsTrue'
      BY <2>1, <3>2, <3>4 DEF ReportIsTrue
    <3>6. HealthTyped'
      BY <1>0, <1>3, <2>1, <2>2, <3>2 DEF HealthTyped
    <3>. QED  BY <2>2, <3>2, <3>5, <3>6
         DEF HealthInv, SeenIsCurrent, FoundWasSeen, Pending, AnsweredInFull
  <2>4. CASE checks.at = "lost"
    <3>1. banner' = [banner EXCEPT !.state = "failed"]
      BY <2>1, <2>4 DEF Show
    <3>2. /\ banner' \in [state : {"absent", "loading", "failed", "rows"}, report : Reports]
          /\ banner'.state = "failed"
      BY <1>0, <3>1 DEF HealthTyped
    <3>3. HealthTyped'
      BY <1>0, <1>3, <2>1, <2>2, <3>2 DEF HealthTyped
    <3>. QED  BY <2>2, <2>4, <3>2, <3>3
         DEF HealthInv, SeenIsCurrent, FoundWasSeen, Pending, AnsweredInFull, ReportIsTrue
  <2>. QED  BY <2>1, <2>3, <2>4
<1>8. CASE UnmountBanner
  <2>1. /\ banner' = [state |-> "absent", report |-> NoReport] /\ checks' = NoChecks
        /\ seen' = [s \in Reported |-> {}]
    BY <1>8 DEF UnmountBanner
  <2>2. /\ checks' \in [at : CheckStates, found : Reports] /\ checks'.at = "none"
        /\ seen' \in [Reported -> SUBSET Noticed]
    BY <1>4, <2>1 DEF NoChecks, CheckStates
  <2>3. HealthTyped' /\ banner'.state = "absent"
    BY <1>3, <1>4, <2>1, <2>2 DEF HealthTyped
  <2>. QED  BY <2>2, <2>3
       DEF HealthInv, SeenIsCurrent, FoundWasSeen, Pending, AnsweredInFull, ReportIsTrue
<1>. QED  BY <1>5, <1>6, <1>7, <1>8 DEF AnswerHealth, LoseHealth

\* Nothing else touches what the banner shows, and only a lost answer is a failure.
LEMMA HealthGoesOn ==
  ASSUME HealthInv, StartNext \/ TaggingNext \/ UNCHANGED servicesVars
  PROVE  HealthInv' /\ (banner.state = "loading" /\ banner'.state = "failed" => checks.at = "lost")
<1>1. ASSUME Connect \/ ChangeStores \/ RestartApi \/ ChangeAi
      PROVE  HealthInv' /\ banner' = banner
  BY <1>1, ServicesChange DEF Connect, ChangeStores, RestartApi, ChangeAi
<1>2. ASSUME MountBanner \/ AnswerHealth \/ LoseHealth \/ DeliverHealth \/ UnmountBanner
      PROVE  HealthInv' /\ (banner.state = "loading" /\ banner'.state = "failed" => checks.at = "lost")
  BY <1>2, HealthAsks
<1>3. ASSUME NEW s \in Reported, RunCheck(s) \/ MissCheck(s)
      PROVE  HealthInv' /\ banner' = banner
  BY <1>3, ServiceIsChecked DEF RunCheck, MissCheck
<1>4. ASSUME UNCHANGED <<mongo, minio, ai, api, healthVars>>
      PROVE  HealthInv' /\ banner' = banner
  <2>1. UNCHANGED <<mongo, minio, ai, api, banner, checks, seen>>
    BY <1>4 DEF healthVars
  <2>2. Condition' = Condition
    BY <2>1 DEF Condition
  <2>. QED  BY <2>1, <2>2
       DEF HealthInv, HealthTyped, SeenIsCurrent, FoundWasSeen, Pending, AnsweredInFull, ReportIsTrue
<1>5. ASSUME NEW t \in Threads,
             \/ Tag(t) \/ CheckBundle(t) \/ AcquireLock(t) \/ Recheck(t) \/ Loaded(t)
             \/ LoadFails(t) \/ Answer(t) \/ Refuse(t) \/ GiveUp(t)
      PROVE  UNCHANGED <<mongo, minio, ai, api, healthVars>>
  BY <1>5 DEF Tag, CheckBundle, AcquireLock, Recheck, Loaded, LoadFails, Answer, Refuse, GiveUp
<1>6. ASSUME UNCHANGED servicesVars PROVE UNCHANGED <<mongo, minio, ai, api, healthVars>>
  BY <1>6 DEF servicesVars, healthVars
<1>. QED  BY <1>1, <1>2, <1>3, <1>4, <1>5, <1>6 DEF StartNext, TaggingNext

(***************************************************************************)
(* All parts together.  A step of one leaves the others alone.             *)
(***************************************************************************)
AccessInv == SessionInv /\ TaggerInv /\ HealthInv /\ UndoInv

\* Every step is one of the session, one of the services, one of the harness, or none.
LEMMA StepsApart ==
  ASSUME [AccessNext]_accessVars
  PROVE  /\ [SessionNext]_sessionVars
         /\ StartNext \/ TaggingNext \/ UNCHANGED servicesVars
         /\ [LedgerNext]_ledgerVars
BY DEF AccessNext, InSession, InStart, InTagging, InRequest, InHarness, accessVars

\* The types the runs check follow from the invariant.
LEMMA AccessTypes == AccessInv => AccessTypeOK /\ OneLoad
<1> SUFFICES ASSUME AccessInv PROVE AccessTypeOK /\ OneLoad
  OBVIOUS
<1>1. SessionTypeOK /\ OneLoad
  BY SessionTypes, OneLoads DEF AccessInv, SessionInv
<1>2. {mongo, bundle} \subseteq BOOLEAN
  BY Zenon DEF AccessInv, TaggerInv, TaggerTyped, HealthInv, HealthTyped
<1>3. /\ minio \in {"up", "bare", "gone"} /\ ai \in {"up", "sick", "gone"}
      /\ api \in {"connecting", "waiting", "connected"}
      /\ banner.state \in {"absent", "loading", "failed", "rows"}
      /\ checks \in [at : CheckStates, found : [Reported -> Statuses \cup {"none"}]]
      /\ seen \in [Reported -> SUBSET (Conditions \cup {"unanswered"})]
  BY DEF AccessInv, HealthInv, HealthTyped, Reports, Noticed
<1>4. /\ lock \in Threads \cup {Free} /\ (lock # Free => pc[lock] \in {"recheck", "load"})
      /\ pc \in [Threads -> {"idle", "check", "lock", "recheck", "load", "classify", "failed"}]
      /\ call \in [Threads -> {"none", "waiting", "tagged", "null"}]
  BY DEF AccessInv, TaggerInv, TaggerTyped, LockKept, ThreadPlaces, Inside
<1>. QED  BY <1>1, <1>2, <1>3, <1>4 DEF AccessTypeOK, ServicesTypeOK

\* The invariant of all parts.
LEMMA AccessKept == AccessSpec => []AccessInv
<1>1. AccessInit => AccessInv
  BY SessionStarts, TaggerStarts, HealthStarts, LedgerStarts DEF AccessInit, AccessInv
<1>2. AccessInv /\ [AccessNext]_accessVars => AccessInv'
  BY StepsApart, SessionGoesOn, TaggerGoesOn, HealthGoesOn, LedgerStepsKeep DEF AccessInv
<1>. QED  BY <1>1, <1>2, PTL DEF AccessSpec

(***************************************************************************)
(* The theorems.                                                           *)
(***************************************************************************)

\* auth.ts:20-44: however the registrations of an email race, are lost and
\* sent again, it has one account.
THEOREM EmailsStayUnique == AccessSpec => []OneAccountPerEmail
<1>1. AccessInv => OneAccountPerEmail
  BY DEF AccessInv, SessionInv
<1>. QED  BY <1>1, AccessKept, PTL

\* AuthContext.tsx:24-63: a session lasts until its user or the server ends it.
THEOREM SessionsDoLast == AccessSpec => SessionsLast
<1>1. AccessInv => SessionIsKept
  BY DEF AccessInv, SessionInv, Course
<1>2. AccessInv /\ [AccessNext]_accessVars =>
        [stored # 0 /\ stored' = 0 => left \/ ~tokens[stored].live]_sessionVars
  BY StepsApart, SessionGoesOn DEF AccessInv
<1>3. AccessSpec => []SessionIsKept
  BY <1>1, AccessKept, PTL
<1>4. AccessSpec => TokenLeavesForAReason
  BY <1>2, AccessKept, PTL DEF AccessSpec, TokenLeavesForAReason
<1>. QED  BY <1>3, <1>4 DEF SessionsLast

\* classifier.py:24-45: however many threads come first, one loads the model,
\* and every variable has its type.
THEOREM ModelIsLoadedOnce == AccessSpec => []LoadIsOnce
<1>1. AccessInv => LoadIsOnce
  BY AccessTypes DEF LoadIsOnce
<1>. QED  BY <1>1, AccessKept, PTL

\* HealthBanner.tsx:26-46, app.ts:22-31, storageCheck.ts:14-20, aiCheck.ts:3-12:
\* "ok" is said of a service that was well while the banner was checking,
\* "degraded" of one that answered and was not, "down" of one that was gone or,
\* up or not, did not answer this check; and the server is called out of reach
\* only if no report came.
THEOREM HealthIsTold == AccessSpec => HealthIsTrue
<1>1. AccessInv => ReportIsTrue
  BY DEF AccessInv, HealthInv
<1>2. AccessInv /\ [AccessNext]_accessVars =>
        [banner.state = "loading" /\ banner'.state = "failed" => checks.at = "lost"]_servicesVars
  BY StepsApart, HealthGoesOn DEF AccessInv
<1>3. AccessSpec => []ReportIsTrue
  BY <1>1, AccessKept, PTL
<1>4. AccessSpec => UnreachableIsTrue
  BY <1>2, AccessKept, PTL DEF AccessSpec, UnreachableIsTrue
<1>. QED  BY <1>3, <1>4 DEF HealthIsTrue

\* safety.js:12-22, 220-320: for any number of runs, kills and unreachable
\* databases, whatever a run of the harness changes is on record at every moment
\* it may be killed, a recovery leaves nothing it could undo, none undoes what a
\* live run works on, and a run measures its own server.
THEOREM LedgerIsKept == AccessSpec => []LedgerIsTrue
<1>1. AccessInv => LedgerIsTrue
  BY InvariantHolds DEF AccessInv, LedgerIsTrue
<1>. QED  BY <1>1, AccessKept, PTL
==============================================================================

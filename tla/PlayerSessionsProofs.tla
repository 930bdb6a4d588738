-------------------------- MODULE PlayerSessionsProofs --------------------------
(***************************************************************************)
(* Proofs about PlayerSessions: no two players of one name, a ban that     *)
(* keeps its player out, and player files that never go back, for any      *)
(* number of sessions and names.                                           *)
(*                                                                         *)
(* The argument is about who may write a player file.  Only a session with *)
(* an entity writes one (SavePlayer), a session has an entity from the     *)
(* moment it is in the game (EntityInGame), and of those there is one per  *)
(* name (UniqueNames); so the first session of a name, whichever it is,    *)
(* either writes nothing or is the player himself.  What he has is never   *)
(* older than his file, because he read it when he came (FileCurrent), and *)
(* one who was saved as he left stays equal to it (KeptOnFile).            *)
(***************************************************************************)
EXTENDS PlayerSessions, FiniteSetTheorems, TLAPS

SessionsTyped ==
    /\ Present \subseteq Sessions
    /\ session \in [Present -> SessionType]
    /\ file \in [Names -> 0..MaxHeld]

EntityInGame ==
    \A s \in Present :
        /\ session[s].connState \in InGame <=> session[s].held # NoEntity
        /\ session[s].registered => session[s].connState \in InGame
        /\ LoggedIn(s) => NameOf(s) \in Names

FileCurrent ==
    \A s \in Present : session[s].connState \in InGame => file[NameOf(s)] <= session[s].held

KeptOnFile ==
    \A s \in kept :
        /\ s \in Present
        /\ session[s].connState \in InGame
        /\ ~session[s].connected
        /\ file[NameOf(s)] = session[s].held

IInv ==
    /\ SessionsTyped
    /\ EntityInGame
    /\ UniqueNames
    /\ BannedAreOut
    /\ FileCurrent
    /\ KeptOnFile

-----------------------------------------------------------------------------
(* Saving.                                                                 *)

(* GetSessionByUsername returns a session of that name or none. *)
LEMMA FoundIsNamesake ==
    ASSUME NEW n, GetSessionByUsername(n) # NoSession
    PROVE  GetSessionByUsername(n) \in Present /\ NameOf(GetSessionByUsername(n)) = n
<1>1. GetSessionByUsername(n) \in FirstNamed(n)
  BY DEF GetSessionByUsername
<1> QED BY <1>1 DEF FirstNamed, Namesakes, NameOf

(* Whoever is saved, no file gets older, and each is still what its player
   read or wrote last. *)
LEMMA SavedIsCurrent ==
    ASSUME IInv, NEW names
    PROVE  /\ Saved(names) \in [Names -> 0..MaxHeld]
           /\ \A n \in Names : Saved(names)[n] >= file[n]
           /\ \A s \in Present : session[s].connState \in InGame
                  => Saved(names)[NameOf(s)] <= session[s].held
           /\ \A s \in kept : Saved(names)[NameOf(s)] = session[s].held
<1>1. \A n \in Names :
          \/ Saved(names)[n] = file[n]
          \/ \E s \in Present : /\ session[s].connState \in InGame
                                /\ NameOf(s) = n
                                /\ Saved(names)[n] = session[s].held
  BY FoundIsNamesake DEF Saved, IInv, EntityInGame
<1>2. \A s \in Present : session[s].connState \in InGame =>
          /\ session[s].held \in 0..MaxHeld
          /\ NameOf(s) \in Names
          /\ file[NameOf(s)] \in Nat
          /\ file[NameOf(s)] <= session[s].held
  BY LimitsType DEF IInv, SessionsTyped, SessionType, EntityInGame, FileCurrent, LoggedIn
<1>3. \A s, t \in Present :
          /\ session[s].connState \in InGame
          /\ session[t].connState \in InGame
          /\ NameOf(s) = NameOf(t)
          => s = t
  BY DEF IInv, UniqueNames, LoggedIn
<1>4. Saved(names) \in [Names -> 0..MaxHeld]
  <2>1. \A n \in Names : Saved(names)[n] \in 0..MaxHeld
    BY <1>1, <1>2 DEF IInv, SessionsTyped
  <2> QED BY <2>1 DEF Saved
<1>5. \A n \in Names : Saved(names)[n] >= file[n]
  BY <1>1, <1>2 DEF IInv, SessionsTyped
<1>6. \A s \in Present : session[s].connState \in InGame
          => Saved(names)[NameOf(s)] <= session[s].held
  BY <1>1, <1>2, <1>3
<1>7. \A s \in kept : Saved(names)[NameOf(s)] = session[s].held
  BY <1>1, <1>2, <1>3 DEF IInv, KeptOnFile
<1> QED BY <1>4, <1>5, <1>6, <1>7

-----------------------------------------------------------------------------
(* One lemma per group of actions.                                         *)

(* The invariant speaks of the sessions, the files and the bans only. *)
LEMMA QuietStep ==
    ASSUME IInv, UNCHANGED <<session, file, banned, kept, misboots>>
    PROVE  IInv'
BY DEF IInv, SessionsTyped, EntityInGame, UniqueNames, BannedAreOut, FileCurrent,
       KeptOnFile, Present, NameOf, LoggedIn

\* A record r that session s may get without a change of name or of stage.
SameStage(s, r) ==
    /\ LoggedIn(s) => r.username = session[s].username
    /\ r.connState \in InGame <=> session[s].connState \in InGame
    /\ LoggedIn(s) <=> r.connState \in InGame \cup {"VerifyingUsername"}
    /\ r.connected => session[s].connected
    /\ r.registered => r.connState \in InGame
    /\ session[s].held = NoEntity => r.held = NoEntity
    /\ session[s].held # NoEntity => r.held \in Nat /\ r.held >= session[s].held
    /\ s \in kept => r.held = session[s].held

(* One session changes, and keeps its name and its stage of the login. *)
LEMMA SameStageStep ==
    ASSUME IInv, NEW s \in Present, NEW r \in SessionType, SameStage(s, r),
           session' = [session EXCEPT ![s] = r],
           UNCHANGED <<file, banned, kept, misboots>>
    PROVE  IInv'
<1> USE DEF SameStage
<1>1. Present' = Present /\ session' \in [Present -> SessionType]
  BY DEF IInv, SessionsTyped, Present
<1>2. session'[s] = r /\ \A t \in Present \ {s} : session'[t] = session[t]
  BY DEF IInv, SessionsTyped, Present
<1>3. SessionsTyped'
  BY <1>1 DEF IInv, SessionsTyped
<1>4. EntityInGame'
  BY <1>1, <1>2, NullsType DEF IInv, EntityInGame, LoggedIn, NameOf
<1>5. UniqueNames'
  BY <1>1, <1>2 DEF IInv, UniqueNames, LoggedIn, NameOf
<1>6. BannedAreOut'
  BY <1>1, <1>2 DEF IInv, BannedAreOut, LoggedIn, NameOf
<1>7. FileCurrent'
  <2>1. \A t \in Present : session[t].connState \in InGame =>
            file[NameOf(t)] \in Nat /\ session[t].held \in Nat
    BY LimitsType DEF IInv, SessionsTyped, SessionType, EntityInGame, LoggedIn
  <2> QED BY <1>1, <1>2, <2>1 DEF IInv, FileCurrent, LoggedIn, NameOf, EntityInGame
<1>8. KeptOnFile'
  BY <1>1, <1>2 DEF IInv, KeptOnFile, LoggedIn, NameOf
<1> QED BY <1>3, <1>4, <1>5, <1>6, <1>7, <1>8 DEF IInv

(* Files are saved, and nothing else happens. *)
LEMMA SaveStep ==
    ASSUME IInv, NEW names, file' = Saved(names),
           UNCHANGED <<session, banned, kept, misboots>>
    PROVE  IInv'
<1>1. Present' = Present
  BY DEF Present
<1>2. SessionsTyped' /\ FileCurrent' /\ KeptOnFile'
  BY <1>1, SavedIsCurrent DEF IInv, SessionsTyped, FileCurrent, KeptOnFile, NameOf
<1>3. EntityInGame' /\ UniqueNames' /\ BannedAreOut'
  BY <1>1 DEF IInv, EntityInGame, UniqueNames, BannedAreOut, LoggedIn, NameOf
<1> QED BY <1>2, <1>3 DEF IInv

(* A session is saved and disconnected; its name may be banned meanwhile. *)
LEMMA DisconnectStep ==
    ASSUME IInv, NEW s, DisconnectPlayer(s),
           \/ UNCHANGED <<banned, misboots>>
           \/ \E n \in Names :
                 /\ banned' = banned \cup {n}
                 /\ misboots \subseteq misboots'
                 /\ \A t \in Present \ {s} : LoggedIn(t) /\ NameOf(t) = n => n \in misboots'
    PROVE  IInv'
<1>1. Present' = Present /\ session' \in [Present -> SessionType]
  BY ZenonT(40) DEF IInv, SessionsTyped, DisconnectPlayer, Present, SessionType
<1>2. \A t \in Present :
          /\ session'[t].connState = session[t].connState
          /\ session'[t].held = session[t].held
          /\ session'[t].registered = session[t].registered
          /\ NameOf(t)' = NameOf(t)
          /\ session'[t].connected => session[t].connected /\ t # s
          /\ t = s => ~session'[t].connected
          /\ LoggedIn(t)' <=> LoggedIn(t)
  BY <1>1 DEF IInv, SessionsTyped, SessionType, DisconnectPlayer, Present, NameOf, LoggedIn
<1>3. SessionsTyped' /\ FileCurrent'
  BY <1>1, <1>2, SavedIsCurrent DEF IInv, SessionsTyped, FileCurrent, DisconnectPlayer
<1>4. EntityInGame' /\ UniqueNames'
  BY <1>1, <1>2 DEF IInv, EntityInGame, UniqueNames
<1>5. BannedAreOut'
  BY <1>1, <1>2 DEF IInv, BannedAreOut
<1>6. KeptOnFile'
  <2>1. \A t \in kept : /\ t \in Present
                        /\ session[t].connState \in InGame
                        /\ ~session[t].connected
                        /\ file'[NameOf(t)] = session[t].held
    BY SavedIsCurrent DEF IInv, KeptOnFile, DisconnectPlayer
  <2>2. \A t \in kept' \ kept : /\ t \in Present
                                /\ t = s
                                /\ session[t].connState \in InGame
                                /\ file'[NameOf(t)] = session[t].held
    BY DEF IInv, EntityInGame, DisconnectPlayer
  <2> QED BY <1>1, <1>2, <2>1, <2>2 DEF KeptOnFile
<1> QED BY <1>3, <1>4, <1>5, <1>6 DEF IInv

(* Kick, ban and pardon. *)
LEMMA CommandStep ==
    ASSUME IInv, NEW n \in Names, KickPlayer(n) \/ BanPlayer(n) \/ PardonPlayer(n)
    PROVE  IInv'
<1>1. CASE KickPlayer(n)
  BY <1>1, DisconnectStep DEF KickPlayer
<1>2. CASE BanPlayer(n)
  <2>1. \A t \in Present : LoggedIn(t) /\ NameOf(t) = n /\ t # Booted(n) => n \in misboots'
    BY <1>2 DEF BanPlayer, Booted
  <2>2. CASE Booted(n) # NoSession
    BY <1>2, <2>1, <2>2, DisconnectStep DEF BanPlayer
  <2>3. CASE Booted(n) = NoSession
    <3>1. UNCHANGED <<session, file, kept>> /\ Present' = Present
      BY <1>2, <2>3 DEF BanPlayer, Present
    <3>2. \A t \in Present : LoggedIn(t) /\ NameOf(t) = n => n \in misboots'
      BY <2>1, <2>3, NullsType DEF IInv, SessionsTyped
    <3>3. BannedAreOut'
      BY <1>2, <3>1, <3>2 DEF IInv, BannedAreOut, BanPlayer, LoggedIn, NameOf
    <3> QED BY <3>1, <3>3 DEF IInv, SessionsTyped, EntityInGame, UniqueNames,
              FileCurrent, KeptOnFile, LoggedIn, NameOf
  <2> QED BY <2>2, <2>3
<1>3. CASE PardonPlayer(n)
  <2>1. UNCHANGED <<session, file, kept>> /\ Present' = Present
    BY <1>3 DEF PardonPlayer, sessionVars, Present
  <2>2. BannedAreOut'
    BY <1>3, <2>1 DEF IInv, BannedAreOut, PardonPlayer, LoggedIn, NameOf
  <2> QED BY <2>1, <2>2 DEF IInv, SessionsTyped, EntityInGame, UniqueNames,
            FileCurrent, KeptOnFile, LoggedIn, NameOf
<1> QED BY <1>1, <1>2, <1>3

(* A session gets a name that no other player has, to be verified or, with the
   player's file, in the game. *)
LEMMA LoginStep ==
    ASSUME IInv, NEW s \in Present, NEW r \in SessionType, NEW n \in Names,
           session' = [session EXCEPT ![s] = r],
           UNCHANGED <<file, banned, kept, misboots>>,
           session[s].connState \notin InGame,
           r.username = n,
           ~r.registered,
           \/ r.connState = "VerifyingUsername" /\ r.held = NoEntity
           \/ r.connState = "WaitingForSpawnChunks" /\ r.held = file[n],
           \A t \in Present \ {s} : LoggedIn(t) => NameOf(t) # n,
           r.connected => n \notin banned \/ n \in misboots
    PROVE  IInv'
<1>1. Present' = Present /\ session' \in [Present -> SessionType]
  BY DEF IInv, SessionsTyped, Present
<1>2. session'[s] = r /\ \A t \in Present \ {s} : session'[t] = session[t]
  BY DEF IInv, SessionsTyped, Present
<1>3. SessionsTyped'
  BY <1>1 DEF IInv, SessionsTyped
<1>4. file[n] \in 0..MaxHeld /\ file[n] # NoEntity /\ file[n] <= file[n]
  BY LimitsType, NullsType DEF IInv, SessionsTyped
<1>5. EntityInGame'
  BY <1>1, <1>2, <1>4 DEF IInv, EntityInGame, LoggedIn, NameOf, InGame
<1>6. UniqueNames'
  BY <1>1, <1>2 DEF IInv, UniqueNames, LoggedIn, NameOf
<1>7. BannedAreOut'
  BY <1>1, <1>2 DEF IInv, BannedAreOut, LoggedIn, NameOf
<1>8. FileCurrent'
  BY <1>1, <1>2, <1>4 DEF IInv, FileCurrent, LoggedIn, NameOf, InGame
<1>9. KeptOnFile'
  BY <1>1, <1>2 DEF IInv, KeptOnFile, NameOf
<1> QED BY <1>3, <1>5, <1>6, <1>7, <1>8, <1>9 DEF IInv

(* What connections do: they are accepted, lost, and answered for. *)
LEMMA ConnectionStep ==
    ASSUME IInv,
           \/ AcceptNewPlayers
           \/ \E s \in Sessions : ConnectionLost(s)
           \/ \E s \in Sessions, answer \in {"yes", "no"} : AuthAnswer(s, answer)
    PROVE  IInv'
<1>1. CASE AcceptNewPlayers
  <2>1. PICK s \in Sessions : s \notin Present /\ session' =
            [t \in Present \cup {s} |-> IF t = s THEN NewSession ELSE session[t]]
    BY <1>1 DEF AcceptNewPlayers, IInv, SessionsTyped
  <2>2. Present' = Present \cup {s} /\ UNCHANGED <<file, banned, kept, misboots>>
    BY <1>1, <2>1 DEF Present, AcceptNewPlayers, diskVars, historyVars
  <2>3. session'[s] = NewSession /\ \A t \in Present : session'[t] = session[t] /\ t # s
    BY <2>1
  <2>4. NewSession \in SessionType
    BY TimersType DEF NewSession, SessionType, ConnectionState
  <2>5. SessionsTyped'
    BY <2>1, <2>2, <2>4 DEF IInv, SessionsTyped
  <2>6. ~LoggedIn(s)' /\ session'[s].connState \notin InGame /\ ~session'[s].registered
        /\ session'[s].held = NoEntity
    BY <2>3 DEF LoggedIn, NewSession, InGame
  <2>7. \A t \in Present : (LoggedIn(t)' <=> LoggedIn(t)) /\ NameOf(t)' = NameOf(t)
    BY <2>3 DEF LoggedIn, NameOf
  <2>8. EntityInGame' /\ UniqueNames' /\ BannedAreOut' /\ FileCurrent'
    BY <2>2, <2>3, <2>6, <2>7 DEF IInv, EntityInGame, UniqueNames, BannedAreOut, FileCurrent
  <2>9. KeptOnFile'
    BY <2>2, <2>3, <2>7 DEF IInv, KeptOnFile
  <2> QED BY <2>5, <2>8, <2>9 DEF IInv
<1>2. ASSUME NEW s \in Sessions, ConnectionLost(s) PROVE IInv'
  <2> DEFINE r == [session[s] EXCEPT !.connected = FALSE]
  <2>1. s \in Present /\ session[s] \in SessionType
    BY <1>2 DEF ConnectionLost, IInv, SessionsTyped
  <2>2. r \in SessionType /\ session' = [session EXCEPT ![s] = r]
        /\ UNCHANGED <<file, banned, kept, misboots>>
    BY <1>2, <2>1 DEF ConnectionLost, SessionType, diskVars, historyVars
  <2>3. SameStage(s, r)
    BY <2>1, <2>2 DEF SameStage, SessionType, IInv, EntityInGame, LoggedIn
  <2> HIDE DEF r
  <2> QED BY <2>1, <2>2, <2>3, SameStageStep
<1>3. ASSUME NEW s \in Sessions, NEW answer \in {"yes", "no"}, AuthAnswer(s, answer)
      PROVE  IInv'
  <2> DEFINE r == [session[s] EXCEPT !.auth = answer]
  <2>1. s \in Present /\ session[s] \in SessionType
    BY <1>3 DEF AuthAnswer, IInv, SessionsTyped
  <2>2. r \in SessionType /\ session' = [session EXCEPT ![s] = r]
        /\ UNCHANGED <<file, banned, kept, misboots>>
    BY <1>3, <2>1 DEF AuthAnswer, SessionType, diskVars, historyVars
  <2>3. SameStage(s, r)
    BY <2>1, <2>2 DEF SameStage, SessionType, IInv, EntityInGame, LoggedIn
  <2> HIDE DEF r
  <2> QED BY <2>1, <2>2, <2>3, SameStageStep
<1> QED BY <1>1, <1>2, <1>3

(* A timer that is reset is in its range. *)
LEMMA TimerStarts == 0 \in 0..Timeout
BY TimersType

(* The visit of a session that stays at its stage: packets, a change of world,
   the handshake, a refused login, the last spawn chunk. *)
LEMMA VisitStep ==
    ASSUME IInv,
           Packet \/ ToDimension \/ ShortRead \/ HandleHandshake \/ RefuseLogin
               \/ WaitForSpawnChunks
    PROVE  IInv'
<1>1. UNCHANGED <<file, banned, kept, misboots>>
  BY DEF Packet, ToDimension, ShortRead, HandleHandshake, RefuseLogin,
         WaitForSpawnChunks, diskVars, historyVars
<1>2. CASE cur \notin Present
  <2>1. session' = session
    BY <1>2 DEF IInv, SessionsTyped, Packet, ToDimension, ShortRead, HandleHandshake,
         RefuseLogin, WaitForSpawnChunks
  <2> QED BY <1>1, <2>1, QuietStep
<1>3. CASE cur \in Present
  <2>1. session[cur] \in SessionType
    BY <1>3 DEF IInv, SessionsTyped
  <2>2. CASE Packet
    <3>1. PICK grown \in 0..1 :
            /\ grown = 1 => /\ session[cur].connState = "Playing"
                            /\ session[cur].connected
                            /\ session[cur].held < MaxHeld
            /\ session' = [session EXCEPT ![cur].silent = 0, ![cur].held = @ + grown]
      BY <2>2 DEF Packet
    <3> DEFINE r == [session[cur] EXCEPT !.silent = 0, !.held = @ + grown]
    <3>2. session' = [session EXCEPT ![cur] = r]
      BY <3>1 DEF IInv, SessionsTyped
    <3>3. session[cur].connState \in InGame /\ session[cur].held \in 0..MaxHeld
      BY <1>3, <2>1, <2>2 DEF Packet, IInv, EntityInGame, SessionType
    <3>4. session[cur].held + grown \in 0..MaxHeld
      BY <3>1, <3>3, LimitsType
    <3>5. r \in SessionType
      BY <2>1, <3>4, TimerStarts DEF SessionType
    <3>6. SameStage(cur, r)
      BY <1>3, <2>1, <3>1, <3>3, <3>4, NullsType
         DEF SameStage, SessionType, IInv, EntityInGame, KeptOnFile, LoggedIn
    <3> HIDE DEF r
    <3> QED BY <1>1, <1>3, <3>2, <3>5, <3>6, SameStageStep
  <2>3. CASE ToDimension
    <3> DEFINE r == [session[cur] EXCEPT !.connState = "WaitingForSpawnChunks", !.silent = 0]
    <3>1. session' = [session EXCEPT ![cur] = r] /\ session[cur].connState = "Playing"
      BY <2>3 DEF ToDimension, IInv, SessionsTyped
    <3>2. r \in SessionType
      BY <2>1, TimerStarts DEF SessionType, ConnectionState
    <3>3. SameStage(cur, r)
      BY <1>3, <2>1, <3>1, <3>2
         DEF SameStage, SessionType, IInv, EntityInGame, LoggedIn, InGame
    <3> HIDE DEF r
    <3> QED BY <1>1, <1>3, <3>1, <3>2, <3>3, SameStageStep
  <2>4. CASE ShortRead
    <3> DEFINE r == [session[cur] EXCEPT !.garbled = TRUE]
    <3>1. session' = [session EXCEPT ![cur] = r]
      BY <2>4 DEF ShortRead
    <3>2. r \in SessionType
      BY <2>1 DEF SessionType
    <3>3. SameStage(cur, r)
      BY <1>3, <2>1, <3>2 DEF SameStage, SessionType, IInv, EntityInGame, LoggedIn
    <3> HIDE DEF r
    <3> QED BY <1>1, <1>3, <3>1, <3>2, <3>3, SameStageStep
  <2>5. CASE HandleHandshake
    <3> DEFINE r == [session[cur] EXCEPT !.connState = "LoggingIn"]
    <3>1. session' = [session EXCEPT ![cur] = r] /\ session[cur].connState = "Handshaking"
      BY <2>5 DEF HandleHandshake, InState
    <3>2. r \in SessionType
      BY <2>1 DEF SessionType, ConnectionState
    <3>3. SameStage(cur, r)
      BY <1>3, <2>1, <3>1, <3>2
         DEF SameStage, SessionType, IInv, EntityInGame, LoggedIn, InGame
    <3> HIDE DEF r
    <3> QED BY <1>1, <1>3, <3>1, <3>2, <3>3, SameStageStep
  <2>6. CASE RefuseLogin
    <3>1. PICK n \in Names \cup {NoName} :
            session' = [session EXCEPT ![cur].username = n, ![cur].connected = FALSE]
      BY <2>6 DEF RefuseLogin
    <3> DEFINE r == [session[cur] EXCEPT !.username = n, !.connected = FALSE]
    <3>2. session' = [session EXCEPT ![cur] = r] /\ session[cur].connState = "LoggingIn"
      BY <2>6, <3>1 DEF RefuseLogin, InState, IInv, SessionsTyped
    <3>3. r \in SessionType
      BY <2>1 DEF SessionType
    <3>4. SameStage(cur, r)
      BY <1>3, <2>1, <3>2, <3>3
         DEF SameStage, SessionType, IInv, EntityInGame, LoggedIn, InGame
    <3> HIDE DEF r
    <3> QED BY <1>1, <1>3, <3>2, <3>3, <3>4, SameStageStep
  <2>7. CASE WaitForSpawnChunks
    <3> DEFINE r == [session[cur] EXCEPT !.connState = "Playing", !.registered = TRUE]
    <3>1. /\ session' = [session EXCEPT ![cur] = r]
          /\ session[cur].connState = "WaitingForSpawnChunks"
      BY <2>7 DEF WaitForSpawnChunks, InState, IInv, SessionsTyped
    <3>2. r \in SessionType
      BY <2>1 DEF SessionType, ConnectionState
    <3>3. SameStage(cur, r)
      BY <1>3, <2>1, <3>1, <3>2
         DEF SameStage, SessionType, IInv, EntityInGame, LoggedIn, InGame
    <3> HIDE DEF r
    <3> QED BY <1>1, <1>3, <3>1, <3>2, <3>3, SameStageStep
  <2> QED BY <2>2, <2>3, <2>4, <2>5, <2>6, <2>7
<1> QED BY <1>2, <1>3

(* A login packet: refused, sent to be verified, or let in at once. *)
LEMMA HandleLoginStep ==
    ASSUME IInv, NEW n \in Names, HandleLogin(n)
    PROVE  IInv'
<1>1. UNCHANGED <<file, banned, kept, misboots>>
  BY DEF HandleLogin, diskVars, historyVars
<1>2. CASE cur \notin Present
  <2>1. session' = session
    BY <1>2 DEF IInv, SessionsTyped, HandleLogin
  <2> QED BY <1>1, <2>1, QuietStep
<1>3. CASE cur \in Present
  <2>1. session[cur] \in SessionType /\ session[cur].connState = "LoggingIn"
    BY <1>3 DEF IInv, SessionsTyped, HandleLogin, InState
  <2>2. session[cur].connState \notin InGame /\ ~LoggedIn(cur)
        /\ session[cur].held = NoEntity /\ ~session[cur].registered
    BY <1>3, <2>1 DEF InGame, LoggedIn, IInv, EntityInGame
  <2>3. CASE Rejected(n)
    <3> DEFINE r == [session[cur] EXCEPT !.username = n, !.connected = FALSE]
    <3>1. session' = [session EXCEPT ![cur] = r]
      BY <2>3 DEF HandleLogin
    <3>2. r \in SessionType
      BY <2>1 DEF SessionType
    <3>3. SameStage(cur, r)
      BY <1>3, <2>1, <2>2, <3>2 DEF SameStage, SessionType
    <3> HIDE DEF r
    <3> QED BY <1>1, <1>3, <3>1, <3>2, <3>3, SameStageStep
  <2>4. CASE ~Rejected(n)
    <3>1. n \notin banned /\ \A t \in Present \ {cur} : NameOf(t) # n
      BY <2>4 DEF Rejected
    <3>2. CASE onlineMode
      <4> DEFINE r == [session[cur] EXCEPT !.username = n, !.auth = "asked",
                                           !.connState = "VerifyingUsername"]
      <4>1. session' = [session EXCEPT ![cur] = r]
        BY <2>4, <3>2 DEF HandleLogin
      <4>2. r \in SessionType
        BY <2>1 DEF SessionType, ConnectionState
      <4>3. /\ r.username = n
            /\ ~r.registered
            /\ r.connState = "VerifyingUsername" /\ r.held = NoEntity
        BY <2>1, <2>2 DEF SessionType
      <4> HIDE DEF r
      <4> QED BY <1>1, <1>3, <2>2, <3>1, <4>1, <4>2, <4>3, LoginStep
    <3>3. CASE ~onlineMode
      <4> DEFINE r == LoggedInSession(cur, n)
      <4>1. session' = [session EXCEPT ![cur] = r]
        BY <2>4, <3>3 DEF HandleLogin
      <4>2. r \in SessionType
        BY <2>1 DEF SessionType, ConnectionState, LoggedInSession, IInv, SessionsTyped
      <4>3. /\ r.username = n
            /\ ~r.registered
            /\ r.connState = "WaitingForSpawnChunks" /\ r.held = file[n]
        BY <2>1, <2>2 DEF SessionType, LoggedInSession
      <4> HIDE DEF r
      <4> QED BY <1>1, <1>3, <2>2, <3>1, <4>1, <4>2, <4>3, LoginStep
    <3> QED BY <3>2, <3>3
  <2> QED BY <2>3, <2>4
<1> QED BY <1>2, <1>3

(* The answer of the authentication server, or the wait for it. *)
LEMMA HandleVerifyingUsernameStep ==
    ASSUME IInv, HandleVerifyingUsername
    PROVE  IInv'
<1>1. UNCHANGED <<file, banned, kept, misboots>>
  BY DEF HandleVerifyingUsername, diskVars, historyVars
<1>2. CASE cur \notin Present
  <2>1. session' = session
    BY <1>2 DEF IInv, SessionsTyped, HandleVerifyingUsername
  <2> QED BY <1>1, <2>1, QuietStep
<1>3. CASE cur \in Present
  <2>1. session[cur] \in SessionType /\ session[cur].connState = "VerifyingUsername"
    BY <1>3 DEF IInv, SessionsTyped, HandleVerifyingUsername, InState
  <2>2. session[cur].connState \notin InGame /\ LoggedIn(cur)
        /\ session[cur].held = NoEntity /\ ~session[cur].registered
    BY <1>3, <2>1 DEF InGame, LoggedIn, IInv, EntityInGame
  <2>3. CASE session[cur].auth = "yes"
    <3> DEFINE n == session[cur].username
               r == LoggedInSession(cur, n)
    <3>1. session' = [session EXCEPT ![cur] = r]
      BY <2>3 DEF HandleVerifyingUsername
    <3>2. n \in Names
      BY <1>3, <2>2 DEF IInv, EntityInGame, NameOf
    <3>3. r \in SessionType
      BY <2>1, <3>2 DEF SessionType, ConnectionState, LoggedInSession, IInv, SessionsTyped
    <3>4. /\ r.username = n
          /\ ~r.registered
          /\ r.connState = "WaitingForSpawnChunks" /\ r.held = file[n]
          /\ r.connected = session[cur].connected
      BY <2>1, <2>2 DEF SessionType, LoggedInSession
    <3>5. \A t \in Present \ {cur} : LoggedIn(t) => NameOf(t) # n
      BY <1>3, <2>2 DEF IInv, UniqueNames, NameOf
    <3>6. r.connected => n \notin banned \/ n \in misboots
      BY <1>3, <2>2, <3>4 DEF IInv, BannedAreOut, NameOf
    <3> HIDE DEF r, n
    <3> QED BY <1>1, <1>3, <2>2, <3>1, <3>2, <3>3, <3>4, <3>5, <3>6, LoginStep
  <2>4. CASE session[cur].auth = "asked" /\ session[cur].authTicks <= AuthTimeout
    <3> DEFINE r == [session[cur] EXCEPT !.authTicks = @ + 1]
    <3> DEFINE waits == session[cur].auth = "asked" /\ session[cur].authTicks <= AuthTimeout
    <3>1. session' = [session EXCEPT ![cur] = r]
      <4>1. session' = [session EXCEPT ![cur] =
                CASE session[cur].auth = "yes" -> LoggedInSession(cur, session[cur].username)
                  [] waits -> r
                  [] OTHER -> [session[cur] EXCEPT !.connected = FALSE]]
        BY DEF HandleVerifyingUsername
      <4>2. waits /\ session[cur].auth # "yes"
        BY <2>4
      <4> HIDE DEF waits, r
      <4> QED BY <4>1, <4>2
    <3>2. session[cur].authTicks \in 0..(AuthTimeout + 1)
      BY <2>1 DEF SessionType
    <3>3. session[cur].authTicks + 1 \in 0..(AuthTimeout + 1)
      <4> DEFINE ticks == session[cur].authTicks
      <4>1. ticks \in 0..(AuthTimeout + 1) /\ ticks <= AuthTimeout
        BY <2>4, <3>2
      <4> HIDE DEF ticks
      <4>2. ticks + 1 \in 0..(AuthTimeout + 1)
        BY <4>1, TimersType
      <4> QED BY <4>2 DEF ticks
    <3>4. r \in SessionType
      BY <2>1, <3>3 DEF SessionType
    <3>5. SameStage(cur, r)
      BY <1>3, <2>1, <2>2, <3>4 DEF SameStage, SessionType, LoggedIn
    <3> HIDE DEF r
    <3> QED BY <1>1, <1>3, <3>1, <3>4, <3>5, SameStageStep
  <2>5. CASE /\ session[cur].auth # "yes"
             /\ ~(session[cur].auth = "asked" /\ session[cur].authTicks <= AuthTimeout)
    <3> DEFINE r == [session[cur] EXCEPT !.connected = FALSE]
    <3>1. session' = [session EXCEPT ![cur] = r]
      BY <2>5 DEF HandleVerifyingUsername
    <3>2. r \in SessionType
      BY <2>1 DEF SessionType
    <3>3. SameStage(cur, r)
      BY <1>3, <2>1, <2>2, <3>2 DEF SameStage, SessionType, LoggedIn
    <3> HIDE DEF r
    <3> QED BY <1>1, <1>3, <3>1, <3>2, <3>3, SameStageStep
  <2> QED BY <2>3, <2>4, <2>5
<1> QED BY <1>2, <1>3

(* The world changes what an entity has. *)
LEMMA WorldTickStep ==
    ASSUME IInv, WorldTick
    PROVE  IInv'
<1>1. UNCHANGED <<file, banned, misboots>>
  BY DEF WorldTick, diskVars
<1>2. CASE UNCHANGED <<session, kept>>
  BY <1>1, <1>2, QuietStep
<1>3. CASE \E s \in Present : /\ session[s].registered
                              /\ session[s].held < MaxHeld
                              /\ session' = [session EXCEPT ![s].held = @ + 1]
                              /\ kept' = kept \ {s}
  <2>1. PICK s \in Present : /\ session[s].registered
                             /\ session[s].held < MaxHeld
                             /\ session' = [session EXCEPT ![s].held = @ + 1]
                             /\ kept' = kept \ {s}
    BY <1>3
  <2>2. session[s] \in SessionType /\ session[s].connState \in InGame
        /\ session[s].held # NoEntity
    BY <2>1 DEF IInv, SessionsTyped, EntityInGame
  <2>3. session[s].held \in 0..MaxHeld
    BY <2>2 DEF SessionType
  <2>4. session[s].held + 1 \in 0..MaxHeld
    BY <2>1, <2>3, LimitsType
  <2> DEFINE r == [session[s] EXCEPT !.held = @ + 1]
  <2>5. session' = [session EXCEPT ![s] = r]
    BY <2>1
  <2>6. /\ r \in SessionType
        /\ r.held = session[s].held + 1
        /\ r.connState = session[s].connState
        /\ r.connected = session[s].connected
        /\ r.username = session[s].username
        /\ r.registered = session[s].registered
    BY <2>2, <2>4 DEF SessionType
  <2> HIDE DEF r
  <2>7. /\ Present' = Present
        /\ session' \in [Present -> SessionType]
        /\ session'[s] = r
        /\ \A t \in Present \ {s} : session'[t] = session[t]
    BY <2>5, <2>6 DEF IInv, SessionsTyped, Present
  <2>8. SessionsTyped'
    BY <1>1, <2>7 DEF IInv, SessionsTyped
  <2>9. r.held # NoEntity
    BY <2>3, <2>6, NullsType
  <2>10. EntityInGame' /\ UniqueNames' /\ BannedAreOut'
    BY <1>1, <2>2, <2>6, <2>7, <2>9
       DEF IInv, EntityInGame, UniqueNames, BannedAreOut, LoggedIn, NameOf
  <2>11. FileCurrent'
    <3>1. file[NameOf(s)] \in Nat /\ file[NameOf(s)] <= session[s].held
      BY <2>2, LimitsType DEF IInv, SessionsTyped, EntityInGame, FileCurrent, LoggedIn
    <3>2. file[NameOf(s)] <= r.held
      BY <2>3, <2>6, <3>1
    <3> QED BY <1>1, <2>6, <2>7, <3>2 DEF IInv, FileCurrent, NameOf
  <2>12. KeptOnFile'
    BY <1>1, <2>1, <2>7 DEF IInv, KeptOnFile, NameOf
  <2> QED BY <2>8, <2>10, <2>11, <2>12 DEF IInv
<1> QED BY <1>2, <1>3 DEF WorldTick

(* Sessions are removed at the end of a tick. *)
LEMMA DisconnectClientsStep ==
    ASSUME IInv, DisconnectClients
    PROVE  IInv'
<1> DEFINE stay == {s \in Present \ Silent : session[s].connected}
           silent(s) == IF session[s].silent < Timeout THEN session[s].silent + 1
                        ELSE session[s].silent
<1>1. /\ file' = Saved({NameOf(s) : s \in {t \in Silent : session[t].connState = "Playing"}})
      /\ session' = [s \in stay |-> [session[s] EXCEPT !.silent = silent(s)]]
      /\ kept' = kept \cap stay
      /\ UNCHANGED <<banned, misboots>>
  BY DEF DisconnectClients
<1>2. Present' = stay /\ stay \subseteq Present
  BY <1>1 DEF Present
<1>3. \A s \in stay : silent(s) \in 0..Timeout
  <2> SUFFICES ASSUME NEW s \in stay PROVE silent(s) \in 0..Timeout
    OBVIOUS
  <2>1. session[s].silent \in 0..Timeout
    BY DEF IInv, SessionsTyped, SessionType
  <2> DEFINE ticks == session[s].silent
  <2>2. ticks \in 0..Timeout
    BY <2>1
  <2> HIDE DEF ticks
  <2>3. (IF ticks < Timeout THEN ticks + 1 ELSE ticks) \in 0..Timeout
    BY <2>2, TimersType
  <2> QED BY <2>3 DEF ticks
<1> HIDE DEF silent
<1>4. \A s \in stay : /\ session'[s] \in SessionType
                      /\ session'[s].connState = session[s].connState
                      /\ session'[s].connected = session[s].connected
                      /\ session'[s].username = session[s].username
                      /\ session'[s].held = session[s].held
                      /\ session'[s].registered = session[s].registered
  BY <1>1, <1>2, <1>3, ZenonT(40) DEF IInv, SessionsTyped, SessionType
<1> HIDE DEF stay
<1>5. \A s \in stay : (LoggedIn(s)' <=> LoggedIn(s)) /\ NameOf(s)' = NameOf(s)
  BY <1>4 DEF LoggedIn, NameOf
<1>6. SessionsTyped'
  <2>1. session' \in [stay -> SessionType]
    BY <1>1, <1>4
  <2> QED BY <1>1, <1>2, <2>1, SavedIsCurrent DEF IInv, SessionsTyped
<1>7. EntityInGame'
  BY <1>2, <1>4, <1>5 DEF IInv, EntityInGame
<1>8. UniqueNames'
  BY <1>2, <1>5 DEF IInv, UniqueNames
<1>9. BannedAreOut'
  BY <1>1, <1>2, <1>4, <1>5 DEF IInv, BannedAreOut
<1>10. /\ \A s \in Present : session[s].connState \in InGame
              => file'[NameOf(s)] <= session[s].held
       /\ \A s \in kept : file'[NameOf(s)] = session[s].held
  BY <1>1, SavedIsCurrent
<1>11. FileCurrent'
  BY <1>2, <1>4, <1>5, <1>10 DEF FileCurrent
<1>12. KeptOnFile'
  BY <1>1, <1>2, <1>4, <1>5, <1>10 DEF IInv, KeptOnFile
<1> QED BY <1>6, <1>7, <1>8, <1>9, <1>11, <1>12 DEF IInv

(* A shutdown or a crash leaves the files and no session. *)
LEMMA EndStep ==
    ASSUME IInv, Stop \/ Crash
    PROVE  IInv'
<1>1. session' = << >> /\ kept' = {} /\ Present' = {}
  BY DEF Stop, Crash, ServerGone, Present
<1>2. file' \in [Names -> 0..MaxHeld]
  BY SavedIsCurrent DEF Stop, Crash, IInv, SessionsTyped
<1>3. session' \in [Present' -> SessionType']
  BY <1>1 DEF Present
<1> QED BY <1>1, <1>2, <1>3 DEF IInv, SessionsTyped, EntityInGame, UniqueNames, BannedAreOut,
           FileCurrent, KeptOnFile

-----------------------------------------------------------------------------
(* The invariant.                                                          *)

(* The server starts with no session, so the invariant holds. *)
THEOREM InitInv == Init => IInv
<1> SUFFICES ASSUME Init PROVE IInv
  OBVIOUS
<1>1. session = << >> /\ kept = {} /\ Present = {}
  BY DEF Init, Present
<1>2. session \in [Present -> SessionType]
  BY <1>1 DEF Present
<1>3. file \in [Names -> 0..MaxHeld]
  BY LimitsType DEF Init
<1> QED BY <1>1, <1>2, <1>3 DEF IInv, SessionsTyped, EntityInGame, UniqueNames, BannedAreOut,
           FileCurrent, KeptOnFile

(* Every packet, command, tick, timeout, shutdown and crash keeps it. *)
THEOREM NextInv == IInv /\ [Next]_vars => IInv'
<1> SUFFICES ASSUME IInv, [Next]_vars PROVE IInv'
  OBVIOUS
<1>1. CASE UNCHANGED vars
  BY <1>1, QuietStep DEF vars, sessionVars, diskVars, historyVars
<1>2. CASE ToggleTickFreeze \/ StartVisits \/ NoPacket \/ NothingRead
  BY <1>2, QuietStep DEF ToggleTickFreeze, StartVisits, NoPacket, NothingRead,
     sessionVars, diskVars, historyVars
<1>3. ASSUME NEW n \in Names, KickPlayer(n) \/ BanPlayer(n) \/ PardonPlayer(n) PROVE IInv'
  BY <1>3, CommandStep
<1>4. CASE Leave
  BY <1>4, DisconnectStep DEF Leave
<1>5. CASE SaveAllPlayers
  <2>1. UNCHANGED <<session, banned, kept, misboots>>
    BY <1>5 DEF SaveAllPlayers, sessionVars, historyVars
  <2>2. CASE file' = file
    BY <2>1, <2>2, QuietStep
  <2>3. CASE file' = Saved({NameOf(s) : s \in {t \in Present : session[t].connState \in InGame}})
    BY <2>1, <2>3, SaveStep
  <2> QED BY <1>5, <2>2, <2>3 DEF SaveAllPlayers
<1>6. ASSUME NEW n \in Names, HandleLogin(n) PROVE IInv'
  BY <1>6, HandleLoginStep
<1>7. QED
  BY <1>1, <1>2, <1>3, <1>4, <1>5, <1>6, ConnectionStep, VisitStep,
     HandleVerifyingUsernameStep, WorldTickStep, DisconnectClientsStep, EndStep
     DEF Next, Environment, Tick

(* It holds of every behaviour of the server. *)
THEOREM PlayerSessionsInvariant == Spec => []IInv
BY InitInv, NextInv, PTL DEF Spec

-----------------------------------------------------------------------------
(* The vector of the sessions.                                             *)

(* Of two sessions one comes first, and what comes before the first comes
   before the second. *)
LEMMA BeforeOrders ==
    ASSUME players \in Seq(Sessions), PlayersOK
    PROVE  /\ \A s, t \in Present : s # t => Before(s, t) \/ Before(t, s)
           /\ \A s : ~Before(s, s)
           /\ \A r, s, t : Before(r, s) /\ Before(s, t) => Before(r, t)
<1>1. DOMAIN players = 1..Len(players) /\ Len(players) \in Nat
  OBVIOUS
<1>2. \A i, j \in DOMAIN players : players[i] = players[j] => i = j
  BY DEF PlayersOK, IsInjective
<1>3. \A s \in Present : \E i \in DOMAIN players : players[i] = s
  BY DEF PlayersOK, ToSet
<1>4. ASSUME NEW s \in Present, NEW t \in Present, s # t PROVE Before(s, t) \/ Before(t, s)
  <2>1. PICK i \in DOMAIN players : players[i] = s
    BY <1>3
  <2>2. PICK j \in DOMAIN players : players[j] = t
    BY <1>3
  <2>3. i \in Int /\ j \in Int /\ i # j
    BY <1>1, <1>4, <2>1, <2>2
  <2>4. i < j \/ j < i
    BY <2>3
  <2> QED BY <2>1, <2>2, <2>4 DEF Before
<1>5. ASSUME NEW s PROVE ~Before(s, s)
  <2>1. \A i \in DOMAIN players : ~(i < i)
    BY <1>1
  <2> QED BY <1>2, <2>1 DEF Before
<1>6. ASSUME NEW r, NEW s, NEW t, Before(r, s), Before(s, t) PROVE Before(r, t)
  <2>1. PICK i, j \in DOMAIN players : i < j /\ players[i] = r /\ players[j] = s
    BY <1>6 DEF Before
  <2>2. PICK k, l \in DOMAIN players : k < l /\ players[k] = s /\ players[l] = t
    BY <1>6 DEF Before
  <2>3. j = k
    BY <1>2, <2>1, <2>2
  <2>4. i < l
    BY <1>1, <2>1, <2>2, <2>3
  <2> QED BY <2>1, <2>2, <2>4 DEF Before
<1> QED BY <1>4, <1>5, <1>6

(* Every session is in the vector once, so that there are no more of them than
   it is long. *)
LEMMA AsManyAsPresent ==
    ASSUME players \in Seq(Sessions), PlayersOK, NEW stay \in SUBSET Present
    PROVE  /\ IsFiniteSet(stay)
           /\ Cardinality(stay) \in Nat
           /\ Cardinality(stay) <= Len(players)
<1>1. DOMAIN players = 1..Len(players) /\ Len(players) \in Nat
  OBVIOUS
<1>2. players \in Surjection(1..Len(players), Present)
  BY <1>1 DEF PlayersOK, ToSet, Surjection
<1>3. IsFiniteSet(1..Len(players)) /\ Cardinality(1..Len(players)) = Len(players)
  BY <1>1, FS_Interval
<1>4. IsFiniteSet(Present) /\ Cardinality(Present) <= Len(players)
  BY <1>2, <1>3, FS_Surjection
<1>5. IsFiniteSet(stay) /\ Cardinality(stay) <= Cardinality(Present)
  BY <1>4, FS_Subset
<1>6. Cardinality(stay) \in Nat /\ Cardinality(Present) \in Nat
  BY <1>4, <1>5, FS_CardinalityType
<1> QED BY <1>1, <1>4, <1>5, <1>6

(* The sessions that stay are in the vector again, each once: their places are
   as many as they are, and no two have one place. *)
LEMMA InOrderHolds ==
    ASSUME players \in Seq(Sessions), PlayersOK, Present \subseteq Sessions,
           NEW stay \in SUBSET Present
    PROVE  /\ InOrder(stay) \in Seq(Sessions)
           /\ ToSet(InOrder(stay)) = stay
           /\ IsInjective(InOrder(stay))
           /\ Len(InOrder(stay)) <= Len(players)
<1> DEFINE n == Cardinality(stay)
           Up(s) == {t \in stay : t = s \/ Before(t, s)}
           Place(s) == Cardinality(Up(s))
           place == [s \in stay |-> Place(s)]
           order == [k \in 1..n |-> CHOOSE s \in stay : Place(s) = k]
<1>1. IsFiniteSet(stay) /\ n \in Nat /\ n <= Len(players)
  BY AsManyAsPresent
<1>2. ASSUME NEW s \in stay
      PROVE  /\ IsFiniteSet(Up(s)) /\ Place(s) \in 1..n
  <2>1. Up(s) \in SUBSET stay /\ s \in Up(s)
    OBVIOUS
  <2>2. IsFiniteSet(Up(s)) /\ Place(s) <= n
    BY <1>1, <2>1, FS_Subset
  <2>3. Place(s) \in Nat /\ Place(s) # 0
    BY <2>1, <2>2, FS_CardinalityType, FS_EmptySet
  <2> QED BY <1>1, <2>2, <2>3
<1>3. ASSUME NEW s \in stay, NEW t \in stay, Before(s, t) PROVE Place(s) # Place(t)
  <2>1. Up(s) \in SUBSET Up(t)
    BY <1>3, BeforeOrders
  <2>2. t \in Up(t) /\ t \notin Up(s)
    BY <1>3, BeforeOrders
  <2>3. Up(s) # Up(t)
    BY <2>2
  <2> HIDE DEF Up
  <2> QED BY <1>2, <2>1, <2>3, FS_Subset
<1>4. place \in Injection(stay, 1..n)
  <2>1. place \in [stay -> 1..n]
    BY <1>2
  <2>2. \A s, t \in stay : s # t => Place(s) # Place(t)
    BY <1>3, BeforeOrders
  <2> HIDE DEF Place
  <2> QED BY <2>1, <2>2 DEF Injection, IsInjective
<1>5. place \in Surjection(stay, 1..n)
  <2>1. IsFiniteSet(1..n) /\ Cardinality(1..n) = n
    BY <1>1, FS_Interval
  <2> HIDE DEF place
  <2> QED BY <1>4, <2>1, FS_Injection
<1>6. \A k \in 1..n : \E s \in stay : Place(s) = k
  <2> HIDE DEF Place
  <2> QED BY <1>5 DEF Surjection
<1>7. \A s, t \in stay : Place(s) = Place(t) => s = t
  BY <1>3, BeforeOrders
<1> HIDE DEF Place
<1>8. /\ order \in [1..n -> stay]
      /\ \A k \in 1..n : Place(order[k]) = k
  BY <1>6
<1>9. InOrder(stay) = order
  BY DEF InOrder, Place, Up
<1> HIDE DEF order, n
<1>10. order \in Seq(Sessions) /\ Len(order) = n /\ DOMAIN order = 1..n
  BY <1>1, <1>8
<1>11. ToSet(order) = stay
  <2>1. \A s \in stay : order[Place(s)] = s
    BY <1>2, <1>7, <1>8
  <2>2. \A s \in stay : \E k \in 1..n : order[k] = s
    BY <1>2, <2>1
  <2> QED BY <1>8, <1>10, <2>2 DEF ToSet
<1>12. IsInjective(order)
  BY <1>8, <1>10 DEF IsInjective
<1> QED BY <1>1, <1>9, <1>10, <1>11, <1>12

\* What TypeOK says beyond IInv.
ShapeOK ==
    /\ players \in Seq(Sessions)
    /\ PlayersOK
    /\ banned \subseteq Names
    /\ onlineMode \in BOOLEAN /\ frozen \in BOOLEAN
    /\ currentTick \in 0..(SaveInterval - 1)
    /\ pc \in {"commands", "incoming", "state", "world", "disconnect"}
    /\ next \in 1..(MaxPlayers + 1)
    /\ misboots \subseteq Names

LEMMA ShapeInit == Init => ShapeOK
<1> SUFFICES ASSUME Init PROVE ShapeOK
  OBVIOUS
<1>1. players = << >> /\ Present = {}
  BY DEF Init, Present
<1>2. PlayersOK
  BY <1>1, LimitsType DEF PlayersOK, ToSet, IsInjective
<1>3. players \in Seq(Sessions)
  BY <1>1
<1>4. 1 \in 1..(MaxPlayers + 1) /\ 0 \in 0..(SaveInterval - 1)
  BY LimitsType
<1> QED BY <1>2, <1>3, <1>4 DEF Init, ShapeOK

(* Most steps leave the vector and the sessions in it. *)
LEMMA SamePlayers ==
    ASSUME ShapeOK, UNCHANGED players, Present' = Present
    PROVE  players' \in Seq(Sessions) /\ PlayersOK'
BY DEF ShapeOK, PlayersOK

(* The visit of a session goes to its own record, and then to the next place. *)
LEMMA VisitShape ==
    ASSUME ShapeOK, Visiting("incoming") \/ Visiting("state")
    PROVE  next + 1 \in 1..(MaxPlayers + 1)
<1>1. Len(players) \in Nat /\ Len(players) <= MaxPlayers
  BY DEF ShapeOK, PlayersOK
<1> QED BY <1>1, LimitsType DEF ShapeOK, Visiting

LEMMA CommandShape ==
    ASSUME ShapeOK, NEW n \in Names, KickPlayer(n) \/ BanPlayer(n) \/ PardonPlayer(n)
    PROVE  ShapeOK'
<1>1. UNCHANGED <<players, onlineMode, frozen, currentTick, pc, next>>
  BY DEF KickPlayer, BanPlayer, PardonPlayer, sessionVars, configVars, tickVars
<1>2. Present' = Present
  BY DEF KickPlayer, BanPlayer, PardonPlayer, DisconnectPlayer, Present, sessionVars
<1>3. banned' \subseteq Names /\ misboots' \subseteq Names
  BY DEF ShapeOK, KickPlayer, BanPlayer, PardonPlayer
<1> QED BY <1>1, <1>2, <1>3, SamePlayers DEF ShapeOK

LEMMA AcceptShape ==
    ASSUME ShapeOK, Present \subseteq Sessions, AcceptNewPlayers
    PROVE  ShapeOK'
<1>1. PICK s \in Sessions : /\ s \notin Present
                            /\ players' = Append(players, s)
                            /\ Present' = Present \cup {s}
  BY DEF AcceptNewPlayers, Present
<1>2. /\ Len(players) < MaxPlayers
      /\ UNCHANGED <<banned, onlineMode, frozen, currentTick, pc, next, misboots>>
  BY DEF AcceptNewPlayers, diskVars, configVars, tickVars, historyVars
<1>3. /\ players' \in Seq(Sessions) /\ Len(players') = Len(players) + 1
      /\ DOMAIN players = 1..Len(players) /\ DOMAIN players' = 1..(Len(players) + 1)
      /\ players'[Len(players) + 1] = s
      /\ \A i \in 1..Len(players) : players'[i] = players[i]
      /\ Len(players) \in Nat
  BY <1>1 DEF ShapeOK
<1>4. \A i \in 1..Len(players) : players[i] \in Present
  BY <1>3 DEF ShapeOK, PlayersOK, ToSet
<1>5. ToSet(players') = Present'
  <2>1. \A t \in Present' : \E i \in DOMAIN players' : players'[i] = t
    BY <1>1, <1>3 DEF ShapeOK, PlayersOK, ToSet
  <2>2. \A i \in DOMAIN players' : players'[i] \in Present'
    BY <1>1, <1>3, <1>4
  <2> QED BY <2>1, <2>2 DEF ToSet
<1>6. IsInjective(players')
  <2>1. \A i, j \in 1..Len(players) : players[i] = players[j] => i = j
    BY <1>3 DEF ShapeOK, PlayersOK, IsInjective
  <2> QED BY <1>1, <1>3, <1>4, <2>1 DEF IsInjective
<1>7. Len(players') <= MaxPlayers
  BY <1>2, <1>3, LimitsType
<1> QED BY <1>2, <1>3, <1>5, <1>6, <1>7 DEF ShapeOK, PlayersOK

LEMMA VisitStepsShape ==
    ASSUME ShapeOK,
           \/ Packet \/ ToDimension \/ Leave \/ NoPacket \/ NothingRead \/ ShortRead
           \/ HandleHandshake \/ (\E n \in Names : HandleLogin(n)) \/ RefuseLogin
           \/ HandleVerifyingUsername \/ WaitForSpawnChunks
    PROVE  ShapeOK'
<1>1. UNCHANGED <<players, banned, onlineMode, frozen, currentTick, misboots>>
  BY DEF Packet, ToDimension, Leave, NoPacket, NothingRead, ShortRead, HandleHandshake,
     HandleLogin, RefuseLogin, HandleVerifyingUsername, WaitForSpawnChunks,
     sessionVars, diskVars, configVars, historyVars
<1>2. Present' = Present
  BY DEF Packet, ToDimension, Leave, NoPacket, NothingRead, ShortRead, HandleHandshake,
     HandleLogin, RefuseLogin, HandleVerifyingUsername, WaitForSpawnChunks,
     DisconnectPlayer, Present, sessionVars
<1>3. \/ pc' = "state" /\ next' = next
      \/ pc' = "incoming" /\ next' = next + 1 /\ Visiting("state")
  BY DEF Packet, ToDimension, Leave, NoPacket, NothingRead, ShortRead, HandleHandshake,
     HandleLogin, RefuseLogin, HandleVerifyingUsername, WaitForSpawnChunks, NextSession,
     InState
<1>4. next' \in 1..(MaxPlayers + 1)
  BY <1>3, VisitShape DEF ShapeOK
<1> QED BY <1>1, <1>2, <1>3, <1>4, SamePlayers DEF ShapeOK

LEMMA DisconnectClientsShape ==
    ASSUME ShapeOK, Present \subseteq Sessions, DisconnectClients
    PROVE  ShapeOK'
<1>1. PICK stay : stay = {s \in Present \ Silent : session[s].connected}
  OBVIOUS
<1>2. players' = InOrder(stay) /\ Present' = stay /\ stay \in SUBSET Present
  BY <1>1 DEF DisconnectClients, Present
<1>3. pc' = "commands" /\ UNCHANGED <<banned, onlineMode, frozen, currentTick, next, misboots>>
  BY DEF DisconnectClients, configVars
<1>4. /\ players' \in Seq(Sessions) /\ ToSet(players') = stay /\ IsInjective(players')
      /\ Len(players') <= Len(players)
  BY <1>2, InOrderHolds DEF ShapeOK
<1>5. Len(players') <= MaxPlayers
  <2>1. Len(players) \in Nat /\ Len(players') \in Nat /\ Len(players) <= MaxPlayers
    BY <1>4 DEF ShapeOK, PlayersOK
  <2> QED BY <1>4, <2>1, LimitsType
<1> QED BY <1>2, <1>3, <1>4, <1>5 DEF ShapeOK, PlayersOK

LEMMA EndShape ==
    ASSUME ShapeOK, Stop \/ Crash
    PROVE  ShapeOK'
<1>1. /\ players' = << >> /\ Present' = {} /\ banned' = banned /\ onlineMode' = onlineMode
      /\ frozen' = FALSE /\ currentTick' \in 0..(SaveInterval - 1)
      /\ pc' = "commands" /\ next' = 1 /\ misboots' = {}
  BY DEF Stop, Crash, ServerGone, Present
<1>2. PlayersOK'
  BY <1>1, LimitsType DEF PlayersOK, ToSet, IsInjective
<1>3. players' \in Seq(Sessions) /\ 1 \in 1..(MaxPlayers + 1)
  BY <1>1, LimitsType
<1> QED BY <1>1, <1>2, <1>3 DEF ShapeOK

LEMMA ShapeStep ==
    ASSUME IInv, ShapeOK, [Next]_vars
    PROVE  ShapeOK'
<1>typed. Present \subseteq Sessions
  BY DEF IInv, SessionsTyped
<1>1. CASE UNCHANGED vars
  <2>1. Present' = Present
    BY <1>1 DEF Present, vars, sessionVars
  <2> QED BY <1>1, <2>1, SamePlayers DEF ShapeOK, vars, sessionVars, diskVars, configVars,
          tickVars, historyVars
<1>2. ASSUME NEW n \in Names, KickPlayer(n) \/ BanPlayer(n) \/ PardonPlayer(n) PROVE ShapeOK'
  BY <1>2, CommandShape
<1>3. CASE ToggleTickFreeze
  <2>1. UNCHANGED <<players, session, banned, onlineMode, currentTick, pc, next, misboots>>
    BY <1>3 DEF ToggleTickFreeze, sessionVars, diskVars, tickVars, historyVars
  <2>2. Present' = Present /\ frozen' \in BOOLEAN
    BY <1>3, <2>1 DEF ToggleTickFreeze, Present
  <2> QED BY <2>1, <2>2, SamePlayers DEF ShapeOK
<1>4. CASE AcceptNewPlayers
  BY <1>typed, <1>4, AcceptShape
<1>5. CASE \/ \E s \in Sessions : ConnectionLost(s)
           \/ \E s \in Sessions, answer \in {"yes", "no"} : AuthAnswer(s, answer)
  <2>1. UNCHANGED <<players, banned, onlineMode, frozen, currentTick, pc, next, misboots>>
    BY <1>5 DEF ConnectionLost, AuthAnswer, diskVars, configVars, tickVars, historyVars
  <2>2. Present' = Present
    BY <1>5 DEF ConnectionLost, AuthAnswer, Present
  <2> QED BY <2>1, <2>2, SamePlayers DEF ShapeOK
<1>6. CASE Stop \/ Crash
  BY <1>6, EndShape
<1>7. CASE StartVisits
  <2>1. UNCHANGED <<players, session, banned, onlineMode, frozen, currentTick, next, misboots>>
        /\ pc' = "incoming"
    BY <1>7 DEF StartVisits, sessionVars, diskVars, configVars, historyVars
  <2>2. Present' = Present
    BY <2>1 DEF Present
  <2> QED BY <2>1, <2>2, SamePlayers DEF ShapeOK
<1>8. CASE SaveAllPlayers
  <2>1. UNCHANGED <<players, session, banned, onlineMode, frozen, currentTick, misboots>>
        /\ pc' = "world" /\ next' = 1
    BY <1>8 DEF SaveAllPlayers, sessionVars, configVars, historyVars
  <2>2. Present' = Present
    BY <2>1 DEF Present
  <2> QED BY <2>1, <2>2, SamePlayers, LimitsType DEF ShapeOK
<1>9. CASE WorldTick
  <2>1. UNCHANGED <<players, banned, onlineMode, frozen, next, misboots>> /\ pc' = "disconnect"
    BY <1>9 DEF WorldTick, diskVars
  <2>2. Present' = Present
    BY <1>9 DEF WorldTick, Present
  <2>3. currentTick' \in 0..(SaveInterval - 1)
    <3>1. currentTick \in Nat /\ SaveInterval \in Nat \ {0}
      BY LimitsType DEF ShapeOK
    <3>2. (currentTick + 1) % SaveInterval \in 0..(SaveInterval - 1)
      BY <3>1
    <3> QED BY <1>9, <3>2 DEF WorldTick, ShapeOK
  <2> QED BY <2>1, <2>2, <2>3, SamePlayers DEF ShapeOK
<1>10. CASE DisconnectClients
  BY <1>typed, <1>10, DisconnectClientsShape
<1> QED BY <1>1, <1>2, <1>3, <1>4, <1>5, <1>6, <1>7, <1>8, <1>9, <1>10, VisitStepsShape
        DEF Next, Environment, Tick

-----------------------------------------------------------------------------
(* Theorems.                                                               *)

(* Every session object is in the vector once, the vector is never longer than
   the server has places, and every variable has its type (AcceptNewPlayers,
   DisconnectClients). *)
THEOREM PlayerSessionsTyped == Spec => []TypeOK
<1>1. IInv /\ ShapeOK => TypeOK
  BY DEF IInv, SessionsTyped, KeptOnFile, ShapeOK, TypeOK
<1>2. IInv /\ ShapeOK /\ [Next]_vars => ShapeOK'
  BY ShapeStep
<1> QED BY <1>1, <1>2, ShapeInit, PlayerSessionsInvariant, PTL DEF Spec

(* Two sessions past the duplicate check never have one name, for any number of
   sessions, names and ticks spent on the verification (HandleLogin). *)
THEOREM NamesUnique == Spec => []UniqueNames
<1>1. IInv => UniqueNames
  BY DEF IInv
<1> QED BY <1>1, PlayerSessionsInvariant, PTL

(* A banned name is not connected, unless the ban hit a refused session of that
   name (BanPlayer). *)
THEOREM BanHolds == Spec => []BannedAreOut
<1>1. IInv => BannedAreOut
  BY DEF IInv
<1> QED BY <1>1, PlayerSessionsInvariant, PTL

(* Player files are written by SavePlayer and by nothing else. *)
LEMMA FilesAreSaved ==
    ASSUME [Next]_vars
    PROVE  file' = file \/ \E names : file' = Saved(names)
<1>1. CASE UNCHANGED vars
  BY <1>1 DEF vars, diskVars
<1>2. CASE Environment
  BY <1>2 DEF Environment, KickPlayer, BanPlayer, PardonPlayer, ToggleTickFreeze,
     AcceptNewPlayers, ConnectionLost, AuthAnswer, Stop, Crash, DisconnectPlayer, diskVars
<1>3. CASE Tick
  BY <1>3 DEF Tick, StartVisits, Packet, ToDimension, Leave, NoPacket, NothingRead,
     ShortRead, HandleHandshake, HandleLogin, RefuseLogin, HandleVerifyingUsername,
     WaitForSpawnChunks, SaveAllPlayers, WorldTick, DisconnectClients,
     DisconnectPlayer, diskVars
<1> QED BY <1>1, <1>2, <1>3 DEF Next

(* No step of the server, of its players or of a crash takes a player file back
   to an older state (SavePlayer, GetSessionByUsername). *)
THEOREM FilesNeverOlder == Spec => FileNeverOlder
<1>1. IInv /\ [Next]_vars => \A n \in Names : file'[n] >= file[n]
  <2> SUFFICES ASSUME IInv, [Next]_vars, NEW n \in Names PROVE file'[n] >= file[n]
    OBVIOUS
  <2>1. file[n] >= file[n]
    BY LimitsType DEF IInv, SessionsTyped
  <2>2. CASE file' = file
    BY <2>1, <2>2
  <2>3. CASE \E names : file' = Saved(names)
    BY <2>3, SavedIsCurrent
  <2> QED BY <2>2, <2>3, FilesAreSaved
<1> QED BY <1>1, PlayerSessionsInvariant, PTL DEF Spec, FileNeverOlder

(* What a leaving player was saved with is in his file when he is gone
   (DisconnectPlayer, DisconnectClients). *)
THEOREM LeaversKept == Spec => LeaverIsKept
<1>1. IInv /\ [Next]_vars =>
          \A s \in kept : s \notin Present' => file'[NameOf(s)] = session[s].held
  <2> SUFFICES ASSUME IInv, [Next]_vars, NEW s \in kept
               PROVE  file'[NameOf(s)] = session[s].held
    OBVIOUS
  <2>1. CASE file' = file
    BY <2>1 DEF IInv, KeptOnFile
  <2>2. CASE \E names : file' = Saved(names)
    BY <2>2, SavedIsCurrent
  <2> QED BY <2>1, <2>2, FilesAreSaved
<1> QED BY <1>1, PlayerSessionsInvariant, PTL DEF Spec, LeaverIsKept

=============================================================================

--------------------------- MODULE AccessGrantsProofs ---------------------------
(***************************************************************************)
(* Theorems about AccessGrants for every set of credentials, every bound,   *)
(* and with or without crashes.  The first part of the invariant, Shared,    *)
(* is kept by any number of processes on the directory: the types, the one   *)
(* live credential and the device token.  The second says what a method has  *)
(* read is still so when it writes, which takes the server to be alone.      *)
(***************************************************************************)
EXTENDS AccessGrants, FiniteSetTheorems, TLAPS

-----------------------------------------------------------------------------
(* The method in progress, and what its locals hold.                       *)

doing == proc[Server]

(* The next write of a program, what follows it, and whether it is the last. *)
Now(todo) == IF todo = <<>> THEN "none" ELSE Head(todo)
Rest(todo) == Tail(todo)
Ends(todo) == Len(todo) = 1

(* What a method may still have to write: the suffixes of its program.     *)
Remaining(kind) ==
    CASE kind = "none"         -> {<<>>}
      [] kind = "create"       -> {<<"grant", "issue", "grant">>, <<"issue", "grant">>,
                                   <<"grant">>}
      [] kind = "device"       -> {<<"grant", "issue", "grant", "device">>,
                                   <<"issue", "grant", "device">>, <<"grant", "device">>,
                                   <<"device">>}
      [] kind = "rotate"       -> {<<"credentials", "sessions", "issue", "grant">>,
                                   <<"sessions", "issue", "grant">>, <<"issue", "grant">>,
                                   <<"grant">>}
      [] kind = "pause"        -> {<<"grant", "sessions">>, <<"sessions">>}
      [] kind = "resume"       -> {<<"grant">>}
      [] kind = "revoke"       -> {<<"grant", "sessions", "credentials">>,
                                   <<"sessions", "credentials">>, <<"credentials">>}
      [] kind = "narrow"       -> {<<"grant">>}
      [] kind = "delete"       -> {<<"sessions", "remove">>, <<"remove">>}
      [] kind = "authenticate" -> {<<"session", "grant">>, <<"grant">>}
      [] kind = "expire"       -> {<<"grant">>}
      [] kind = "approved"     -> {<<"consume">>}

Stage == doing.todo \in Remaining(doing.kind)

Creates == {"create", "device"}
At(kind, todo) == doing.kind = kind /\ doing.todo = todo

(* Methods that end by handing a credential over have one.                 *)
Carries ==
    /\ doing.kind = "authenticate" => doing.cred \in Credential
    /\ doing.kind \in {"create", "rotate"} /\ doing.todo = <<"grant">> => doing.cred \in Credential

(* A method that is to write the grant has one to write.                   *)
Reads == Now(doing.todo) = "grant" \/ doing.kind = "authenticate" => doing.snap \in Grant

Core == TypeOK /\ Stage /\ Carries /\ Reads

(* Another process only authenticates agents and acts on their approvals.   *)
Helping(d) ==
    \/ d.kind = "none" /\ d.todo = <<>>
    \/ /\ d.kind = "authenticate" /\ d.todo \in {<<"session", "grant">>, <<"grant">>}
       /\ d.snap \in Grant /\ d.cred \in Credential
    \/ d.kind = "expire" /\ d.todo = <<"grant">> /\ d.snap \in Grant
    \/ d.kind = "approved" /\ d.todo = <<"consume">>

Others == Process \ {Server}
Aside == \A p \in Others : Helping(proc[p])

(* Credentials: one is live at most, and none when one is to be issued.     *)
Live == {c \in Credential : cred[c] = "live"}

(* The old credentials are revoked before the method that issues a new one  *)
(* gets there, and there are none before the first grant.                  *)
Issuing ==
    \/ doing.todo \in {<<"issue", "grant">>, <<"issue", "grant", "device">>}
    \/ doing.todo = <<"sessions", "issue", "grant">>
    \/ doing.todo \in {<<"grant", "issue", "grant">>, <<"grant", "issue", "grant", "device">>}

OneLive ==
    /\ \A c, d \in Live : c = d
    /\ Issuing \/ grant = NoGrant => Live = {}

(* A token is held, or in the handoff, or with the method that issued it,   *)
(* and in one of these places only.                                        *)
Tokens ==
    /\ \A c \in held : cred[c] # "unused"
    /\ count.handed <= 1 /\ (count.handed = 1 => device.status = "closed")
    /\ doing.kind = "device" => device.status = "pending" /\ device.handoff = NoCredential
    /\ device.status \in {"none", "pending", "closed"} => device.handoff = NoCredential
    /\ device.handoff # NoCredential =>
          cred[device.handoff] # "unused" /\ device.handoff \notin held
    /\ doing.kind \in Creates \cup {"rotate"} /\ doing.cred # NoCredential =>
          /\ cred[doing.cred] # "unused" /\ doing.cred # device.handoff
          /\ doing.kind = "device" => doing.cred \notin held

Shared == Core /\ Aside /\ OneLive /\ Tokens

-----------------------------------------------------------------------------
(* What holds beside that when the server is alone.                        *)

(* No stdio MCP server beside the server.                                  *)
OneProcess == Process = {Server}

Bumps == {"pause", "resume", "revoke", "narrow"}

(* The status a method gives the grant it read.                            *)
StatusOf(kind, g) ==
    CASE kind = "pause"  -> "paused"
      [] kind = "resume" -> "active"
      [] kind = "revoke" -> "revoked"
      [] kind = "expire" -> "expired"
      [] OTHER           -> g.status

(* s is what a method of this kind makes of the grant it read.             *)
MadeOf(kind, s, g) ==
    /\ s \in Grant /\ s.asks = g.asks
    /\ s.version = IF kind \in Bumps THEN g.version + 1 ELSE g.version
    /\ s.status = StatusOf(kind, g)

(* One method runs at a time, so the grant it read is the one it replaces. *)
Snapshots ==
    /\ doing.kind # "none" =>
          \/ Exists
          \/ grant = NoGrant /\ doing.kind \in Creates /\ Now(doing.todo) = "grant"
    /\ doing.kind # "none" /\ Now(doing.todo) = "grant" /\ Exists =>
          MadeOf(doing.kind, doing.snap, grant)
    /\ doing.kind \in {"authenticate", "approved"} => doing.snap = grant
    /\ At("create", <<"grant", "issue", "grant">>) => grant = NoGrant
    /\ At("device", <<"grant", "issue", "grant", "device">>) => grant = NoGrant

(* Before the grant is written nothing else is. *)
NothingYet ==
    grant = NoGrant =>
        /\ \A c \in Credential : cred[c] = "unused"
        /\ held = {}
        /\ \A v \in 1..MaxVersion : approval[v] = "none"
        /\ count.used = 0 /\ ~told.stopped
        /\ doing.kind \in Creates \cup {"none"}

Alone == Snapshots /\ NothingYet

(* A grant the operator was told is stopped is not active, whatever was     *)
(* read before or is written later; and what was said is true when it is.   *)
Stopped ==
    /\ told.stopped =>
          /\ session = {} /\ grant.status # "active"
          /\ doing.kind \notin {"authenticate", "approved"}
    /\ At("pause", <<"sessions">>) => grant.status = "paused"
    /\ doing.kind = "revoke" /\ Now(doing.todo) # "grant" => grant.status = "revoked"
    /\ At("revoke", <<"credentials">>) \/ At("delete", <<"remove">>) => session = {}

(* Every approval that can still be used was given and is not counted yet.  *)
Approved == {v \in 1..MaxVersion : approval[v] = "approved"}

Backed ==
    /\ Exists /\ grant.asks => count.used + Cardinality(Approved) <= count.given
    /\ doing.kind = "approved" => grant.asks /\ grant.version \in Approved

(* A later version of the grant has no request yet, and an approval of the  *)
(* present one was the last thing the operator was told.                    *)
Fresh ==
    Exists => /\ \A v \in 1..MaxVersion : v > grant.version => approval[v] = "none"
              /\ grant.version \in Approved => told.approved
              /\ Restricts(doing.kind) /\ Now(doing.todo) # "grant" =>
                    grant.version \notin Approved

IInv == Shared /\ Alone /\ Stopped /\ Backed /\ Fresh
-----------------------------------------------------------------------------
(* What the steps do.                                                      *)

USE BoundAssumption, ServerAssumption, CredentialAssumption, CrashesAssumption

Locals == [kind : Kind, snap : Grant \cup {NoGrant}, cred : Credential \cup {NoCredential},
           todo : Seq({"grant", "issue", "device", "credentials", "sessions", "remove",
                       "session", "consume"})]

(* The locals of the server.                                               *)
LEMMA DoingType ==
    ASSUME TypeOK
    PROVE  doing \in Locals /\ proc \in [Process -> Locals]
BY DEF TypeOK, Locals, doing

(* Its locals after a step that replaces them.                             *)
LEMMA DoingStep ==
    ASSUME TypeOK, NEW r, proc' = [proc EXCEPT ![Server] = r]
    PROVE  doing' = r /\ \A p \in Others : proc'[p] = proc[p]
BY DoingType DEF doing, Others

(* A grant on disk is neither absent nor deleted.                          *)
LEMMA GrantExists ==
    ASSUME NEW g \in Grant
    PROVE  g \notin {NoGrant, DeletedGrant} /\ g.status \in GrantStatus
<1>1. g.status \in GrantStatus
  BY DEF Grant
<1>2. NoGrant.status = "none" /\ DeletedGrant.status = "deleted"
  BY DEF NoGrant, DeletedGrant
<1> QED
  BY <1>1, <1>2 DEF GrantStatus

LEMMA ExistingIsGrant ==
    ASSUME TypeOK, Exists
    PROVE  grant \in Grant
BY DEF TypeOK, Exists

(* A method has begun: what it read, and what was so at that time.         *)
Begun(kind, snap, c) ==
    /\ Free(Server)
    /\ proc' = [proc EXCEPT ![Server] = [kind |-> kind, todo |-> Program(kind), snap |-> snap,
                                         cred |-> c]]
    /\ UNCHANGED <<now, grant, cred, session, approval, device, held, conn, told, count>>
    /\ kind # "none"
    /\ kind \in Creates =>
          /\ grant = NoGrant /\ snap \in Grant
          /\ kind = "device" => device.status = "pending"
    /\ kind \notin Creates => Exists
    /\ kind \notin Creates \cup {"rotate", "delete"} => MadeOf(kind, snap, grant)
    /\ kind \in Creates \cup {"rotate"} => c = NoCredential
    /\ kind = "authenticate" => c \in Credential
    /\ kind \in {"authenticate", "approved"} => snap = grant /\ grant.status = "active"
    /\ kind = "approved" => grant.asks /\ grant.version \in Approved

Begins == \E kind \in Kind, snap \in Grant \cup {NoGrant}, c \in Credential \cup {NoCredential} :
             Begun(kind, snap, c)

(* Narrowing, pausing, resuming and revoking make the next version.        *)
LEMMA ChangeBegins ==
    ASSUME TypeOK, NEW kind \in Bumps, NEW g \in Grant, Change(kind, g),
           g.asks = grant.asks, g.version = grant.version + 1, g.status = StatusOf(kind, grant)
    PROVE  Begins
<1>1. kind \in Kind
  BY DEF Bumps, Kind
<1>2. Begun(kind, g, NoCredential)
  BY DEF Change, Begin, Begun, Bumps, Creates, MadeOf
<1> QED
  BY <1>1, <1>2 DEF Begins

(* Every method of the operator and of the agents that writes begins so.   *)
LEMMA OperatorBegins ==
    ASSUME TypeOK,
           \/ \E kind \in Creates : Create(kind)
           \/ Pause \/ Resume \/ Revoke \/ Narrow \/ Rotate \/ Delete
    PROVE  Begins
<1> DEFINE Version(g) == g \in Grant /\ g.asks = grant.asks /\ g.version = grant.version + 1
<1>1. ASSUME Exists, grant.version < MaxVersion
      PROVE  /\ \A st \in GrantStatus :
                   /\ Version([NextVersion EXCEPT !.status = st])
                   /\ [NextVersion EXCEPT !.status = st].status = st
             /\ Version([NextVersion EXCEPT !.denied = TRUE])
             /\ [NextVersion EXCEPT !.denied = TRUE].status = grant.status
             /\ \A e \in 0..MaxClock :
                   /\ Version([NextVersion EXCEPT !.expires = e])
                   /\ [NextVersion EXCEPT !.expires = e].status = grant.status
  <2>1. grant \in Grant
    BY <1>1, ExistingIsGrant
  <2>2. grant.version + 1 \in 1..MaxVersion
    BY <1>1, <2>1 DEF Grant
  <2>3. NextVersion \in Grant /\ NextVersion.asks = grant.asks
        /\ NextVersion.version = grant.version + 1 /\ NextVersion.status = grant.status
    BY <2>1, <2>2 DEF NextVersion, Grant
  <2> QED
    BY <2>1, <2>2, <2>3 DEF Grant
<1>2. CASE \E kind \in Creates : Create(kind)
  <2>1. PICK kind \in Creates, starts \in now..MaxClock, expires \in now..MaxClock,
             asks \in BOOLEAN :
               /\ grant = NoGrant /\ (kind = "device" => device.status = "pending")
               /\ Begin(Server, kind, NewGrant(starts, expires, asks), NoCredential)
               /\ UNCHANGED <<now, grant, cred, session, approval, device, held, conn, told, count>>
    BY <1>2 DEF Create
  <2>2. NewGrant(starts, expires, asks) \in Grant
    <3>1. now \in 0..MaxClock
      BY DEF TypeOK
    <3>2. starts \in 0..MaxClock /\ expires \in 0..MaxClock /\ 1 \in 1..MaxVersion
      BY <3>1
    <3> QED
      BY <3>2 DEF NewGrant, Grant, GrantStatus
  <2>3. Begun(kind, NewGrant(starts, expires, asks), NoCredential)
    BY <2>1, <2>2 DEF Begin, Begun, Creates
  <2>4. kind \in Kind
    BY DEF Creates, Kind
  <2> QED
    BY <2>2, <2>3, <2>4 DEF Begins
<1>3. CASE Pause
  <2> DEFINE g == [NextVersion EXCEPT !.status = "paused"]
  <2>1. Change("pause", g)
    BY <1>3 DEF Pause
  <2>2. Version(g) /\ g.status = "paused"
    BY <1>1, <2>1 DEF Change, GrantStatus
  <2> HIDE DEF g
  <2> QED
    BY <2>1, <2>2, ChangeBegins DEF Bumps, StatusOf
<1>4. CASE Resume
  <2> DEFINE g == [NextVersion EXCEPT !.status = "active"]
  <2>1. Change("resume", g)
    BY <1>4 DEF Resume
  <2>2. Version(g) /\ g.status = "active"
    BY <1>1, <2>1 DEF Change, GrantStatus
  <2> HIDE DEF g
  <2> QED
    BY <2>1, <2>2, ChangeBegins DEF Bumps, StatusOf
<1>5. CASE Revoke
  <2> DEFINE g == [NextVersion EXCEPT !.status = "revoked"]
  <2>1. Change("revoke", g)
    BY <1>5 DEF Revoke
  <2>2. Version(g) /\ g.status = "revoked"
    BY <1>1, <2>1 DEF Change, GrantStatus
  <2> HIDE DEF g
  <2> QED
    BY <2>1, <2>2, ChangeBegins DEF Bumps, StatusOf
<1>6. CASE Narrow
  <2>1. CASE Change("narrow", [NextVersion EXCEPT !.denied = TRUE])
    BY <1>1, <2>1, ChangeBegins DEF Change, Bumps, StatusOf
  <2>2. ASSUME NEW e \in 0..MaxClock, Change("narrow", [NextVersion EXCEPT !.expires = e])
        PROVE  Begins
    BY <1>1, <2>2, ChangeBegins DEF Change, Bumps, StatusOf
  <2> QED
    BY <1>6, <2>1, <2>2 DEF Narrow
<1>7. CASE Rotate
  <2>1. Begun("rotate", NoGrant, NoCredential)
    BY <1>7 DEF Rotate, Begin, Begun, Creates
  <2> QED
    BY <2>1 DEF Begins, Kind
<1>8. CASE Delete
  <2>1. Begun("delete", NoGrant, NoCredential)
    BY <1>8 DEF Delete, Begin, Begun, Creates
  <2> QED
    BY <2>1 DEF Begins, Kind
<1> QED
  BY <1>2, <1>3, <1>4, <1>5, <1>6, <1>7, <1>8

LEMMA AgentBegins ==
    ASSUME TypeOK, NEW c \in Credential,
           Authenticate(Server, c) \/ MarkExpired(Server, c) \/ UseApproval(Server, c)
    PROVE  Begins
<1>1. Exists /\ grant \in Grant
  BY ExistingIsGrant DEF Authenticate, Presented, MarkExpired, UseApproval, MayAct
<1>2. CASE Authenticate(Server, c)
  <2>1. Begun("authenticate", grant, c)
    BY <1>1, <1>2 DEF Authenticate, Begin, Begun, Creates, MadeOf, Bumps, StatusOf
  <2> QED
    BY <1>1, <2>1 DEF Begins, Kind
<1>3. CASE MarkExpired(Server, c)
  <2> DEFINE g == [grant EXCEPT !.status = "expired"]
  <2>1. g \in Grant /\ MadeOf("expire", g, grant)
    BY <1>1 DEF Grant, GrantStatus, MadeOf, Bumps, StatusOf
  <2>2. Begun("expire", g, c)
    BY <1>1, <1>3, <2>1 DEF MarkExpired, Begin, Begun, Creates
  <2> HIDE DEF g
  <2> QED
    BY <2>1, <2>2 DEF Begins, Kind
<1>4. CASE UseApproval(Server, c)
  <2>1. grant.version \in Approved
    BY <1>1, <1>4 DEF UseApproval, Matches, Approved, Grant
  <2>2. Begun("approved", grant, c)
    BY <1>1, <1>4, <2>1
       DEF UseApproval, MayAct, Begin, Begun, Creates, MadeOf, Bumps, StatusOf
  <2> QED
    BY <1>1, <2>2 DEF Begins, Kind
<1> QED
  BY <1>2, <1>3, <1>4

(* The programs there are, write by write.                                 *)
LEMMA Heads ==
    /\ Now(<<>>) = "none"
    /\ Now(<<"credentials">>) = "credentials"
    /\ Now(<<"device">>) = "device"
    /\ Now(<<"grant">>) = "grant"
    /\ Now(<<"consume">>) = "consume"
    /\ Now(<<"remove">>) = "remove"
    /\ Now(<<"sessions">>) = "sessions"
    /\ Now(<<"grant", "device">>) = "grant"
    /\ Now(<<"grant", "sessions">>) = "grant"
    /\ Now(<<"issue", "grant">>) = "issue"
    /\ Now(<<"session", "grant">>) = "session"
    /\ Now(<<"sessions", "credentials">>) = "sessions"
    /\ Now(<<"sessions", "remove">>) = "sessions"
    /\ Now(<<"grant", "issue", "grant">>) = "grant"
    /\ Now(<<"grant", "sessions", "credentials">>) = "grant"
    /\ Now(<<"issue", "grant", "device">>) = "issue"
    /\ Now(<<"sessions", "issue", "grant">>) = "sessions"
    /\ Now(<<"credentials", "sessions", "issue", "grant">>) = "credentials"
    /\ Now(<<"grant", "issue", "grant", "device">>) = "grant"
<1>1. Now(<<>>) = "none"
  BY DEF Now, Ends, Rest
<1>2. Now(<<"credentials">>) = "credentials"
  BY DEF Now, Ends, Rest
<1>3. Now(<<"device">>) = "device"
  BY DEF Now, Ends, Rest
<1>4. Now(<<"grant">>) = "grant"
  BY DEF Now, Ends, Rest
<1>5. Now(<<"consume">>) = "consume"
  BY DEF Now, Ends, Rest
<1>6. Now(<<"remove">>) = "remove"
  BY DEF Now, Ends, Rest
<1>7. Now(<<"sessions">>) = "sessions"
  BY DEF Now, Ends, Rest
<1>8. Now(<<"grant", "device">>) = "grant"
  BY DEF Now, Ends, Rest
<1>9. Now(<<"grant", "sessions">>) = "grant"
  BY DEF Now, Ends, Rest
<1>10. Now(<<"issue", "grant">>) = "issue"
  BY DEF Now, Ends, Rest
<1>11. Now(<<"session", "grant">>) = "session"
  BY DEF Now, Ends, Rest
<1>12. Now(<<"sessions", "credentials">>) = "sessions"
  BY DEF Now, Ends, Rest
<1>13. Now(<<"sessions", "remove">>) = "sessions"
  BY DEF Now, Ends, Rest
<1>14. Now(<<"grant", "issue", "grant">>) = "grant"
  BY DEF Now, Ends, Rest
<1>15. Now(<<"grant", "sessions", "credentials">>) = "grant"
  BY DEF Now, Ends, Rest
<1>16. Now(<<"issue", "grant", "device">>) = "issue"
  BY DEF Now, Ends, Rest
<1>17. Now(<<"sessions", "issue", "grant">>) = "sessions"
  BY DEF Now, Ends, Rest
<1>18. Now(<<"credentials", "sessions", "issue", "grant">>) = "credentials"
  BY DEF Now, Ends, Rest
<1>19. Now(<<"grant", "issue", "grant", "device">>) = "grant"
  BY DEF Now, Ends, Rest
<1> QED
  BY <1>1, <1>2, <1>3, <1>4, <1>5, <1>6, <1>7, <1>8, <1>9, <1>10, <1>11, <1>12, <1>13, <1>14, <1>15, <1>16, <1>17, <1>18, <1>19

LEMMA Rests ==
    /\ Ends(<<"credentials">>)
    /\ Ends(<<"device">>)
    /\ Ends(<<"grant">>)
    /\ Ends(<<"consume">>)
    /\ Ends(<<"remove">>)
    /\ Ends(<<"sessions">>)
    /\ ~Ends(<<"grant", "device">>) /\ Rest(<<"grant", "device">>) = <<"device">>
    /\ ~Ends(<<"grant", "sessions">>) /\ Rest(<<"grant", "sessions">>) = <<"sessions">>
    /\ ~Ends(<<"issue", "grant">>) /\ Rest(<<"issue", "grant">>) = <<"grant">>
    /\ ~Ends(<<"session", "grant">>) /\ Rest(<<"session", "grant">>) = <<"grant">>
    /\ ~Ends(<<"sessions", "credentials">>) /\ Rest(<<"sessions", "credentials">>) = <<"credentials">>
    /\ ~Ends(<<"sessions", "remove">>) /\ Rest(<<"sessions", "remove">>) = <<"remove">>
    /\ ~Ends(<<"grant", "issue", "grant">>) /\ Rest(<<"grant", "issue", "grant">>) = <<"issue", "grant">>
    /\ ~Ends(<<"grant", "sessions", "credentials">>) /\ Rest(<<"grant", "sessions", "credentials">>) = <<"sessions", "credentials">>
    /\ ~Ends(<<"issue", "grant", "device">>) /\ Rest(<<"issue", "grant", "device">>) = <<"grant", "device">>
    /\ ~Ends(<<"sessions", "issue", "grant">>) /\ Rest(<<"sessions", "issue", "grant">>) = <<"issue", "grant">>
    /\ ~Ends(<<"credentials", "sessions", "issue", "grant">>) /\ Rest(<<"credentials", "sessions", "issue", "grant">>) = <<"sessions", "issue", "grant">>
    /\ ~Ends(<<"grant", "issue", "grant", "device">>) /\ Rest(<<"grant", "issue", "grant", "device">>) = <<"issue", "grant", "device">>
<1>1. Ends(<<"credentials">>)
  BY DEF Now, Ends, Rest
<1>2. Ends(<<"device">>)
  BY DEF Now, Ends, Rest
<1>3. Ends(<<"grant">>)
  BY DEF Now, Ends, Rest
<1>4. Ends(<<"consume">>)
  BY DEF Now, Ends, Rest
<1>5. Ends(<<"remove">>)
  BY DEF Now, Ends, Rest
<1>6. Ends(<<"sessions">>)
  BY DEF Now, Ends, Rest
<1>7. ~Ends(<<"grant", "device">>) /\ Rest(<<"grant", "device">>) = <<"device">>
  BY DEF Now, Ends, Rest
<1>8. ~Ends(<<"grant", "sessions">>) /\ Rest(<<"grant", "sessions">>) = <<"sessions">>
  BY DEF Now, Ends, Rest
<1>9. ~Ends(<<"issue", "grant">>) /\ Rest(<<"issue", "grant">>) = <<"grant">>
  BY DEF Now, Ends, Rest
<1>10. ~Ends(<<"session", "grant">>) /\ Rest(<<"session", "grant">>) = <<"grant">>
  BY DEF Now, Ends, Rest
<1>11. ~Ends(<<"sessions", "credentials">>) /\ Rest(<<"sessions", "credentials">>) = <<"credentials">>
  BY DEF Now, Ends, Rest
<1>12. ~Ends(<<"sessions", "remove">>) /\ Rest(<<"sessions", "remove">>) = <<"remove">>
  BY DEF Now, Ends, Rest
<1>13. ~Ends(<<"grant", "issue", "grant">>) /\ Rest(<<"grant", "issue", "grant">>) = <<"issue", "grant">>
  BY DEF Now, Ends, Rest
<1>14. ~Ends(<<"grant", "sessions", "credentials">>) /\ Rest(<<"grant", "sessions", "credentials">>) = <<"sessions", "credentials">>
  BY DEF Now, Ends, Rest
<1>15. ~Ends(<<"issue", "grant", "device">>) /\ Rest(<<"issue", "grant", "device">>) = <<"grant", "device">>
  BY DEF Now, Ends, Rest
<1>16. ~Ends(<<"sessions", "issue", "grant">>) /\ Rest(<<"sessions", "issue", "grant">>) = <<"issue", "grant">>
  BY DEF Now, Ends, Rest
<1>17. ~Ends(<<"credentials", "sessions", "issue", "grant">>) /\ Rest(<<"credentials", "sessions", "issue", "grant">>) = <<"sessions", "issue", "grant">>
  BY DEF Now, Ends, Rest
<1>18. ~Ends(<<"grant", "issue", "grant", "device">>) /\ Rest(<<"grant", "issue", "grant", "device">>) = <<"issue", "grant", "device">>
  BY DEF Now, Ends, Rest
<1> QED
  BY <1>1, <1>2, <1>3, <1>4, <1>5, <1>6, <1>7, <1>8, <1>9, <1>10, <1>11, <1>12, <1>13, <1>14, <1>15, <1>16, <1>17, <1>18

LEMMA RemainingOf ==
    /\ Remaining("none") = {<<>>}
    /\ Remaining("create") = {<<"grant", "issue", "grant">>, <<"issue", "grant">>, <<"grant">>}
    /\ Remaining("device") = {<<"grant", "issue", "grant", "device">>, <<"issue", "grant", "device">>, <<"grant", "device">>, <<"device">>}
    /\ Remaining("rotate") = {<<"credentials", "sessions", "issue", "grant">>, <<"sessions", "issue", "grant">>, <<"issue", "grant">>, <<"grant">>}
    /\ Remaining("pause") = {<<"grant", "sessions">>, <<"sessions">>}
    /\ Remaining("resume") = {<<"grant">>}
    /\ Remaining("revoke") = {<<"grant", "sessions", "credentials">>, <<"sessions", "credentials">>, <<"credentials">>}
    /\ Remaining("narrow") = {<<"grant">>}
    /\ Remaining("delete") = {<<"sessions", "remove">>, <<"remove">>}
    /\ Remaining("authenticate") = {<<"session", "grant">>, <<"grant">>}
    /\ Remaining("expire") = {<<"grant">>}
    /\ Remaining("approved") = {<<"consume">>}
<1>1. Remaining("none") = {<<>>}
  BY DEF Remaining
<1>2. Remaining("create") = {<<"grant", "issue", "grant">>, <<"issue", "grant">>, <<"grant">>}
  BY DEF Remaining
<1>3. Remaining("device") = {<<"grant", "issue", "grant", "device">>, <<"issue", "grant", "device">>, <<"grant", "device">>, <<"device">>}
  BY DEF Remaining
<1>4. Remaining("rotate") = {<<"credentials", "sessions", "issue", "grant">>, <<"sessions", "issue", "grant">>, <<"issue", "grant">>, <<"grant">>}
  BY DEF Remaining
<1>5. Remaining("pause") = {<<"grant", "sessions">>, <<"sessions">>}
  BY DEF Remaining
<1>6. Remaining("resume") = {<<"grant">>}
  BY DEF Remaining
<1>7. Remaining("revoke") = {<<"grant", "sessions", "credentials">>, <<"sessions", "credentials">>, <<"credentials">>}
  BY DEF Remaining
<1>8. Remaining("narrow") = {<<"grant">>}
  BY DEF Remaining
<1>9. Remaining("delete") = {<<"sessions", "remove">>, <<"remove">>}
  BY DEF Remaining
<1>10. Remaining("authenticate") = {<<"session", "grant">>, <<"grant">>}
  BY DEF Remaining
<1>11. Remaining("expire") = {<<"grant">>}
  BY DEF Remaining
<1>12. Remaining("approved") = {<<"consume">>}
  BY DEF Remaining
<1> QED
  BY <1>1, <1>2, <1>3, <1>4, <1>5, <1>6, <1>7, <1>8, <1>9, <1>10, <1>11, <1>12

(* What is written next tells where the method is, up to its kind.         *)
GrantSpot ==
    \/ At("create", <<"grant", "issue", "grant">>) \/ At("create", <<"grant">>)
    \/ At("device", <<"grant", "issue", "grant", "device">>)
    \/ At("device", <<"grant", "device">>)
    \/ At("rotate", <<"grant">>) \/ At("pause", <<"grant", "sessions">>)
    \/ At("resume", <<"grant">>) \/ At("revoke", <<"grant", "sessions", "credentials">>)
    \/ At("narrow", <<"grant">>) \/ At("authenticate", <<"grant">>)
    \/ At("expire", <<"grant">>)

IssueSpot ==
    \/ At("create", <<"issue", "grant">>) \/ At("device", <<"issue", "grant", "device">>)
    \/ At("rotate", <<"issue", "grant">>)

SessionsSpot ==
    \/ At("rotate", <<"sessions", "issue", "grant">>) \/ At("pause", <<"sessions">>)
    \/ At("revoke", <<"sessions", "credentials">>) \/ At("delete", <<"sessions", "remove">>)

CredentialsSpot ==
    \/ At("rotate", <<"credentials", "sessions", "issue", "grant">>)
    \/ At("revoke", <<"credentials">>)

LEMMA Spots ==
    ASSUME Stage, doing.kind \in Kind
    PROVE  /\ Now(doing.todo) = "grant" => GrantSpot
           /\ Now(doing.todo) = "issue" => IssueSpot
           /\ Now(doing.todo) = "sessions" => SessionsSpot
           /\ Now(doing.todo) = "credentials" => CredentialsSpot
           /\ Now(doing.todo) = "remove" => At("delete", <<"remove">>)
           /\ Now(doing.todo) = "session" => At("authenticate", <<"session", "grant">>)
           /\ Now(doing.todo) = "device" => At("device", <<"device">>)
           /\ Now(doing.todo) = "consume" => At("approved", <<"consume">>)
           /\ Now(doing.todo) = "none" <=> doing.kind = "none"
<1> USE DEF At, GrantSpot, IssueSpot, SessionsSpot, CredentialsSpot
<1>1. CASE doing.kind = "none"
  BY <1>1, Heads, RemainingOf, Zenon DEF Stage
<1>2. CASE doing.kind = "create"
  BY <1>2, Heads, RemainingOf, Zenon DEF Stage
<1>3. CASE doing.kind = "device"
  BY <1>3, Heads, RemainingOf, Zenon DEF Stage
<1>4. CASE doing.kind = "rotate"
  BY <1>4, Heads, RemainingOf, Zenon DEF Stage
<1>5. CASE doing.kind = "pause"
  BY <1>5, Heads, RemainingOf, Zenon DEF Stage
<1>6. CASE doing.kind = "resume"
  BY <1>6, Heads, RemainingOf, Zenon DEF Stage
<1>7. CASE doing.kind = "revoke"
  BY <1>7, Heads, RemainingOf, Zenon DEF Stage
<1>8. CASE doing.kind = "narrow"
  BY <1>8, Heads, RemainingOf, Zenon DEF Stage
<1>9. CASE doing.kind = "delete"
  BY <1>9, Heads, RemainingOf, Zenon DEF Stage
<1>10. CASE doing.kind = "authenticate"
  BY <1>10, Heads, RemainingOf, Zenon DEF Stage
<1>11. CASE doing.kind = "expire"
  BY <1>11, Heads, RemainingOf, Zenon DEF Stage
<1>12. CASE doing.kind = "approved"
  BY <1>12, Heads, RemainingOf, Zenon DEF Stage
<1> QED
  BY <1>1, <1>2, <1>3, <1>4, <1>5, <1>6, <1>7, <1>8, <1>9, <1>10, <1>11, <1>12 DEF Kind

(* The guard of a write, and what the write leaves to do.                  *)
LEMMA WritingStep ==
    ASSUME TypeOK
    PROVE  /\ \A what : Writing(Server, what) => Now(doing.todo) = what
           /\ Free(Server) <=> doing.todo = <<>>
           /\ Last(Server) <=> Ends(doing.todo)
BY DEF Writing, Free, Last, Now, Ends, doing

Goes(todo) ==
    /\ doing'.kind = doing.kind /\ doing'.todo = todo
    /\ doing'.snap = doing.snap /\ doing'.cred = doing.cred

Stops == doing'.kind = "none" /\ doing'.todo = <<>> /\ doing' = Idle

LEMMA WrittenStep ==
    ASSUME TypeOK, Written(Server)
    PROVE  /\ Ends(doing.todo) => Stops
           /\ ~Ends(doing.todo) => Goes(Rest(doing.todo))
<1>1. doing' = IF Last(Server) THEN Idle ELSE [doing EXCEPT !.todo = Tail(doing.todo)]
  <2> DEFINE After(d) == IF Last(Server) THEN Idle ELSE [d EXCEPT !.todo = Tail(d.todo)]
  <2>1. proc' = [proc EXCEPT ![Server] = After(proc[Server])]
    BY DEF Written
  <2> QED
    BY <2>1, DoingStep DEF doing
<1>2. doing = [kind |-> doing.kind, snap |-> doing.snap, cred |-> doing.cred,
               todo |-> doing.todo]
  BY DoingType DEF Locals
<1>3. Last(Server) <=> Ends(doing.todo)
  BY WritingStep
<1>4. CASE Last(Server)
  BY <1>1, <1>3, <1>4 DEF Stops, Idle
<1>5. CASE ~Last(Server)
  <2>1. doing' = [kind |-> doing.kind, snap |-> doing.snap, cred |-> doing.cred,
                  todo |-> Tail(doing.todo)]
    BY <1>1, <1>2, <1>5
  <2> QED
    BY <1>3, <1>5, <2>1 DEF Goes, Rest
<1> QED
  BY <1>4, <1>5

(* A new method has its whole program to write.                            *)
LEMMA BegunStep ==
    ASSUME Core, NEW kind \in Kind, NEW snap, NEW c, Begun(kind, snap, c)
    PROVE  /\ doing.kind = "none"
           /\ doing'.kind = kind /\ doing'.todo = Program(kind) /\ doing'.snap = snap
           /\ doing'.cred = c
           /\ Stage' /\ (Now(Program(kind)) # "none")
<1>1. doing' = [kind |-> kind, todo |-> Program(kind), snap |-> snap, cred |-> c]
  BY DoingStep DEF Begun, Core
<1>2. doing.kind = "none"
  <2>1. doing.todo = <<>> /\ doing.kind \in Kind
    BY WritingStep, DoingType DEF Begun, Core, Locals
  <2> QED
    BY <2>1, Spots, Heads DEF Core
<1>3. Program(kind) \in Remaining(kind) /\ Now(Program(kind)) # "none"
  <2>1. CASE kind = "create"
    BY <2>1, Heads, RemainingOf, Zenon DEF Program
  <2>2. CASE kind = "device"
    BY <2>2, Heads, RemainingOf, Zenon DEF Program
  <2>3. CASE kind = "rotate"
    BY <2>3, Heads, RemainingOf, Zenon DEF Program
  <2>4. CASE kind = "pause"
    BY <2>4, Heads, RemainingOf, Zenon DEF Program
  <2>5. CASE kind = "resume"
    BY <2>5, Heads, RemainingOf, Zenon DEF Program
  <2>6. CASE kind = "revoke"
    BY <2>6, Heads, RemainingOf, Zenon DEF Program
  <2>7. CASE kind = "narrow"
    BY <2>7, Heads, RemainingOf, Zenon DEF Program
  <2>8. CASE kind = "delete"
    BY <2>8, Heads, RemainingOf, Zenon DEF Program
  <2>9. CASE kind = "authenticate"
    BY <2>9, Heads, RemainingOf, Zenon DEF Program
  <2>10. CASE kind = "expire"
    BY <2>10, Heads, RemainingOf, Zenon DEF Program
  <2>11. CASE kind = "approved"
    BY <2>11, Heads, RemainingOf, Zenon DEF Program
  <2> QED
    BY <2>1, <2>2, <2>3, <2>4, <2>5, <2>6, <2>7, <2>8, <2>9, <2>10, <2>11 DEF Begun, Kind
<1> QED
  BY <1>1, <1>2, <1>3 DEF Stage

(* Steps that are no part of a method that writes files of the grant.      *)
Quiet ==
    \/ \E v \in 1..MaxVersion : Approve(v) \/ Deny(v) \/ ApprovalExpires(v)
    \/ RequestDevice \/ CloseDevice \/ Poll \/ LoseHandoff \/ Tick
    \/ \E c \in Credential :
          \/ EndIdleSession(Server, c) \/ Allow(Server, c) \/ RequestApproval(Server, c)
          \/ Disconnect(Server, c)

(* Steps of another process.                                               *)
Elsewhere ==
    \E p \in Others : (\E c \in Credential : Agent(p, c)) \/ Write(p) \/ Crash(p)

LEMMA NextCases ==
    ASSUME TypeOK, Next
    PROVE  Begins \/ Write(Server) \/ Crash(Server) \/ Quiet \/ Elsewhere
<1>1. \A p \in Process : p = Server \/ p \in Others
  BY DEF Others
<1>2. CASE Operator
  BY <1>2, OperatorBegins DEF Operator, Quiet, Creates
<1>3. ASSUME NEW c \in Credential, Agent(Server, c)
      PROVE  Begins \/ Quiet
  BY <1>3, AgentBegins DEF Agent, Quiet
<1>4. CASE \E p \in Process, c \in Credential : Agent(p, c)
  BY <1>1, <1>3, <1>4 DEF Elsewhere
<1>5. CASE \E p \in Process : Write(p) \/ Crash(p)
  BY <1>1, <1>5 DEF Elsewhere
<1>6. CASE LoseHandoff \/ Tick \/ \E v \in 1..MaxVersion : ApprovalExpires(v)
  BY <1>6 DEF Quiet
<1> QED
  BY <1>2, <1>4, <1>5, <1>6 DEF Next

(* A write moves the method on, or ends it.                                *)
LEMMA WriteMoves ==
    ASSUME Core, Write(Server)
    PROVE  /\ doing.kind \in Kind \ {"none"}
           /\ \/ Stops
              \/ doing'.kind = doing.kind /\ doing'.todo = Rest(doing.todo) /\ ~Ends(doing.todo)
           /\ Stage'
<1>1. doing.kind \in Kind /\ doing.todo \in Remaining(doing.kind)
  BY DoingType DEF Core, Stage, Locals
<1>2. \E w \in {"grant", "issue", "credentials", "sessions", "remove", "session", "device",
                "consume"} : Writing(Server, w)
  BY DEF Write, WriteGrant, IssueCredential, RevokeCredentials, RevokeSessions, RemoveGrant,
         WriteSession, WriteDevice, Consume
<1>3. Now(doing.todo) # "none"
  BY <1>2, WritingStep DEF Core
<1>4. doing.kind # "none"
  BY <1>1, <1>3, Spots DEF Core
<1>5. CASE IssueCredential(Server)
  <2>1. IssueSpot
    BY <1>1, <1>5, WritingStep, Spots DEF IssueCredential, Core
  <2>2. PICK c \in Credential : proc' = [proc EXCEPT ![Server].todo = Tail(proc[Server].todo),
                                                     ![Server].snap = grant, ![Server].cred = c]
    BY <1>5 DEF IssueCredential
  <2>3. doing' = [doing EXCEPT !.todo = Tail(doing.todo), !.snap = grant, !.cred = c]
    BY <2>2, DoingType DEF Core, doing
  <2>4. doing'.kind = doing.kind /\ doing'.todo = Rest(doing.todo)
    BY <2>3, DoingType DEF Core, Locals, Rest
  <2>5. ~Ends(doing.todo) /\ doing'.todo \in Remaining(doing.kind)
    <3>1. CASE At("create", <<"issue", "grant">>)
      <4>1. Rest(doing.todo) = <<"grant">> /\ ~Ends(doing.todo)
        BY <3>1, Rests DEF At
      <4>2. <<"grant">> \in Remaining("create")
        BY RemainingOf
      <4> QED
        BY <2>4, <3>1, <4>1, <4>2 DEF At
    <3>2. CASE At("device", <<"issue", "grant", "device">>)
      BY <2>4, <3>2, Rests, RemainingOf, Zenon DEF At
    <3>3. CASE At("rotate", <<"issue", "grant">>)
      <4>1. Rest(doing.todo) = <<"grant">> /\ ~Ends(doing.todo)
        BY <3>3, Rests DEF At
      <4>2. <<"grant">> \in Remaining("rotate")
        BY RemainingOf
      <4> QED
        BY <2>4, <3>3, <4>1, <4>2 DEF At
    <3> QED
      BY <2>1, <3>1, <3>2, <3>3 DEF IssueSpot
  <2> QED
    BY <1>1, <1>4, <2>4, <2>5 DEF Stage
<1>6. CASE Written(Server)
  <2>1. CASE Ends(doing.todo)
    <3>1. Stops
      BY <1>6, <2>1, WrittenStep DEF Core
    <3>2. Stage'
      BY <3>1, RemainingOf DEF Stops, Stage
    <3> QED
      BY <1>1, <1>4, <3>1, <3>2
  <2>2. CASE ~Ends(doing.todo)
    <3>1. Goes(Rest(doing.todo))
      BY <1>6, <2>2, WrittenStep DEF Core
    <3>2. Rest(doing.todo) \in Remaining(doing.kind)
      <4>1. CASE doing.kind = "create"
        BY <1>1, <2>2, <4>1, Rests, RemainingOf, Zenon
      <4>2. CASE doing.kind = "device"
        BY <1>1, <2>2, <4>2, Rests, RemainingOf, Zenon
      <4>3. CASE doing.kind = "rotate"
        BY <1>1, <2>2, <4>3, Rests, RemainingOf, Zenon
      <4>4. CASE doing.kind = "pause"
        BY <1>1, <2>2, <4>4, Rests, RemainingOf, Zenon
      <4>5. CASE doing.kind = "revoke"
        BY <1>1, <2>2, <4>5, Rests, RemainingOf, Zenon
      <4>6. CASE doing.kind = "delete"
        BY <1>1, <2>2, <4>6, Rests, RemainingOf, Zenon
      <4>7. CASE doing.kind = "authenticate"
        BY <1>1, <2>2, <4>7, Rests, RemainingOf, Zenon
      <4>8. CASE doing.kind \in {"resume", "narrow", "expire"}
        BY <1>1, <2>2, <4>8, Rests, RemainingOf, Zenon
      <4>9. CASE doing.kind = "approved"
        BY <1>1, <2>2, <4>9, Rests, RemainingOf, Zenon
      <4> QED
        BY <1>1, <1>4, <4>1, <4>2, <4>3, <4>4, <4>5, <4>6, <4>7, <4>8, <4>9 DEF Kind
    <3> QED
      BY <1>1, <1>4, <2>2, <3>1, <3>2 DEF Goes, Stage
  <2> QED
    BY <2>1, <2>2
<1> QED
  BY <1>5, <1>6 DEF Write, WriteGrant, RevokeCredentials, RevokeSessions, RemoveGrant,
                    WriteSession, WriteDevice, Consume

-----------------------------------------------------------------------------
(* The types, and what the method in progress has read.                    *)

Writes == {"grant", "issue", "device", "credentials", "sessions", "remove", "session", "consume"}

LEMMA ProgramType == \A kind \in Kind : Program(kind) \in Seq(Writes) \/ kind = "none"
<1>1. Program("create") \in Seq(Writes)
  BY DEF Program, Writes
<1>2. Program("device") \in Seq(Writes)
  BY DEF Program, Writes
<1>3. Program("rotate") \in Seq(Writes)
  BY DEF Program, Writes
<1>4. Program("pause") \in Seq(Writes)
  BY DEF Program, Writes
<1>5. Program("resume") \in Seq(Writes)
  BY DEF Program, Writes
<1>6. Program("revoke") \in Seq(Writes)
  BY DEF Program, Writes
<1>7. Program("narrow") \in Seq(Writes)
  BY DEF Program, Writes
<1>8. Program("delete") \in Seq(Writes)
  BY DEF Program, Writes
<1>9. Program("authenticate") \in Seq(Writes)
  BY DEF Program, Writes
<1>10. Program("expire") \in Seq(Writes)
  BY DEF Program, Writes
<1>11. Program("approved") \in Seq(Writes)
  BY DEF Program, Writes
<1> QED
  BY <1>1, <1>2, <1>3, <1>4, <1>5, <1>6, <1>7, <1>8, <1>9, <1>10, <1>11 DEF Kind

LEMMA ProcType ==
    ASSUME TypeOK, NEW r \in Locals, proc' = [proc EXCEPT ![Server] = r]
    PROVE  proc' \in [Process -> Locals]
BY DoingType

LEMMA WrittenType ==
    ASSUME TypeOK, Writing(Server, "grant") \/ doing.todo # <<>>, Written(Server)
    PROVE  proc' \in [Process -> Locals]
<1> DEFINE r == IF Last(Server) THEN Idle ELSE [doing EXCEPT !.todo = Tail(doing.todo)]
<1>1. doing.todo \in Seq(Writes) /\ doing.todo # <<>> /\ doing \in Locals
  BY DoingType DEF Locals, Writes, Writing, doing
<1>2. Tail(doing.todo) \in Seq(Writes)
  BY <1>1
<1>3. Idle \in Locals
  BY DEF Idle, Locals, Kind
<1>4. r \in Locals
  BY <1>1, <1>2, <1>3 DEF Locals, Writes
<1>5. proc' = [proc EXCEPT ![Server] = r]
  BY DEF Written, doing
<1> HIDE DEF r
<1> QED
  BY <1>4, <1>5, ProcType

LEMMA Counted ==
    ASSUME TypeOK,
           \/ count.given < MaxUses /\ count' = [count EXCEPT !.given = @ + 1]
           \/ count.used < MaxUses /\ count' = [count EXCEPT !.used = @ + 1]
           \/ count.handed < MaxUses /\ count' = [count EXCEPT !.handed = @ + 1]
    PROVE  count' \in [given : 0..MaxUses, used : 0..MaxUses, handed : 0..MaxUses]
<1>1. count \in [given : 0..MaxUses, used : 0..MaxUses, handed : 0..MaxUses]
  BY DEF TypeOK
<1>2. \A n \in 0..MaxUses : n < MaxUses => n + 1 \in 0..MaxUses
  OBVIOUS
<1> QED
  BY <1>1, <1>2

(* What the operator has been told stays of its type.                      *)
LEMMA ToldType ==
    ASSUME TypeOK, NEW p
    PROVE  ToldAfter(p) \in [stopped : BOOLEAN, revoked : BOOLEAN, approved : BOOLEAN]
<1>1. told \in [stopped : BOOLEAN, revoked : BOOLEAN, approved : BOOLEAN]
  BY DEF TypeOK
<1>2. told.stopped \in BOOLEAN /\ told.revoked \in BOOLEAN /\ told.approved \in BOOLEAN
  BY <1>1
<1> DEFINE s == IF Last(p) /\ proc[p].kind \in {"pause", "revoke", "delete"} THEN TRUE
                ELSE IF proc[p].kind = "resume" THEN FALSE ELSE told.stopped
           v == told.revoked \/ (Last(p) /\ proc[p].kind = "revoke")
           a == told.approved /\ ~Restricts(proc[p].kind)
<1>3. s \in BOOLEAN
  BY <1>2
<1>4. v \in BOOLEAN
  OBVIOUS
<1>5. a \in BOOLEAN
  OBVIOUS
<1>6. ToldAfter(p) = [stopped |-> s, revoked |-> v, approved |-> a]
  BY DEF ToldAfter
<1> HIDE DEF s, v, a
<1> QED
  BY <1>3, <1>4, <1>5, <1>6

LEMMA BeginsType ==
    ASSUME Core, NEW kind \in Kind, NEW snap \in Grant \cup {NoGrant},
           NEW c \in Credential \cup {NoCredential}, Begun(kind, snap, c)
    PROVE  TypeOK'
<1> DEFINE r == [kind |-> kind, todo |-> Program(kind), snap |-> snap, cred |-> c]
<1>1. r \in Locals
  BY ProgramType DEF Begun, Locals, Writes
<1>2. proc' = [proc EXCEPT ![Server] = r]
  BY DEF Begun
<1> HIDE DEF r
<1>3. proc' \in [Process -> Locals]
  BY <1>1, <1>2, ProcType DEF Core
<1> QED
  BY <1>3 DEF Begun, Core, TypeOK, Locals

LEMMA QuietType ==
    ASSUME TypeOK, Quiet
    PROVE  TypeOK'
<1>1. CASE \E v \in 1..MaxVersion : Approve(v) \/ Deny(v) \/ ApprovalExpires(v)
  <2>1. PICK v \in 1..MaxVersion : Approve(v) \/ Deny(v) \/ ApprovalExpires(v)
    BY <1>1
  <2>2. CASE Approve(v)
    <3>1. count' \in [given : 0..MaxUses, used : 0..MaxUses, handed : 0..MaxUses]
      BY <2>2, Counted DEF Approve
    <3>2. approval' \in [1..MaxVersion -> {"none", "pending", "approved"}]
      BY <2>2 DEF Approve, TypeOK
    <3>3. told' \in [stopped : BOOLEAN, revoked : BOOLEAN, approved : BOOLEAN]
      BY <2>2 DEF Approve, TypeOK
    <3> QED
      BY <2>2, <3>1, <3>2, <3>3 DEF Approve, TypeOK
  <2>3. CASE Deny(v) \/ ApprovalExpires(v)
    BY <2>3 DEF Deny, ApprovalExpires, TypeOK
  <2> QED
    BY <2>1, <2>2, <2>3
<1>2. CASE RequestDevice \/ CloseDevice \/ LoseHandoff
  BY <1>2 DEF RequestDevice, CloseDevice, LoseHandoff, TypeOK
<1>3. CASE Poll
  <2>1. count' \in [given : 0..MaxUses, used : 0..MaxUses, handed : 0..MaxUses]
    BY <1>3, Counted DEF Poll
  <2>2. held' \subseteq Credential
    BY <1>3 DEF Poll, TypeOK
  <2> QED
    BY <1>3, <2>1, <2>2 DEF Poll, TypeOK
<1>4. CASE Tick
  BY <1>4 DEF Tick, TypeOK
<1>5. ASSUME NEW c \in Credential, EndIdleSession(Server, c) \/ Disconnect(Server, c)
      PROVE  TypeOK'
  BY <1>5 DEF EndIdleSession, Disconnect, TypeOK
<1>6. ASSUME NEW c \in Credential, Allow(Server, c)
      PROVE  TypeOK'
  <2>1. count' \in [given : 0..MaxUses, used : 0..MaxUses, handed : 0..MaxUses]
    BY <1>6, Counted DEF Allow
  <2> QED
    BY <1>6, <2>1 DEF Allow, TypeOK
<1>7. ASSUME NEW c \in Credential, RequestApproval(Server, c)
      PROVE  TypeOK'
  BY <1>7 DEF RequestApproval, TypeOK
<1> QED
  BY <1>1, <1>2, <1>3, <1>4, <1>5, <1>6, <1>7 DEF Quiet

LEMMA CrashType ==
    ASSUME TypeOK, Crash(Server)
    PROVE  TypeOK' /\ Stops
<1>1. Idle \in Locals /\ proc' = [proc EXCEPT ![Server] = Idle]
  BY DEF Crash, Idle, Locals, Kind
<1>2. proc' \in [Process -> Locals]
  BY <1>1, ProcType
<1>3. Stops
  <2>1. doing' = Idle
    BY <1>1, DoingStep
  <2> QED
    BY <2>1 DEF Stops, Idle
<1> QED
  BY <1>2, <1>3 DEF Crash, TypeOK, Locals

LEMMA WriteType ==
    ASSUME Core, Write(Server)
    PROVE  TypeOK'
<1>1. doing.kind \in Kind
  BY WriteMoves
<1>2. doing \in Locals /\ proc \in [Process -> Locals] /\ doing = proc[Server]
  BY DoingType DEF Core, doing
<1>3. doing.todo # <<>>
  BY WriteMoves, Spots, Heads DEF Core
<1>4. Written(Server) => proc' \in [Process -> Locals]
  BY <1>3, WrittenType DEF Core
<1>5. ToldAfter(Server) \in [stopped : BOOLEAN, revoked : BOOLEAN, approved : BOOLEAN]
  BY ToldType DEF Core
<1>6. CASE WriteGrant(Server)
  <2>1. grant' \in Grant
    <3>1. Now(doing.todo) = "grant" /\ doing.kind # "none"
      BY <1>6, WritingStep, WriteMoves DEF WriteGrant, Core
    <3>2. doing.snap \in Grant
      BY <3>1 DEF Core, Reads
    <3> QED
      BY <1>2, <1>6, <3>2 DEF WriteGrant
  <2>2. Now(doing.todo) = "grant" /\ GrantSpot
    BY <1>1, <1>6, WritingStep, Spots DEF WriteGrant, Core
  <2>3. conn' \subseteq Process \X Credential
    BY <1>2, <1>6 DEF WriteGrant, Core, Carries, TypeOK
  <2>4. held' \subseteq Credential
    <3>1. CASE Last(Server) /\ doing.kind \in {"create", "rotate"}
      <4>1. Ends(doing.todo)
        BY <3>1, WritingStep DEF Core
      <4>2. doing.todo = <<"grant">>
        BY <2>2, <3>1, <4>1, Rests, Zenon DEF GrantSpot, At
      <4> QED
        BY <1>2, <1>6, <3>1, <4>2 DEF WriteGrant, Core, Carries, TypeOK
    <3>2. CASE ~(Last(Server) /\ doing.kind \in {"create", "rotate"})
      BY <1>2, <1>6, <3>2 DEF WriteGrant, Core, TypeOK
    <3> QED
      BY <3>1, <3>2
  <2>5. proc' \in [Process -> Locals]
    BY <1>4, <1>6 DEF WriteGrant
  <2>6. told' \in [stopped : BOOLEAN, revoked : BOOLEAN, approved : BOOLEAN]
    BY <1>5, <1>6 DEF WriteGrant
  <2>7. UNCHANGED <<now, cred, session, approval, device, count>>
    BY <1>6 DEF WriteGrant
  <2> QED
    BY <2>1, <2>3, <2>4, <2>5, <2>6, <2>7 DEF Core, TypeOK, Locals
<1>7. CASE IssueCredential(Server)
  <2>1. PICK c \in Credential :
          /\ cred' = [cred EXCEPT ![c] = "live"]
          /\ proc' = [proc EXCEPT ![Server].todo = Tail(proc[Server].todo),
                                  ![Server].snap = grant, ![Server].cred = c]
    BY <1>7 DEF IssueCredential
  <2> DEFINE r == [doing EXCEPT !.todo = Tail(doing.todo), !.snap = grant, !.cred = c]
  <2>2. grant \in Grant
    BY <1>7, ExistingIsGrant DEF IssueCredential, Core
  <2>3. Tail(doing.todo) \in Seq(Writes)
    BY <1>2, <1>3 DEF Locals, Writes
  <2>4. r \in Locals
    BY <1>2, <2>2, <2>3 DEF Locals, Writes
  <2>5. proc' = [proc EXCEPT ![Server] = r]
    BY <1>2, <2>1
  <2> HIDE DEF r
  <2>6. proc' \in [Process -> Locals]
    BY <2>4, <2>5, ProcType DEF Core
  <2>7. cred' \in [Credential -> {"unused", "live", "revoked"}]
    BY <2>1 DEF Core, TypeOK
  <2> QED
    BY <1>7, <2>6, <2>7 DEF IssueCredential, Core, TypeOK, Locals
<1>8. CASE RevokeCredentials(Server)
  <2>1. cred' \in [Credential -> {"unused", "live", "revoked"}]
    BY <1>8 DEF RevokeCredentials, Core, TypeOK
  <2> QED
    BY <1>4, <1>5, <1>8, <2>1 DEF RevokeCredentials, Core, TypeOK, Locals
<1>9. CASE RevokeSessions(Server)
  BY <1>4, <1>5, <1>9 DEF RevokeSessions, Core, TypeOK, Locals
<1>10. CASE RemoveGrant(Server)
  BY <1>4, <1>5, <1>10 DEF RemoveGrant, Core, TypeOK, Locals
<1>11. CASE WriteSession(Server)
  <2>1. At("authenticate", <<"session", "grant">>)
    BY <1>1, <1>11, WritingStep, Spots DEF WriteSession, Core
  <2>2. session' \subseteq Credential
    BY <1>2, <1>11, <2>1 DEF WriteSession, Core, Carries, TypeOK, At
  <2> QED
    BY <1>4, <1>11, <2>2 DEF WriteSession, Core, TypeOK, Locals
<1>12. CASE WriteDevice(Server)
  <2>1. device' \in [status : {"none", "pending", "approved", "closed"},
                     handoff : Credential \cup {NoCredential}]
    BY <1>2, <1>12 DEF WriteDevice, Locals
  <2> QED
    BY <1>4, <1>12, <2>1 DEF WriteDevice, Core, TypeOK, Locals
<1>13. CASE Consume(Server)
  <2>1. count' \in [given : 0..MaxUses, used : 0..MaxUses, handed : 0..MaxUses]
    BY <1>13, Counted DEF Consume, Core
  <2>2. approval' \in [1..MaxVersion -> {"none", "pending", "approved"}]
    BY <1>13 DEF Consume, Core, TypeOK
  <2> QED
    BY <1>4, <1>13, <2>1, <2>2 DEF Consume, Core, TypeOK, Locals
<1> QED
  BY <1>6, <1>7, <1>8, <1>9, <1>10, <1>11, <1>12, <1>13 DEF Write

-----------------------------------------------------------------------------
(* What each write does, by the method it belongs to.                      *)

LEMMA GrantMoves ==
    ASSUME Core, WriteGrant(Server)
    PROVE  /\ Now(doing.todo) = "grant" /\ doing.kind # "none"
           /\ grant' = doing.snap /\ doing.snap \in Grant
           /\ \/ At("create", <<"grant", "issue", "grant">>) /\ Goes(<<"issue", "grant">>)
              \/ At("create", <<"grant">>) /\ Stops
              \/ /\ At("device", <<"grant", "issue", "grant", "device">>)
                 /\ Goes(<<"issue", "grant", "device">>)
              \/ At("device", <<"grant", "device">>) /\ Goes(<<"device">>)
              \/ At("rotate", <<"grant">>) /\ Stops
              \/ At("pause", <<"grant", "sessions">>) /\ Goes(<<"sessions">>)
              \/ At("resume", <<"grant">>) /\ Stops
              \/ /\ At("revoke", <<"grant", "sessions", "credentials">>)
                 /\ Goes(<<"sessions", "credentials">>)
              \/ At("narrow", <<"grant">>) /\ Stops
              \/ At("authenticate", <<"grant">>) /\ Stops
              \/ At("expire", <<"grant">>) /\ Stops
<1>1. Now(doing.todo) = "grant" /\ doing.kind # "none" /\ doing.kind \in Kind
  BY WritingStep, WriteMoves DEF WriteGrant, Write, Core
<1>2. GrantSpot
  BY <1>1, Spots DEF Core
<1>3. grant' = doing.snap /\ doing.snap \in Grant
  BY <1>1 DEF WriteGrant, Core, Reads, doing
<1>4. Ends(doing.todo) => Stops
  BY WrittenStep DEF WriteGrant, Core
<1>5. ~Ends(doing.todo) => Goes(Rest(doing.todo))
  BY WrittenStep DEF WriteGrant, Core
<1>6. CASE doing.todo = <<"grant">>
  BY <1>1, <1>2, <1>3, <1>4, <1>6, Rests, Zenon DEF GrantSpot, At
<1>7. CASE doing.todo # <<"grant">>
  <2>1. CASE At("create", <<"grant", "issue", "grant">>)
    BY <1>1, <1>3, <1>5, <2>1, Rests, Zenon DEF At
  <2>2. CASE At("device", <<"grant", "issue", "grant", "device">>)
    BY <1>1, <1>3, <1>5, <2>2, Rests, Zenon DEF At
  <2>3. CASE At("device", <<"grant", "device">>)
    BY <1>1, <1>3, <1>5, <2>3, Rests, Zenon DEF At
  <2>4. CASE At("pause", <<"grant", "sessions">>)
    BY <1>1, <1>3, <1>5, <2>4, Rests, Zenon DEF At
  <2>5. CASE At("revoke", <<"grant", "sessions", "credentials">>)
    BY <1>1, <1>3, <1>5, <2>5, Rests, Zenon DEF At
  <2> QED
    BY <1>2, <1>7, <2>1, <2>2, <2>3, <2>4, <2>5, Zenon DEF GrantSpot, At
<1> QED
  BY <1>6, <1>7

LEMMA IssueMoves ==
    ASSUME Core, IssueCredential(Server)
    PROVE  /\ Exists /\ grant \in Grant
           /\ \E c \in Credential :
                 /\ cred[c] = "unused" /\ cred' = [cred EXCEPT ![c] = "live"]
                 /\ doing'.kind = doing.kind /\ doing'.snap = grant /\ doing'.cred = c
           /\ \/ At("create", <<"issue", "grant">>) /\ doing'.todo = <<"grant">>
              \/ At("device", <<"issue", "grant", "device">>) /\ doing'.todo = <<"grant", "device">>
              \/ At("rotate", <<"issue", "grant">>) /\ doing'.todo = <<"grant">>
<1>1. IssueSpot /\ Exists /\ grant \in Grant
  BY WritingStep, WriteMoves, Spots, ExistingIsGrant DEF IssueCredential, Write, Core
<1>2. PICK c \in Credential :
         /\ cred[c] = "unused" /\ cred' = [cred EXCEPT ![c] = "live"]
         /\ proc' = [proc EXCEPT ![Server].todo = Tail(proc[Server].todo),
                                 ![Server].snap = grant, ![Server].cred = c]
  BY DEF IssueCredential
<1>3. doing' = [doing EXCEPT !.todo = Tail(doing.todo), !.snap = grant, !.cred = c]
  BY <1>2, DoingType DEF Core, doing
<1>4. /\ doing'.kind = doing.kind /\ doing'.snap = grant /\ doing'.cred = c
      /\ doing'.todo = Rest(doing.todo)
  BY <1>3, DoingType DEF Core, Locals, Rest
<1>5. CASE At("create", <<"issue", "grant">>)
  BY <1>1, <1>2, <1>4, <1>5, Rests, Zenon DEF At
<1>6. CASE At("device", <<"issue", "grant", "device">>)
  BY <1>1, <1>2, <1>4, <1>6, Rests, Zenon DEF At
<1>7. CASE At("rotate", <<"issue", "grant">>)
  BY <1>1, <1>2, <1>4, <1>7, Rests, Zenon DEF At
<1> QED
  BY <1>1, <1>5, <1>6, <1>7 DEF IssueSpot

LEMMA SessionsMoves ==
    ASSUME Core, RevokeSessions(Server)
    PROVE  \/ At("rotate", <<"sessions", "issue", "grant">>) /\ Goes(<<"issue", "grant">>)
           \/ At("pause", <<"sessions">>) /\ Stops
           \/ At("revoke", <<"sessions", "credentials">>) /\ Goes(<<"credentials">>)
           \/ At("delete", <<"sessions", "remove">>) /\ Goes(<<"remove">>)
<1>1. SessionsSpot
  BY WritingStep, WriteMoves, Spots DEF RevokeSessions, Write, Core
<1>2. Ends(doing.todo) => Stops
  BY WrittenStep DEF RevokeSessions, Core
<1>3. ~Ends(doing.todo) => Goes(Rest(doing.todo))
  BY WrittenStep DEF RevokeSessions, Core
<1>4. CASE At("rotate", <<"sessions", "issue", "grant">>)
  BY <1>2, <1>3, <1>4, Rests, Zenon DEF At
<1>5. CASE At("pause", <<"sessions">>)
  BY <1>2, <1>3, <1>5, Rests, Zenon DEF At
<1>6. CASE At("revoke", <<"sessions", "credentials">>)
  BY <1>2, <1>3, <1>6, Rests, Zenon DEF At
<1>7. CASE At("delete", <<"sessions", "remove">>)
  BY <1>2, <1>3, <1>7, Rests, Zenon DEF At
<1> QED
  BY <1>1, <1>4, <1>5, <1>6, <1>7 DEF SessionsSpot

LEMMA CredentialsMoves ==
    ASSUME Core, RevokeCredentials(Server)
    PROVE  \/ /\ At("rotate", <<"credentials", "sessions", "issue", "grant">>)
              /\ Goes(<<"sessions", "issue", "grant">>)
           \/ At("revoke", <<"credentials">>) /\ Stops
<1>1. CredentialsSpot
  BY WritingStep, WriteMoves, Spots DEF RevokeCredentials, Write, Core
<1>2. Ends(doing.todo) => Stops
  BY WrittenStep DEF RevokeCredentials, Core
<1>3. ~Ends(doing.todo) => Goes(Rest(doing.todo))
  BY WrittenStep DEF RevokeCredentials, Core
<1>4. CASE At("rotate", <<"credentials", "sessions", "issue", "grant">>)
  BY <1>2, <1>3, <1>4, Rests, Zenon DEF At
<1>5. CASE At("revoke", <<"credentials">>)
  BY <1>2, <1>3, <1>5, Rests, Zenon DEF At
<1> QED
  BY <1>1, <1>4, <1>5 DEF CredentialsSpot

LEMMA OtherMoves ==
    ASSUME Core
    PROVE  /\ RemoveGrant(Server) => At("delete", <<"remove">>) /\ Stops
           /\ WriteSession(Server) => /\ At("authenticate", <<"session", "grant">>)
                                      /\ Goes(<<"grant">>)
           /\ WriteDevice(Server) => At("device", <<"device">>) /\ Stops
           /\ Consume(Server) => At("approved", <<"consume">>) /\ Stops
<1>1. ASSUME RemoveGrant(Server) PROVE At("delete", <<"remove">>) /\ Stops
  <2>1. At("delete", <<"remove">>)
    BY <1>1, WritingStep, WriteMoves, Spots DEF RemoveGrant, Write, Core
  <2>2. Ends(doing.todo) => Stops
    BY <1>1, WrittenStep DEF RemoveGrant, Core
  <2> QED
    BY <2>1, <2>2, Rests, Zenon DEF At
<1>2. ASSUME WriteSession(Server)
      PROVE  At("authenticate", <<"session", "grant">>) /\ Goes(<<"grant">>)
  <2>1. At("authenticate", <<"session", "grant">>)
    BY <1>2, WritingStep, WriteMoves, Spots DEF WriteSession, Write, Core
  <2>2. ~Ends(doing.todo) => Goes(Rest(doing.todo))
    BY <1>2, WrittenStep DEF WriteSession, Core
  <2> QED
    BY <2>1, <2>2, Rests, Zenon DEF At
<1>3. ASSUME WriteDevice(Server) PROVE At("device", <<"device">>) /\ Stops
  <2>1. At("device", <<"device">>)
    BY <1>3, WritingStep, WriteMoves, Spots DEF WriteDevice, Write, Core
  <2>2. Ends(doing.todo) => Stops
    BY <1>3, WrittenStep DEF WriteDevice, Core
  <2> QED
    BY <2>1, <2>2, Rests, Zenon DEF At
<1>4. ASSUME Consume(Server) PROVE At("approved", <<"consume">>) /\ Stops
  <2>1. At("approved", <<"consume">>)
    BY <1>4, WritingStep, WriteMoves, Spots DEF Consume, Write, Core
  <2>2. Ends(doing.todo) => Stops
    BY <1>4, WrittenStep DEF Consume, Core
  <2> QED
    BY <2>1, <2>2, Rests, Zenon DEF At
<1> QED
  BY <1>1, <1>2, <1>3, <1>4

(* What the operator has been told after a write of a route.               *)
LEMMA ToldStep ==
    ASSUME TypeOK, told' = ToldAfter(Server)
    PROVE  /\ told'.stopped = IF Ends(doing.todo) /\ doing.kind \in {"pause", "revoke", "delete"}
                              THEN TRUE
                              ELSE IF doing.kind = "resume" THEN FALSE ELSE told.stopped
           /\ told'.approved = (told.approved /\ ~Restricts(doing.kind))
<1>1. Last(Server) <=> Ends(doing.todo)
  BY WritingStep
<1> QED
  BY <1>1 DEF ToldAfter, doing

-----------------------------------------------------------------------------
(* Steps of another process.                                               *)

(* A step that gives a process these locals leaves the others' alone.       *)
LEMMA HelperStep ==
    ASSUME TypeOK, Aside, NEW p \in Others, NEW r \in Locals, Helping(r),
           proc' = [proc EXCEPT ![p] = r]
    PROVE  proc' \in [Process -> Locals] /\ Aside' /\ doing' = doing
<1>1. proc \in [Process -> Locals]
  BY DoingType
<1>2. \A q \in Others : q \in Process /\ q # Server
  BY DEF Others
<1>3. \A q \in Others : proc'[q] = IF q = p THEN r ELSE proc[q]
  BY <1>1, <1>2
<1> QED
  BY <1>1, <1>2, <1>3 DEF Aside, doing

LEMMA IdleHelps == Idle \in Locals /\ Helping(Idle)
BY DEF Idle, Locals, Kind, Helping

(* What is left of a method of a helper after one write.                   *)
LEMMA HelperWrites ==
    ASSUME TypeOK, Aside, NEW p \in Others, Written(p), proc[p].todo # <<>>
    PROVE  proc' \in [Process -> Locals] /\ Aside' /\ doing' = doing
<1> DEFINE d == proc[p]
           r == IF Last(p) THEN Idle ELSE [d EXCEPT !.todo = Tail(d.todo)]
<1>1. d \in Locals /\ Helping(d)
  BY DoingType DEF Aside, Others
<1>2. proc' = [proc EXCEPT ![p] = r]
  BY DEF Written
<1>3. r \in Locals /\ Helping(r)
  <2>1. CASE Last(p)
    BY <2>1, IdleHelps
  <2>2. CASE ~Last(p)
    <3>1. ~Ends(d.todo) /\ r = [d EXCEPT !.todo = Rest(d.todo)]
      BY <2>2 DEF Last, Ends, Rest
    <3>2. d.todo # <<"grant">> /\ d.todo # <<"consume">>
      BY <3>1, Rests, Zenon
    <3>3. d.kind = "authenticate" /\ d.todo = <<"session", "grant">>
          /\ d.snap \in Grant /\ d.cred \in Credential
      BY <1>1, <3>2 DEF Helping
    <3>4. Rest(d.todo) = <<"grant">>
      BY <3>3, Rests, Zenon
    <3> HIDE DEF d
    <3>5. r = [kind |-> "authenticate", snap |-> d.snap, cred |-> d.cred, todo |-> <<"grant">>]
      BY <1>1, <3>1, <3>3, <3>4 DEF Locals
    <3>6. <<"grant">> \in Seq({"grant", "issue", "device", "credentials", "sessions", "remove",
                               "session", "consume"})
      OBVIOUS
    <3> HIDE DEF r
    <3> QED
      BY <3>3, <3>5, <3>6 DEF Locals, Kind, Helping
  <2> QED
    BY <2>1, <2>2
<1> HIDE DEF r
<1> QED
  BY <1>2, <1>3, HelperStep

LEMMA HelperBegins ==
    ASSUME TypeOK, Aside, NEW p \in Others, NEW c \in Credential,
           NEW kind \in {"authenticate", "expire", "approved"}, NEW snap \in Grant,
           Begin(p, kind, snap, c)
    PROVE  proc' \in [Process -> Locals] /\ Aside' /\ doing' = doing
<1> DEFINE r == [kind |-> kind, todo |-> Program(kind), snap |-> snap, cred |-> c]
<1>1. r \in Locals
  BY ProgramType DEF Locals, Writes, Kind
<1>2. Helping(r)
  BY DEF Program, Helping
<1>3. proc' = [proc EXCEPT ![p] = r]
  BY DEF Begin
<1> HIDE DEF r
<1> QED
  BY <1>1, <1>2, <1>3, HelperStep

(* What another process does is to change the grant, its sessions and       *)
(* approvals: never a credential, the device or the tokens held.            *)
LEMMA ElsewhereStep ==
    ASSUME Core, Aside, Elsewhere
    PROVE  /\ TypeOK' /\ Aside' /\ doing' = doing
           /\ UNCHANGED <<cred, device, held>> /\ count'.handed = count.handed
           /\ grant' = grant \/ grant' \in Grant
<1> DEFINE Same == UNCHANGED <<cred, device, held>> /\ count'.handed = count.handed
           Moved == proc' \in [Process -> Locals] /\ Aside' /\ doing' = doing
<1>1. TypeOK
  BY DEF Core
<1>2. PICK p \in Others : (\E c \in Credential : Agent(p, c)) \/ Write(p) \/ Crash(p)
  BY DEF Elsewhere
<1>3. p \in Process /\ p # Server /\ proc[p] \in Locals /\ Helping(proc[p])
  BY <1>1, DoingType DEF Aside, Others
<1>4. ASSUME proc' = proc
      PROVE  Moved
  BY <1>1, <1>4, DoingType DEF Aside, doing
<1>5. ASSUME NEW c \in Credential, Authenticate(p, c) \/ MarkExpired(p, c) \/ UseApproval(p, c)
      PROVE  TypeOK' /\ Moved /\ Same /\ grant' = grant
  <2>1. grant \in Grant
    BY <1>1, <1>5, ExistingIsGrant DEF Authenticate, Presented, MarkExpired, UseApproval, MayAct
  <2>2. [grant EXCEPT !.status = "expired"] \in Grant
    BY <2>1 DEF Grant, GrantStatus
  <2>3. Moved
    BY <1>1, <1>5, <2>1, <2>2, HelperBegins DEF Authenticate, MarkExpired, UseApproval
  <2>4. UNCHANGED <<now, grant, cred, session, approval, device, held, conn, told, count>>
    BY <1>5 DEF Authenticate, MarkExpired, UseApproval
  <2> QED
    BY <1>1, <2>3, <2>4 DEF TypeOK, Locals
<1>6. ASSUME NEW c \in Credential, Allow(p, c)
      PROVE  TypeOK' /\ Moved /\ Same /\ grant' = grant
  <2>1. count' \in [given : 0..MaxUses, used : 0..MaxUses, handed : 0..MaxUses]
        /\ count'.handed = count.handed
    BY <1>1, <1>6, Counted DEF Allow, TypeOK
  <2> QED
    BY <1>1, <1>4, <1>6, <2>1 DEF Allow, TypeOK
<1>7. ASSUME NEW c \in Credential,
             EndIdleSession(p, c) \/ RequestApproval(p, c) \/ Disconnect(p, c)
      PROVE  TypeOK' /\ Moved /\ Same /\ grant' = grant
  <2>1. proc' = proc /\ Same /\ grant' = grant
    BY <1>7 DEF EndIdleSession, RequestApproval, Disconnect
  <2> QED
    BY <1>1, <1>4, <1>7, <2>1 DEF EndIdleSession, RequestApproval, Disconnect, TypeOK
<1>8. CASE Crash(p)
  <2>1. proc' = [proc EXCEPT ![p] = Idle] /\ device' = device
    BY <1>3, <1>8 DEF Crash
  <2>2. Moved
    BY <1>1, <2>1, IdleHelps, HelperStep
  <2> QED
    BY <1>1, <1>8, <2>1, <2>2 DEF Crash, TypeOK, Locals
<1>9. ASSUME NEW what, Writing(p, what), Written(p)
      PROVE  Moved
  BY <1>1, <1>9, HelperWrites DEF Writing
<1>10. ASSUME NEW what, Writing(p, what)
       PROVE  /\ what \in {"session", "grant", "consume"}
              /\ what = "session" => proc[p].cred \in Credential
              /\ what = "grant" =>
                    /\ proc[p].snap \in Grant /\ proc[p].kind \notin {"create", "rotate"}
                    /\ proc[p].kind = "authenticate" => proc[p].cred \in Credential
  <2>1. proc[p].todo # <<>> /\ Head(proc[p].todo) = what
    BY <1>10 DEF Writing
  <2> QED
    BY <1>3, <2>1 DEF Helping
<1>11. CASE WriteGrant(p)
  <2>1. grant' \in Grant /\ held' = held /\ conn' \subseteq Process \X Credential
    BY <1>1, <1>3, <1>10, <1>11 DEF WriteGrant, TypeOK
  <2>2. Moved /\ told' \in [stopped : BOOLEAN, revoked : BOOLEAN, approved : BOOLEAN]
    BY <1>1, <1>9, <1>11, ToldType DEF WriteGrant
  <2> QED
    BY <1>1, <1>11, <2>1, <2>2 DEF WriteGrant, TypeOK, Locals
<1>12. CASE WriteSession(p)
  <2>1. Moved /\ session' \subseteq Credential
    BY <1>1, <1>9, <1>10, <1>12 DEF WriteSession, TypeOK
  <2> QED
    BY <1>1, <1>12, <2>1 DEF WriteSession, TypeOK, Locals
<1>13. CASE Consume(p)
  <2>1. Moved /\ approval' \in [1..MaxVersion -> {"none", "pending", "approved"}]
    BY <1>1, <1>9, <1>13 DEF Consume, TypeOK
  <2>2. count' \in [given : 0..MaxUses, used : 0..MaxUses, handed : 0..MaxUses]
        /\ count'.handed = count.handed
    BY <1>1, <1>13, Counted DEF Consume, TypeOK
  <2> QED
    BY <1>1, <1>13, <2>1, <2>2 DEF Consume, TypeOK, Locals
<1>14. ~(IssueCredential(p) \/ RevokeCredentials(p) \/ RevokeSessions(p) \/ RemoveGrant(p)
         \/ WriteDevice(p))
  BY <1>10 DEF IssueCredential, RevokeCredentials, RevokeSessions, RemoveGrant, WriteDevice
<1> QED
  BY <1>2, <1>5, <1>6, <1>7, <1>8, <1>11, <1>12, <1>13, <1>14 DEF Agent, Write

-----------------------------------------------------------------------------
(* The shared part of the invariant, step by step.                         *)

LEMMA QuietStep ==
    ASSUME Core, Quiet
    PROVE  /\ TypeOK' /\ doing' = doing /\ UNCHANGED <<proc, grant, cred>>
           /\ doing.kind = "none" \/ (LoseHandoff \/ \E v \in 1..MaxVersion : ApprovalExpires(v))
<1>1. proc' = proc /\ grant' = grant /\ cred' = cred
  BY DEF Quiet, Approve, Deny, ApprovalExpires, RequestDevice, CloseDevice, Poll, LoseHandoff, Tick,
         EndIdleSession, Allow, RequestApproval, Disconnect, MayAct
<1>2. doing' = doing
  BY <1>1 DEF doing
<1>3. TypeOK'
  BY QuietType DEF Core
<1>4. doing.kind = "none" \/ LoseHandoff \/ \E v \in 1..MaxVersion : ApprovalExpires(v)
  <2>1. Free(Server) => doing.kind = "none"
    BY WritingStep, DoingType, Spots, Heads DEF Core, Locals
  <2> QED
    BY <2>1, ServerAssumption
       DEF Quiet, Approve, Deny, RequestDevice, CloseDevice, Poll, Tick, EndIdleSession,
           Allow, RequestApproval, Disconnect, MayAct
<1> QED
  BY <1>1, <1>2, <1>3, <1>4

LEMMA CoreStep ==
    ASSUME Core, Aside, Begins \/ Write(Server) \/ Crash(Server) \/ Quiet \/ Elsewhere
    PROVE  Core'
<1> USE DEF At, Goes, Stops
<1>1. TypeOK
  BY DEF Core
<1>2. ASSUME TypeOK', doing' = doing
      PROVE  Core'
  BY <1>2 DEF Core, Stage, Carries, Reads
<1>3. ASSUME TypeOK', Stops
      PROVE  Core'
  <2>1. Now(doing'.todo) # "grant"
    BY <1>3, Heads
  <2>2. Stage'
    BY <1>3, RemainingOf DEF Stage
  <2> QED
    BY <1>3, <2>1, <2>2 DEF Core, Carries, Reads
<1>4. CASE Begins
  <2>1. PICK kind \in Kind, snap \in Grant \cup {NoGrant}, c \in Credential \cup {NoCredential} :
               Begun(kind, snap, c)
    BY <1>4 DEF Begins
  <2>2. /\ doing'.kind = kind /\ doing'.todo = Program(kind)
        /\ doing'.snap = snap /\ doing'.cred = c /\ Stage' /\ TypeOK'
    BY <2>1, BegunStep, BeginsType
  <2>3. Carries'
    <3>1. Program("create") # <<"grant">> /\ Program("rotate") # <<"grant">>
      BY Rests, Zenon DEF Program
    <3> QED
      BY <2>1, <2>2, <3>1 DEF Carries, Begun
  <2>4. Reads'
    <3>1. Now(Program("rotate")) # "grant" /\ Now(Program("delete")) # "grant"
      BY Heads, Zenon DEF Program
    <3>2. kind \notin {"rotate", "delete"} => snap \in Grant
      BY <2>1 DEF Begun, MadeOf
    <3> QED
      BY <2>2, <3>1, <3>2 DEF Reads
  <2> QED
    BY <2>2, <2>3, <2>4 DEF Core
<1>5. CASE Crash(Server)
  BY <1>1, <1>3, <1>5, CrashType
<1>6. CASE Quiet
  BY <1>2, <1>6, QuietStep
<1>7. CASE Elsewhere
  BY <1>2, <1>7, ElsewhereStep
<1>8. ASSUME Write(Server)
      PROVE  TypeOK' /\ Stage'
  BY <1>8, WriteType, WriteMoves
<1>9. CASE WriteGrant(Server) /\ ~Stops
  <2>1. doing'.todo \in {<<"issue", "grant">>, <<"issue", "grant", "device">>, <<"device">>,
                         <<"sessions">>, <<"sessions", "credentials">>}
        /\ doing'.kind # "authenticate"
    BY <1>9, GrantMoves
  <2>2. Now(doing'.todo) # "grant" /\ doing'.todo # <<"grant">>
    BY <2>1, Heads, Zenon
  <2> QED
    BY <1>8, <1>9, <2>1, <2>2 DEF Write, Core, Carries, Reads
<1>10. CASE IssueCredential(Server)
  <2>1. doing'.snap \in Grant /\ doing'.cred \in Credential
    BY <1>10, IssueMoves
  <2> QED
    BY <1>8, <1>10, <2>1 DEF Write, Core, Carries, Reads
<1>11. CASE RevokeSessions(Server) /\ ~Stops
  <2>1. doing'.todo \in {<<"issue", "grant">>, <<"credentials">>, <<"remove">>}
        /\ doing'.kind # "authenticate"
    BY <1>11, SessionsMoves
  <2>2. Now(doing'.todo) # "grant" /\ doing'.todo # <<"grant">>
    BY <2>1, Heads, Zenon
  <2> QED
    BY <1>8, <1>11, <2>1, <2>2 DEF Write, Core, Carries, Reads
<1>12. CASE RevokeCredentials(Server) /\ ~Stops
  <2>1. doing'.todo = <<"sessions", "issue", "grant">> /\ doing'.kind # "authenticate"
    BY <1>12, CredentialsMoves
  <2>2. Now(doing'.todo) # "grant" /\ doing'.todo # <<"grant">>
    BY <2>1, Heads, Zenon
  <2> QED
    BY <1>8, <1>12, <2>1, <2>2 DEF Write, Core, Carries, Reads
<1>13. CASE WriteSession(Server)
  <2>1. At("authenticate", <<"session", "grant">>) /\ Goes(<<"grant">>)
    BY <1>13, OtherMoves
  <2>2. doing.cred \in Credential
    BY <2>1 DEF Core, Carries
  <2>3. doing.snap \in Grant
    BY <2>1 DEF Core, Reads
  <2> QED
    BY <1>8, <1>13, <2>1, <2>2, <2>3 DEF Write, Core, Carries, Reads
<1>14. CASE RemoveGrant(Server) \/ WriteDevice(Server) \/ Consume(Server)
  BY <1>3, <1>8, <1>14, OtherMoves DEF Write
<1> QED
  BY <1>3, <1>4, <1>5, <1>6, <1>7, <1>8, <1>9, <1>10, <1>11, <1>12, <1>13, <1>14 DEF Write

LEMMA AsideStep ==
    ASSUME Core, Aside, Begins \/ Write(Server) \/ Crash(Server) \/ Quiet \/ Elsewhere
    PROVE  Aside'
<1>1. TypeOK /\ proc \in [Process -> Locals]
  BY DoingType DEF Core
<1>2. ASSUME NEW r, proc' = [proc EXCEPT ![Server] = r]
      PROVE  Aside'
  BY <1>1, <1>2, DoingStep DEF Aside
<1>3. CASE Begins
  BY <1>2, <1>3 DEF Begins, Begun
<1>4. CASE Crash(Server)
  BY <1>2, <1>4 DEF Crash
<1>5. CASE Quiet
  BY <1>5, QuietStep DEF Aside
<1>6. CASE Elsewhere
  BY <1>6, ElsewhereStep
<1>7. CASE Written(Server)
  BY <1>2, <1>7 DEF Written
<1>8. CASE IssueCredential(Server)
  <2>1. PICK c : proc' = [proc EXCEPT ![Server].todo = Tail(proc[Server].todo),
                                      ![Server].snap = grant, ![Server].cred = c]
    BY <1>8 DEF IssueCredential
  <2>2. proc' = [proc EXCEPT ![Server] =
                   [proc[Server] EXCEPT !.todo = Tail(proc[Server].todo), !.snap = grant, !.cred = c]]
    BY <1>1, <2>1, DoingType DEF doing, Locals
  <2> QED
    BY <1>2, <2>2
<1> QED
  BY <1>3, <1>4, <1>5, <1>6, <1>7, <1>8
     DEF Write, WriteGrant, RevokeCredentials, RevokeSessions, RemoveGrant, WriteSession,
         WriteDevice, Consume

LEMMA OneLiveStep ==
    ASSUME Shared, Begins \/ Write(Server) \/ Crash(Server) \/ Quiet \/ Elsewhere
    PROVE  OneLive'
<1> USE DEF At, Goes, Stops
<1>1. Core /\ OneLive /\ (\A c, d \in Live : c = d)
  BY DEF Shared, OneLive
<1>2. ASSUME Live' \subseteq Live, ~Issuing', grant' \in Grant \cup {DeletedGrant} \/ grant' = grant
      PROVE  OneLive'
  <2>1. grant' = NoGrant => grant = NoGrant
    BY <1>2, GrantExists DEF NoGrant, DeletedGrant
  <2> QED
    BY <1>1, <1>2, <2>1 DEF OneLive
<1>3. ASSUME Live' = {}
      PROVE  OneLive'
  BY <1>3 DEF OneLive
<1>4. doing'.todo \in {<<>>, <<"grant">>, <<"device">>, <<"grant", "device">>, <<"sessions">>,
                       <<"sessions", "credentials">>, <<"credentials">>, <<"remove">>} => ~Issuing'
  BY Heads, Rests, Zenon DEF Issuing
<1>5. ASSUME cred' = cred
      PROVE  Live' = Live
  BY <1>5 DEF Live
<1>6. CASE Begins
  <2>1. PICK kind \in Kind, snap \in Grant \cup {NoGrant}, c \in Credential \cup {NoCredential} :
               Begun(kind, snap, c)
    BY <1>6 DEF Begins
  <2>2. doing'.todo = Program(kind) /\ cred' = cred /\ grant' = grant /\ kind # "none"
    BY <1>1, <2>1, BegunStep DEF Begun
  <2>3. CASE kind \in Creates
    <3>1. Live = {}
      BY <1>1, <2>1, <2>3 DEF Begun, OneLive
    <3> QED
      BY <1>3, <1>5, <2>2, <3>1
  <2>4. CASE kind \notin Creates
    <3>1. kind \in {"rotate", "pause", "resume", "revoke", "narrow", "delete", "authenticate",
                    "expire", "approved"}
      BY <2>2, <2>4 DEF Kind, Creates
    <3>2. ~Issuing'
      <4>1. kind # "delete" => Now(Program(kind)) \notin {"issue", "sessions"}
        BY <3>1, Heads, Zenon DEF Program
      <4>2. ~Ends(Program("delete")) /\ Rest(Program("delete")) = <<"remove">>
        BY Rests, Zenon DEF Program
      <4>3. Program(kind) \notin {<<"grant", "issue", "grant">>,
                                  <<"grant", "issue", "grant", "device">>}
        BY <3>1 DEF Program
      <4> QED
        BY <2>2, <4>1, <4>2, <4>3, Heads, Rests, Zenon DEF Issuing
    <3> QED
      BY <1>2, <1>5, <2>2, <3>2
  <2> QED
    BY <2>3, <2>4
<1>7. CASE Crash(Server)
  <2>1. cred' = cred /\ grant' = grant /\ doing'.todo = <<>>
    BY <1>1, <1>7, CrashType DEF Crash, Core
  <2> QED
    BY <1>2, <1>4, <1>5, <2>1
<1>8. CASE Quiet
  <2>1. doing' = doing /\ cred' = cred /\ grant' = grant
    BY <1>1, <1>8, QuietStep
  <2> QED
    BY <1>1, <1>5, <2>1 DEF OneLive, Issuing
<1>9. CASE Elsewhere
  <2>1. doing' = doing /\ cred' = cred /\ (grant' = grant \/ grant' \in Grant)
    BY <1>9, ElsewhereStep DEF Shared
  <2>2. CASE Issuing
    BY <1>1, <1>3, <1>5, <2>1, <2>2 DEF OneLive
  <2>3. CASE ~Issuing
    BY <1>2, <1>5, <2>1, <2>3 DEF Issuing
  <2> QED
    BY <2>2, <2>3
<1>10. CASE WriteGrant(Server)
  <2>1. cred' = cred /\ grant' \in Grant
    BY <1>1, <1>10, GrantMoves DEF WriteGrant
  <2>2. CASE At("create", <<"grant", "issue", "grant">>)
             \/ At("device", <<"grant", "issue", "grant", "device">>)
    <3>1. Live = {}
      BY <1>1, <2>2 DEF OneLive, Issuing
    <3> QED
      BY <1>3, <1>5, <2>1, <3>1
  <2>3. CASE ~(At("create", <<"grant", "issue", "grant">>)
               \/ At("device", <<"grant", "issue", "grant", "device">>))
    <3>1. doing'.todo \in {<<>>, <<"device">>, <<"sessions">>, <<"sessions", "credentials">>}
      BY <1>1, <1>10, <2>3, GrantMoves
    <3> QED
      BY <1>2, <1>4, <1>5, <2>1, <3>1
  <2> QED
    BY <2>2, <2>3
<1>11. CASE IssueCredential(Server)
  <2>1. PICK c \in Credential : cred[c] = "unused" /\ cred' = [cred EXCEPT ![c] = "live"]
    BY <1>1, <1>11, IssueMoves
  <2>2. Live = {} /\ ~Issuing'
    BY <1>1, <1>4, <1>11, IssueMoves DEF OneLive, Issuing
  <2>3. \A d \in Live' : d = c
    BY <1>1, <2>1, <2>2 DEF Live, Core, TypeOK
  <2>4. grant' # NoGrant
    BY <1>1, <1>11, IssueMoves, GrantExists DEF IssueCredential
  <2> QED
    BY <2>2, <2>3, <2>4 DEF OneLive
<1>12. CASE RevokeCredentials(Server)
  <2>1. Live' = {}
    BY <1>12 DEF RevokeCredentials, Live
  <2> QED
    BY <1>3, <2>1
<1>13. CASE RevokeSessions(Server)
  <2>1. cred' = cred /\ grant' = grant
    BY <1>13 DEF RevokeSessions
  <2>2. CASE At("rotate", <<"sessions", "issue", "grant">>)
    BY <1>1, <1>3, <1>5, <2>1, <2>2 DEF OneLive, Issuing
  <2>3. CASE ~At("rotate", <<"sessions", "issue", "grant">>)
    <3>1. doing'.todo \in {<<>>, <<"credentials">>, <<"remove">>}
      BY <1>1, <1>13, <2>3, SessionsMoves
    <3> QED
      BY <1>2, <1>4, <1>5, <2>1, <3>1
  <2> QED
    BY <2>2, <2>3
<1>14. CASE RemoveGrant(Server) \/ WriteDevice(Server) \/ Consume(Server) \/ WriteSession(Server)
  <2>1. cred' = cred /\ (grant' = grant \/ grant' = DeletedGrant)
    BY <1>14 DEF RemoveGrant, WriteDevice, Consume, WriteSession
  <2>2. doing'.todo \in {<<>>, <<"grant">>}
    BY <1>1, <1>14, OtherMoves
  <2> QED
    BY <1>2, <1>4, <1>5, <2>1, <2>2
<1> QED
  BY <1>6, <1>7, <1>8, <1>9, <1>10, <1>11, <1>12, <1>13, <1>14 DEF Write

LEMMA TokensStep ==
    ASSUME Shared, Begins \/ Write(Server) \/ Crash(Server) \/ Quiet \/ Elsewhere
    PROVE  Tokens'
<1> USE DEF At, Goes, Stops, Creates
<1>1. Core /\ Tokens /\ TypeOK
  BY DEF Shared, Core
<1>2. count.handed \in 0..MaxUses /\ device.handoff \in Credential \cup {NoCredential}
  BY <1>1 DEF TypeOK
<1>3. ASSUME UNCHANGED <<held, count>>, \A c \in Credential : cred[c] # "unused" => cred'[c] # "unused",
             \/ device' = device
             \/ device' = [device EXCEPT !.handoff = NoCredential] /\ device.handoff # NoCredential
             \/ device' = [device EXCEPT !.handoff = NoCredential] /\ doing'.kind = "none",
             \/ doing'.kind = doing.kind /\ doing'.cred = doing.cred
             \/ doing'.kind \notin Creates \cup {"rotate"}
      PROVE  Tokens'
  <2>1. /\ device'.status = device.status
        /\ device'.handoff = device.handoff \/ device'.handoff = NoCredential
    BY <1>1, <1>3 DEF TypeOK
  <2>2. held \subseteq Credential /\ doing.cred \in Credential \cup {NoCredential}
    BY <1>1, DoingType DEF TypeOK, Locals
  <2> QED
    BY <1>1, <1>2, <1>3, <2>1, <2>2 DEF Tokens
<1>4. CASE Begins
  <2>1. PICK kind \in Kind, snap \in Grant \cup {NoGrant}, c \in Credential \cup {NoCredential} :
               Begun(kind, snap, c)
    BY <1>4 DEF Begins
  <2>2. doing'.kind = kind /\ doing'.cred = c /\ UNCHANGED <<held, count, cred, device>>
    BY <1>1, <2>1, BegunStep DEF Begun
  <2>3. /\ kind = "device" => device.status = "pending"
        /\ kind \in Creates \cup {"rotate"} => c = NoCredential
    BY <2>1 DEF Begun
  <2> QED
    BY <1>1, <2>2, <2>3 DEF Tokens
<1>5. CASE Crash(Server)
  <2>1. Stops /\ UNCHANGED <<held, count, cred>>
        /\ device' = [device EXCEPT !.handoff = NoCredential]
    BY <1>1, <1>5, CrashType DEF Crash
  <2> QED
    BY <1>3, <2>1
<1>6. CASE Quiet
  <2>1. doing' = doing /\ cred' = cred
    BY <1>1, <1>6, QuietStep
  <2>2. Free(Server) => doing.kind = "none"
    BY <1>1, WritingStep, Spots, Heads, DoingType DEF Core, Locals
  <2>3. CASE RequestDevice \/ CloseDevice
    <3>1. /\ device.status \in {"none", "pending"} /\ device'.status \in {"pending", "closed"}
          /\ device.status = "none" \/ device'.status = "closed"
          /\ device'.handoff = device.handoff /\ UNCHANGED <<held, count>> /\ doing.kind = "none"
      BY <1>1, <2>2, <2>3 DEF RequestDevice, CloseDevice, TypeOK
    <3> QED
      BY <1>1, <2>1, <3>1 DEF Tokens
  <2>4. CASE Poll
    <3>1. /\ device.status = "approved" /\ device.handoff \in Credential
          /\ device.handoff # NoCredential /\ doing.kind = "none"
          /\ device' = [status |-> "closed", handoff |-> NoCredential]
          /\ count'.handed = count.handed + 1 /\ held' = held \cup {device.handoff}
      BY <1>1, <1>2, <2>2, <2>4 DEF Poll, TypeOK
    <3>2. count.handed = 0
      BY <1>1, <1>2, <3>1 DEF Tokens
    <3> QED
      BY <1>1, <2>1, <3>1, <3>2 DEF Tokens
  <2>5. CASE LoseHandoff
    <3>1. UNCHANGED <<held, count>> /\ device.handoff # NoCredential
          /\ device' = [device EXCEPT !.handoff = NoCredential]
      BY <2>5 DEF LoseHandoff
    <3> QED
      BY <1>3, <2>1, <3>1
  <2>6. ASSUME UNCHANGED <<held, device>>, count'.handed = count.handed
        PROVE  Tokens'
    BY <1>1, <2>1, <2>6 DEF Tokens
  <2>7. CASE \E v \in 1..MaxVersion : Approve(v) \/ Deny(v) \/ ApprovalExpires(v)
    BY <1>1, <2>6, <2>7 DEF Approve, Deny, ApprovalExpires, TypeOK
  <2>8. ASSUME NEW c \in Credential,
               \/ EndIdleSession(Server, c) \/ Allow(Server, c) \/ RequestApproval(Server, c)
               \/ Disconnect(Server, c)
        PROVE  Tokens'
    BY <1>1, <2>6, <2>8 DEF EndIdleSession, Allow, RequestApproval, Disconnect, TypeOK
  <2>9. CASE Tick
    BY <2>6, <2>9 DEF Tick
  <2> QED
    BY <1>6, <2>3, <2>4, <2>5, <2>7, <2>8, <2>9 DEF Quiet
<1>7. CASE Elsewhere
  <2>1. doing' = doing /\ UNCHANGED <<cred, device, held>> /\ count'.handed = count.handed
    BY <1>7, ElsewhereStep DEF Shared
  <2> QED
    BY <1>1, <2>1 DEF Tokens
<1>8. CASE WriteGrant(Server)
  <2>1. /\ UNCHANGED <<cred, device, count>>
        /\ Stops \/ (doing'.kind = doing.kind /\ doing'.cred = doing.cred)
    BY <1>1, <1>8, GrantMoves DEF WriteGrant
  <2>2. CASE held' = held
    BY <1>3, <2>1, <2>2
  <2>3. CASE /\ Ends(doing.todo) /\ doing.kind \in {"create", "rotate"}
             /\ held' = held \cup {doing.cred}
    <3>1. Stops
      BY <1>1, <1>8, <2>3, WrittenStep DEF WriteGrant
    <3>2. doing.todo = <<"grant">>
      BY <1>1, <1>8, <2>3, GrantMoves, Rests, Zenon
    <3>3. doing.cred # NoCredential
      BY <1>1, <2>3, <3>2, CredentialAssumption DEF Core, Carries
    <3> QED
      BY <1>1, <2>1, <2>3, <3>1, <3>3 DEF Tokens
  <2> QED
    BY <1>1, <1>8, <2>2, <2>3, WritingStep DEF WriteGrant, doing
<1>9. CASE IssueCredential(Server)
  <2>1. PICK c \in Credential :
          /\ cred[c] = "unused" /\ cred' = [cred EXCEPT ![c] = "live"]
          /\ doing'.kind = doing.kind /\ doing'.cred = c
    BY <1>1, <1>9, IssueMoves
  <2>2. UNCHANGED <<held, device, count>>
    BY <1>9 DEF IssueCredential
  <2>3. \A d \in Credential : cred[d] # "unused" => cred'[d] # "unused"
    BY <1>1, <2>1 DEF TypeOK
  <2>4. cred'[c] # "unused" /\ c # NoCredential
    BY <1>1, <2>1, CredentialAssumption DEF TypeOK
  <2>5. held \subseteq Credential
    BY <1>1 DEF TypeOK
  <2>6. c \notin held /\ c # device.handoff
    BY <1>1, <2>1, <2>4 DEF Tokens
  <2> QED
    BY <1>1, <1>2, <2>1, <2>2, <2>3, <2>4, <2>5, <2>6 DEF Tokens
<1>10. CASE RevokeCredentials(Server)
  <2>1. /\ UNCHANGED <<held, count, device>>
        /\ Stops \/ (doing'.kind = doing.kind /\ doing'.cred = doing.cred)
    BY <1>1, <1>10, CredentialsMoves DEF RevokeCredentials
  <2>2. \A c \in Credential : cred[c] # "unused" => cred'[c] # "unused"
    BY <1>10 DEF RevokeCredentials
  <2> QED
    BY <1>3, <2>1, <2>2
<1>11. CASE RevokeSessions(Server)
  <2>1. /\ UNCHANGED <<held, count, device, cred>>
        /\ Stops \/ (doing'.kind = doing.kind /\ doing'.cred = doing.cred)
    BY <1>1, <1>11, SessionsMoves DEF RevokeSessions
  <2> QED
    BY <1>3, <2>1
<1>12. CASE RemoveGrant(Server) \/ WriteSession(Server)
  <2>1. /\ UNCHANGED <<held, count, device, cred>>
        /\ Stops \/ (doing'.kind = doing.kind /\ doing'.cred = doing.cred)
    BY <1>1, <1>12, OtherMoves DEF RemoveGrant, WriteSession
  <2> QED
    BY <1>3, <2>1
<1>13. CASE WriteDevice(Server)
  <2>1. /\ UNCHANGED <<held, count, cred>> /\ doing.kind = "device" /\ Stops
        /\ device' = [status |-> "approved", handoff |-> doing.cred]
    BY <1>1, <1>13, OtherMoves DEF WriteDevice, doing
  <2>2. count.handed # 1
    BY <1>1, <2>1 DEF Tokens
  <2> QED
    BY <1>1, <2>1, <2>2 DEF Tokens
<1>14. CASE Consume(Server)
  <2>1. UNCHANGED <<held, device, cred>> /\ Stops /\ count'.handed = count.handed
    BY <1>1, <1>14, OtherMoves DEF Consume, TypeOK
  <2> QED
    BY <1>1, <2>1 DEF Tokens
<1> QED
  BY <1>4, <1>5, <1>6, <1>7, <1>8, <1>9, <1>10, <1>11, <1>12, <1>13, <1>14 DEF Write

LEMMA SharedInitially == ASSUME Init PROVE Shared
<1>1. TypeOK /\ (\A p \in Process : proc[p] = Idle) /\ doing = Idle
  BY IdleHelps DEF Init, TypeOK, Locals, doing
<1>2. doing.kind = "none" /\ doing.todo = <<>>
  BY <1>1 DEF Idle
<1>3. Core
  <2>1. Stage /\ Now(doing.todo) = "none"
    BY <1>2, Heads, RemainingOf DEF Stage
  <2> QED
    BY <1>1, <1>2, <2>1 DEF Core, Carries, Reads
<1>4. Aside
  BY <1>1, IdleHelps DEF Aside, Others
<1>5. Live = {}
  BY DEF Init, Live
<1>6. OneLive
  BY <1>5 DEF OneLive
<1>7. Tokens
  BY <1>2 DEF Init, Tokens, Creates
<1> QED
  BY <1>3, <1>4, <1>6, <1>7 DEF Shared

LEMMA SharedInductive == ASSUME Shared, [Next]_vars PROVE Shared'
<1>1. CASE UNCHANGED vars
  BY <1>1 DEF vars, Shared, Core, TypeOK, Stage, Carries, Reads, Aside, OneLive, Tokens, Live,
              Issuing, doing
<1>2. CASE Next
  <2>1. Begins \/ Write(Server) \/ Crash(Server) \/ Quiet \/ Elsewhere
    BY <1>2, NextCases DEF Shared, Core
  <2> QED
    BY <2>1, CoreStep, AsideStep, OneLiveStep, TokensStep DEF Shared
<1> QED
  BY <1>1, <1>2

LEMMA SharedInvariance == Spec => []Shared
<1>1. Init => Shared
  BY SharedInitially
<1>2. Shared /\ [Next]_vars => Shared'
  BY SharedInductive
<1> QED
  BY <1>1, <1>2, PTL DEF Spec

(* The types; every method that is under way is at one of its steps.       *)
THEOREM TypeCorrect == Spec => []TypeOK
<1>1. Shared => TypeOK
  BY DEF Shared, Core
<1> QED
  BY <1>1, SharedInvariance, PTL

(* One credential at most is usable, whatever interrupts a rotation and     *)
(* however many processes use the directory.                               *)
THEOREM OneLiveCredentialAlways == Spec => []OneLiveCredential
<1>1. Shared => OneLiveCredential
  <2> SUFFICES ASSUME Shared PROVE Cardinality(Live) <= 1
    BY DEF OneLiveCredential, Live
  <2>1. CASE Live = {}
    BY <2>1, FS_EmptySet
  <2>2. CASE Live # {}
    <3>1. PICK c \in Live : TRUE
      BY <2>2
    <3>2. Live = {c}
      BY <3>1 DEF Shared, OneLive
    <3>3. Cardinality({c}) = 1
      BY FS_Singleton
    <3> QED
      BY <3>2, <3>3
  <2> QED
    BY <2>1, <2>2
<1> QED
  BY <1>1, SharedInvariance, PTL

(* A device authorization hands its token over at most once.               *)
THEOREM DeviceTokenOnceAlways == Spec => []DeviceTokenOnce
<1>1. Shared => DeviceTokenOnce
  BY DEF Shared, Tokens, DeviceTokenOnce
<1> QED
  BY <1>1, SharedInvariance, PTL

-----------------------------------------------------------------------------
(* The steps of a server that is alone.                                    *)

LEMMA AloneCases ==
    ASSUME OneProcess, TypeOK, Next
    PROVE  Begins \/ Write(Server) \/ Crash(Server) \/ Quiet
<1>1. ~Elsewhere
  BY DEF Elsewhere, Others, OneProcess
<1> QED
  BY <1>1, NextCases

LEMMA BeginsAlone ==
    ASSUME OneProcess, IInv, NEW kind \in Kind, NEW snap \in Grant \cup {NoGrant},
           NEW c \in Credential \cup {NoCredential}, Begun(kind, snap, c)
    PROVE  Alone'
<1>1. /\ doing.kind = "none" /\ doing'.kind = kind /\ doing'.todo = Program(kind)
      /\ doing'.snap = snap /\ doing'.cred = c
  BY BegunStep DEF IInv, Shared
<1>2. UNCHANGED <<grant, cred, held, approval, count, told>> /\ (Exists' <=> Exists)
  BY DEF Begun, Exists
<1>3. Snapshots'
  <2>1. Now(Program("create")) = "grant" /\ Now(Program("device")) = "grant"
        /\ Now(Program("rotate")) # "grant" /\ Now(Program("delete")) # "grant"
    BY Heads, Zenon DEF Program
  <2>2. CASE kind \in Creates
    <3>1. grant = NoGrant /\ snap \in Grant /\ ~Exists
      BY <2>2 DEF Begun, Exists
    <3> QED
      BY <1>1, <1>2, <2>1, <2>2, <3>1 DEF Snapshots, Creates, At
  <2>3. CASE kind \notin Creates
    <3>1. Exists /\ (kind \notin {"rotate", "delete"} => MadeOf(kind, snap, grant) /\ snap \in Grant)
      BY <2>3 DEF Begun, MadeOf
    <3>2. kind \in {"authenticate", "approved"} => snap = grant
      BY DEF Begun
    <3> QED
      BY <1>1, <1>2, <2>1, <2>3, <3>1, <3>2 DEF Snapshots, Creates, MadeOf, At
  <2> QED
    BY <2>2, <2>3
<1>4. NothingYet'
  <2>1. grant = NoGrant => kind \in Creates
    BY DEF Begun, Exists
  <2> QED
    BY <1>1, <1>2, <2>1 DEF IInv, Alone, NothingYet
<1> QED
  BY <1>3, <1>4 DEF Alone

LEMMA QuietAlone ==
    ASSUME OneProcess, IInv, Quiet
    PROVE  Alone'
<1>1. doing' = doing /\ grant' = grant /\ cred' = cred
  BY QuietStep DEF IInv, Shared
<1>2. Exists' <=> Exists
  BY <1>1 DEF Exists
<1>3. Snapshots'
  BY <1>1, <1>2 DEF IInv, Alone, Snapshots, At
<1>4. NothingYet'
  <2> SUFFICES ASSUME grant = NoGrant
               PROVE  /\ held' = {} /\ \A v \in 1..MaxVersion : approval'[v] = "none"
                      /\ count'.used = 0 /\ ~told'.stopped
    BY <1>1, <1>2 DEF IInv, Alone, NothingYet
  <2>1. /\ held = {} /\ \A v \in 1..MaxVersion : approval[v] = "none"
        /\ count.used = 0 /\ ~told.stopped /\ \A c \in Credential : cred[c] = "unused"
        /\ ~Exists
    BY DEF IInv, Alone, NothingYet, Exists
  <2>2. device.handoff = NoCredential
    BY <2>1 DEF IInv, Shared, Core, TypeOK, Tokens
  <2> QED
    BY <2>1, <2>2 DEF Quiet, Approve, Deny, ApprovalExpires, RequestDevice, CloseDevice, Poll,
         LoseHandoff, Tick, EndIdleSession, Allow, RequestApproval, Disconnect, MayAct, Presented
<1> QED
  BY <1>3, <1>4 DEF Alone

LEMMA CrashAlone ==
    ASSUME OneProcess, IInv, Crash(Server)
    PROVE  Alone'
<1>1. Stops
  BY CrashType DEF IInv, Shared, Core
<1>2. Snapshots'
  BY <1>1 DEF Stops, Snapshots, At, Creates
<1>3. NothingYet'
  BY <1>1 DEF Stops, Crash, IInv, Alone, NothingYet
<1> QED
  BY <1>2, <1>3 DEF Alone

LEMMA WriteAlone ==
    ASSUME OneProcess, IInv, Write(Server)
    PROVE  Alone'
<1>1. Core /\ Alone
  BY DEF IInv, Shared
<1>2. doing.kind # "none"
  BY <1>1, WriteMoves
<1> USE DEF At, Goes, Stops, Creates, Bumps
<1>3. CASE Stops /\ (grant' = grant \/ grant' \in Grant \cup {DeletedGrant})
           /\ (Exists \/ grant' \in Grant)
  <2>1. Snapshots'
    BY <1>3 DEF Snapshots
  <2>2. NothingYet'
    BY <1>3, GrantExists DEF NothingYet, Exists, NoGrant, DeletedGrant
  <2> QED
    BY <1>2, <2>1, <2>2 DEF Alone
<1>4. CASE WriteGrant(Server)
  <2>1. grant' \in Grant /\ Exists' /\ grant' # NoGrant
    BY <1>1, <1>4, GrantMoves, GrantExists DEF Exists
  <2>2. CASE Stops
    BY <1>3, <2>1, <2>2
  <2>3. CASE ~Stops
    <3>1. /\ doing'.kind \in {"create", "device", "pause", "revoke"}
          /\ doing'.todo \in {<<"issue", "grant">>, <<"issue", "grant", "device">>, <<"device">>,
                              <<"sessions">>, <<"sessions", "credentials">>}
      BY <1>1, <1>4, <2>3, GrantMoves
    <3>2. Now(doing'.todo) # "grant" /\ doing'.todo # <<"grant">>
          /\ doing'.todo # <<"grant", "issue", "grant">>
          /\ doing'.todo # <<"grant", "issue", "grant", "device">>
      BY <3>1, Heads, Zenon
    <3>3. Snapshots' /\ NothingYet'
      BY <2>1, <3>1, <3>2 DEF Snapshots, NothingYet
    <3> QED
      BY <1>2, <3>3 DEF Alone
  <2> QED
    BY <2>2, <2>3
<1>5. CASE IssueCredential(Server)
  <2>1. /\ Exists /\ grant \in Grant /\ grant' = grant
        /\ doing'.kind \in {"create", "device", "rotate"} /\ doing'.snap = grant
        /\ doing'.cred \in Credential
        /\ doing'.todo \in {<<"grant">>, <<"grant", "device">>}
    BY <1>1, <1>5, IssueMoves DEF IssueCredential
  <2>2. doing'.todo # <<"grant", "issue", "grant">>
        /\ doing'.todo # <<"grant", "issue", "grant", "device">>
    <3>1. Ends(<<"grant">>) /\ ~Ends(<<"grant", "issue", "grant">>)
          /\ ~Ends(<<"grant", "issue", "grant", "device">>)
      BY Rests
    <3>2. Rest(<<"grant", "device">>) = <<"device">>
          /\ Rest(<<"grant", "issue", "grant">>) = <<"issue", "grant">>
          /\ Rest(<<"grant", "issue", "grant", "device">>) = <<"issue", "grant", "device">>
          /\ Ends(<<"device">>) /\ ~Ends(<<"issue", "grant">>)
          /\ ~Ends(<<"issue", "grant", "device">>)
      BY Rests
    <3> QED
      BY <2>1, <3>1, <3>2, Zenon
  <2>3. Exists' /\ MadeOf(doing'.kind, grant, grant)
    BY <2>1 DEF Exists, MadeOf, StatusOf
  <2>4. NothingYet'
    BY <2>1, <2>3 DEF NothingYet, Exists
  <2>5. Snapshots'
    BY <2>1, <2>2, <2>3 DEF Snapshots
  <2> QED
    BY <1>2, <2>4, <2>5 DEF Alone
<1>6. ASSUME grant' = grant, Exists, Goes(doing'.todo),
             doing'.todo \in {<<"issue", "grant">>, <<"credentials">>, <<"remove">>,
                              <<"sessions", "issue", "grant">>}
      PROVE  Alone'
  <2>1. Now(doing'.todo) # "grant" /\ doing'.todo # <<"grant">>
        /\ doing'.todo # <<"grant", "issue", "grant">>
        /\ doing'.todo # <<"grant", "issue", "grant", "device">>
    BY <1>6, Heads, Zenon
  <2>2. Exists' /\ grant # NoGrant
    BY <1>6 DEF Exists
  <2>3. Snapshots' /\ NothingYet'
    BY <1>1, <1>6, <2>1, <2>2 DEF Alone, Snapshots, NothingYet
  <2> QED
    BY <1>2, <2>3 DEF Alone
<1>7. ASSUME Now(doing.todo) # "grant"
      PROVE  Exists
  BY <1>2, <1>1, <1>7 DEF Alone, Snapshots
<1>8. CASE RevokeSessions(Server)
  <2>1. Exists
    BY <1>1, <1>7, <1>8, WritingStep DEF RevokeSessions, Core
  <2>2. \/ Stops
        \/ /\ doing'.todo \in {<<"issue", "grant">>, <<"credentials">>, <<"remove">>}
           /\ Goes(doing'.todo)
    BY <1>1, <1>8, SessionsMoves
  <2> QED
    BY <1>3, <1>6, <1>8, <2>1, <2>2 DEF RevokeSessions
<1>9. CASE RevokeCredentials(Server)
  <2>1. Exists
    BY <1>1, <1>7, <1>9, WritingStep DEF RevokeCredentials, Core
  <2>2. Stops \/ (doing'.todo = <<"sessions", "issue", "grant">> /\ Goes(doing'.todo))
    BY <1>1, <1>9, CredentialsMoves
  <2> QED
    BY <1>3, <1>6, <1>9, <2>1, <2>2 DEF RevokeCredentials
<1>10. CASE RemoveGrant(Server)
  <2>1. Exists /\ Stops
    BY <1>1, <1>7, <1>10, WritingStep, OtherMoves DEF RemoveGrant, Core
  <2> QED
    BY <1>3, <1>10, <2>1 DEF RemoveGrant
<1>11. CASE WriteSession(Server)
  <2>1. Exists /\ At("authenticate", <<"session", "grant">>) /\ Goes(<<"grant">>)
    BY <1>1, <1>7, <1>11, WritingStep, OtherMoves DEF WriteSession, Core
  <2>2. grant' = grant /\ doing.snap = grant /\ doing.cred \in Credential /\ grant \in Grant
    BY <1>1, <1>11, <2>1, ExistingIsGrant DEF WriteSession, Core, Alone, Snapshots, Carries
  <2>3. MadeOf("authenticate", grant, grant) /\ Exists' /\ grant # NoGrant
    BY <2>1, <2>2 DEF MadeOf, StatusOf, Exists
  <2>4. Snapshots' /\ NothingYet'
    BY <2>1, <2>2, <2>3 DEF Snapshots, NothingYet
  <2> QED
    BY <1>2, <2>4 DEF Alone
<1>12. CASE WriteDevice(Server)
  <2>1. Exists /\ Stops
    BY <1>1, <1>7, <1>12, WritingStep, OtherMoves DEF WriteDevice, Core
  <2> QED
    BY <1>3, <1>12, <2>1 DEF WriteDevice
<1>13. CASE Consume(Server)
  <2>1. Exists /\ Stops
    BY <1>1, <1>7, <1>13, WritingStep, OtherMoves DEF Consume, Core
  <2> QED
    BY <1>3, <1>13, <2>1 DEF Consume
<1> QED
  BY <1>4, <1>5, <1>8, <1>9, <1>10, <1>11, <1>12, <1>13 DEF Write

LEMMA StoppedStep ==
    ASSUME OneProcess, IInv, Begins \/ Write(Server) \/ Crash(Server) \/ Quiet
    PROVE  Stopped'
<1> USE DEF At, Goes, Stops, Creates
<1>1. Core /\ Shared /\ Alone /\ Stopped /\ TypeOK
  BY DEF IInv, Shared, Core
<1>2. ASSUME Stops, told'.stopped => session' = {} /\ grant'.status # "active"
      PROVE  Stopped'
  BY <1>2, Heads DEF Stopped
<1>3. CASE Begins
  <2>1. PICK kind \in Kind, snap \in Grant \cup {NoGrant}, c \in Credential \cup {NoCredential} :
               Begun(kind, snap, c)
    BY <1>3 DEF Begins
  <2>2. /\ doing'.kind = kind /\ doing'.todo = Program(kind)
        /\ UNCHANGED <<grant, session, told>>
        /\ kind \in {"authenticate", "approved"} => grant.status = "active"
    BY <1>1, <2>1, BegunStep DEF Begun
  <2>3. /\ Now(Program("pause")) = "grant" /\ Now(Program("revoke")) = "grant"
        /\ Program("delete") # <<"remove">>
    BY Heads, Zenon DEF Program
  <2>4. Now(<<"sessions">>) = "sessions" /\ Now(<<"credentials">>) = "credentials"
    BY Heads
  <2> QED
    BY <1>1, <2>2, <2>3, <2>4 DEF Stopped
<1>4. CASE Crash(Server)
  <2>1. Stops /\ UNCHANGED <<grant, session, told>>
    BY <1>1, <1>4, CrashType DEF Crash
  <2> QED
    BY <1>1, <1>2, <2>1 DEF Stopped
<1>5. CASE Quiet
  <2>1. doing' = doing /\ grant' = grant
    BY <1>1, <1>5, QuietStep
  <2>2. session' \subseteq session /\ told'.stopped = told.stopped
    BY <1>1, <1>5 DEF Quiet, Approve, Deny, ApprovalExpires, RequestDevice, CloseDevice, Poll, LoseHandoff,
         Tick, EndIdleSession, Allow, RequestApproval, Disconnect, Core, TypeOK
  <2> QED
    BY <1>1, <2>1, <2>2 DEF Stopped
<1>6. CASE WriteGrant(Server)
  <2>1. /\ grant' = doing.snap /\ session' = session /\ told' = ToldAfter(Server)
        /\ Now(doing.todo) = "grant" /\ doing.kind # "none"
    BY <1>1, <1>6, GrantMoves DEF WriteGrant
  <2>2. told'.stopped => told.stopped /\ doing.kind # "resume"
    <3>1. doing.kind \in {"pause", "revoke", "delete"} => ~Ends(doing.todo)
      BY <1>1, <1>6, GrantMoves, Rests
    <3> QED
      BY <1>1, <2>1, <3>1, ToldStep DEF Core
  <2>3. told.stopped => Exists /\ grant.status # "active" /\ session = {}
    BY <1>1, <2>1 DEF Stopped, Alone, Snapshots, NothingYet
  <2>4. Exists => grant'.status = StatusOf(doing.kind, grant)
    BY <1>1, <2>1 DEF Alone, Snapshots, MadeOf
  <2>5. doing.kind # "resume" /\ Exists /\ grant.status # "active" => grant'.status # "active"
    BY <2>4 DEF StatusOf
  <2>6. CASE Stops
    BY <1>2, <2>1, <2>2, <2>3, <2>5, <2>6
  <2>7. CASE Goes(doing'.todo) /\ doing.kind \in Creates
    BY <1>1, <2>1, <2>2, <2>3, <2>5, <2>7 DEF Stopped
  <2>8. CASE At("pause", <<"grant", "sessions">>) /\ Goes(<<"sessions">>)
    <3>1. grant'.status = "paused"
      BY <1>1, <2>1, <2>4, <2>8 DEF StatusOf, Alone, Snapshots
    <3> QED
      BY <1>1, <2>1, <2>2, <2>3, <2>8, <3>1 DEF Stopped
  <2>9. CASE At("revoke", <<"grant", "sessions", "credentials">>)
             /\ Goes(<<"sessions", "credentials">>)
    <3>1. grant'.status = "revoked"
      BY <1>1, <2>1, <2>4, <2>9 DEF StatusOf, Alone, Snapshots
    <3>2. <<"sessions", "credentials">> # <<"credentials">>
      BY Rests, Zenon
    <3> QED
      BY <1>1, <2>1, <2>2, <2>3, <2>9, <3>1, <3>2 DEF Stopped
  <2> QED
    BY <1>1, <1>6, <2>6, <2>7, <2>8, <2>9, GrantMoves
<1>7. CASE IssueCredential(Server)
  <2>1. UNCHANGED <<grant, session, told>> /\ doing'.kind = doing.kind
        /\ doing.kind \in {"create", "device", "rotate"}
    BY <1>1, <1>7, IssueMoves DEF IssueCredential
  <2> QED
    BY <1>1, <2>1 DEF Stopped
<1>8. CASE RevokeSessions(Server)
  <2>1. session' = {} /\ grant' = grant /\ told' = ToldAfter(Server)
    BY <1>8 DEF RevokeSessions
  <2>2. At("pause", <<"sessions">>) => grant.status = "paused"
    BY <1>1 DEF Stopped
  <2>3. At("revoke", <<"sessions", "credentials">>) => grant.status = "revoked"
    BY <1>1, Heads DEF Stopped
  <2>4. told'.stopped => told.stopped \/ doing.kind = "pause"
    <3>1. ~Ends(<<"sessions", "issue", "grant">>) /\ ~Ends(<<"sessions", "credentials">>)
          /\ ~Ends(<<"sessions", "remove">>)
      BY Rests
    <3> QED
      BY <1>1, <1>8, <2>1, <3>1, SessionsMoves, ToldStep DEF Core
  <2>5. told.stopped => grant.status # "active"
    BY <1>1 DEF Stopped
  <2>6. CASE At("pause", <<"sessions">>) /\ Stops
    BY <1>2, <2>1, <2>2, <2>6
  <2>7. CASE At("revoke", <<"sessions", "credentials">>) /\ Goes(<<"credentials">>)
    BY <2>1, <2>3, <2>4, <2>5, <2>7 DEF Stopped
  <2>8. CASE Goes(doing'.todo) /\ doing.kind \in {"rotate", "delete"}
    BY <2>1, <2>4, <2>5, <2>8 DEF Stopped
  <2> QED
    BY <1>1, <1>8, <2>6, <2>7, <2>8, SessionsMoves
<1>9. CASE RevokeCredentials(Server)
  <2>1. session' = session /\ grant' = grant /\ told' = ToldAfter(Server)
    BY <1>9 DEF RevokeCredentials
  <2>2. CASE At("revoke", <<"credentials">>) /\ Stops
    <3>1. session = {} /\ grant.status = "revoked"
      BY <1>1, <2>2, Heads DEF Stopped
    <3> QED
      BY <1>2, <2>1, <2>2, <3>1
  <2>3. CASE doing.kind = "rotate" /\ Goes(doing'.todo)
    <3>1. told'.stopped = told.stopped
      BY <1>1, <2>1, <2>3, ToldStep DEF Core
    <3> QED
      BY <1>1, <2>1, <2>3, <3>1 DEF Stopped
  <2> QED
    BY <1>1, <1>9, <2>2, <2>3, CredentialsMoves
<1>10. CASE RemoveGrant(Server)
  <2>1. session' = session /\ grant' = DeletedGrant /\ At("delete", <<"remove">>) /\ Stops
    BY <1>1, <1>10, OtherMoves DEF RemoveGrant
  <2>2. session = {} /\ grant'.status # "active"
    BY <1>1, <2>1 DEF Stopped, DeletedGrant
  <2> QED
    BY <1>2, <2>1, <2>2
<1>11. CASE WriteSession(Server)
  <2>1. grant' = grant /\ told' = told /\ doing.kind = "authenticate" /\ doing'.kind = doing.kind
    BY <1>1, <1>11, OtherMoves DEF WriteSession
  <2> QED
    BY <1>1, <2>1 DEF Stopped
<1>12. CASE WriteDevice(Server) \/ Consume(Server)
  <2>1. Stops /\ UNCHANGED <<grant, told, session>>
    BY <1>1, <1>12, OtherMoves DEF WriteDevice, Consume
  <2> QED
    BY <1>1, <1>2, <2>1 DEF Stopped
<1> QED
  BY <1>3, <1>4, <1>5, <1>6, <1>7, <1>8, <1>9, <1>10, <1>11, <1>12 DEF Write

LEMMA ApprovedFinite ==
    /\ IsFiniteSet(Approved) /\ Cardinality(Approved) \in Nat
    /\ IsFiniteSet(Approved') /\ Cardinality(Approved') \in Nat
<1>1. IsFiniteSet(1..MaxVersion)
  BY FS_Interval
<1>2. IsFiniteSet(Approved) /\ IsFiniteSet(Approved')
  BY <1>1, FS_Subset DEF Approved
<1> QED
  BY <1>2, FS_CardinalityType

LEMMA BackedStep ==
    ASSUME OneProcess, IInv, Begins \/ Write(Server) \/ Crash(Server) \/ Quiet
    PROVE  Backed'
<1> USE DEF At, Goes, Stops, Creates
<1>1. Core /\ Shared /\ Alone /\ Backed /\ TypeOK
  BY DEF IInv, Shared, Core
<1>2. count.used \in Nat /\ count.given \in Nat
  BY <1>1 DEF TypeOK
<1> DEFINE Sum == count.used + Cardinality(Approved) <= count.given
<1>3. ASSUME (Exists' /\ grant'.asks) => Sum', doing'.kind # "approved"
      PROVE  Backed'
  BY <1>3 DEF Backed
<1>4. ASSUME count' = count, Approved' \subseteq Approved, Sum
      PROVE  Sum'
  <2>1. Cardinality(Approved') <= Cardinality(Approved)
    BY <1>4, ApprovedFinite, FS_Subset
  <2> QED
    BY <1>2, <1>4, <2>1, ApprovedFinite
<1>5. ASSUME approval' = approval
      PROVE  Approved' = Approved
  BY <1>5 DEF Approved
<1> HIDE DEF Sum
<1>6. Exists /\ grant.asks => Sum
  BY <1>1 DEF Backed, Sum
<1>7. CASE Begins
  <2>1. PICK kind \in Kind, snap \in Grant \cup {NoGrant}, c \in Credential \cup {NoCredential} :
               Begun(kind, snap, c)
    BY <1>7 DEF Begins
  <2>2. doing'.kind = kind /\ UNCHANGED <<grant, approval, count>>
    BY <1>1, <2>1, BegunStep DEF Begun
  <2>3. Approved' = Approved
    BY <1>5, <2>2
  <2>4. kind = "approved" => grant.asks /\ grant.version \in Approved
    BY <2>1 DEF Begun
  <2> QED
    BY <1>1, <2>2, <2>3, <2>4 DEF Backed, Exists
<1>8. CASE Crash(Server)
  <2>1. Stops /\ UNCHANGED <<grant, approval, count>>
    BY <1>1, <1>8, CrashType DEF Crash
  <2> QED
    BY <1>3, <1>4, <1>5, <1>6, <2>1 DEF Exists
<1>9. CASE Quiet
  <2>1. doing' = doing /\ grant' = grant /\ (Exists' <=> Exists)
    BY <1>1, <1>9, QuietStep DEF Exists
  <2>2. CASE \E v \in 1..MaxVersion : Approve(v)
    <3>1. PICK v \in 1..MaxVersion : Approve(v)
      BY <2>2
    <3>2. doing.kind # "approved"
      BY <3>1, <1>1, WritingStep, Spots, Heads, DoingType DEF Approve, Core, Locals
    <3>3. Approved' \subseteq Approved \cup {v} /\ v \notin Approved
      BY <1>1, <3>1 DEF Approve, Approved, TypeOK
    <3>4. Cardinality(Approved \cup {v}) = Cardinality(Approved) + 1
          /\ IsFiniteSet(Approved \cup {v})
      BY <3>3, ApprovedFinite, FS_AddElement
    <3>5. Cardinality(Approved') <= Cardinality(Approved) + 1
      BY <3>3, <3>4, FS_Subset
    <3>6. count'.given = count.given + 1 /\ count'.used = count.used
      BY <1>1, <3>1 DEF Approve, TypeOK
    <3>7. Sum => Sum'
      BY <1>2, <3>5, <3>6, ApprovedFinite DEF Sum
    <3> QED
      BY <1>3, <1>6, <2>1, <3>2, <3>7
  <2>3. CASE \E v \in 1..MaxVersion : Deny(v) \/ ApprovalExpires(v)
    <3>1. PICK v \in 1..MaxVersion : Deny(v) \/ ApprovalExpires(v)
      BY <2>3
    <3>2. Free(Server) /\ count' = count
      BY <3>1, ServerAssumption DEF Deny, ApprovalExpires
    <3>3. doing.kind # "approved"
      BY <3>2, <1>1, WritingStep, Spots, Heads, DoingType DEF Core, Locals
    <3>4. Approved' \subseteq Approved
      BY <1>1, <3>1 DEF Deny, ApprovalExpires, Approved, TypeOK
    <3> QED
      BY <1>3, <1>4, <1>6, <2>1, <3>2, <3>3, <3>4
  <2>4. ASSUME NEW c \in Credential, RequestApproval(Server, c)
        PROVE  Backed'
    <3>1. Free(Server) /\ count' = count
      BY <2>4 DEF RequestApproval, MayAct
    <3>2. doing.kind # "approved"
      BY <3>1, <1>1, WritingStep, Spots, Heads, DoingType DEF Core, Locals
    <3>3. Approved' \subseteq Approved
      BY <1>1, <2>4 DEF RequestApproval, Approved, TypeOK
    <3> QED
      BY <1>3, <1>4, <1>6, <2>1, <3>1, <3>2, <3>3
  <2>5. ASSUME NEW c \in Credential, Allow(Server, c)
        PROVE  Backed'
    <3>1. Free(Server) /\ ~grant.asks
      BY <2>5 DEF Allow, MayAct
    <3>2. doing.kind # "approved"
      BY <3>1, <1>1, WritingStep, Spots, Heads, DoingType DEF Core, Locals
    <3> QED
      BY <1>3, <2>1, <3>1, <3>2
  <2>6. ASSUME approval' = approval, count'.used = count.used, count'.given = count.given
        PROVE  Backed'
    <3>1. Approved' = Approved
      BY <1>5, <2>6
    <3> QED
      BY <1>1, <2>1, <2>6, <3>1 DEF Backed
  <2>7. CASE Poll
    BY <1>1, <2>6, <2>7 DEF Poll, TypeOK
  <2>8. CASE RequestDevice \/ CloseDevice \/ LoseHandoff \/ Tick
    BY <2>6, <2>8 DEF RequestDevice, CloseDevice, LoseHandoff, Tick
  <2>9. ASSUME NEW c \in Credential, EndIdleSession(Server, c) \/ Disconnect(Server, c)
        PROVE  Backed'
    BY <2>6, <2>9 DEF EndIdleSession, Disconnect
  <2> QED
    BY <1>9, <2>2, <2>3, <2>4, <2>5, <2>7, <2>8, <2>9 DEF Quiet
<1>10. CASE WriteGrant(Server)
  <2>1. /\ grant' = doing.snap /\ count' = count /\ approval' = approval
        /\ Now(doing.todo) = "grant" /\ doing.kind # "none" /\ doing'.kind # "approved"
    BY <1>1, <1>10, GrantMoves DEF WriteGrant
  <2>2. Approved' = Approved
    BY <1>5, <2>1
  <2>3. CASE Exists
    <3>1. grant'.asks = grant.asks
      BY <1>1, <2>1, <2>3 DEF Alone, Snapshots, MadeOf
    <3> QED
      BY <1>3, <1>4, <1>6, <2>1, <2>2, <2>3, <3>1
  <2>4. CASE ~Exists
    <3>1. grant = NoGrant
      BY <1>1, <2>1, <2>4 DEF Alone, Snapshots
    <3>2. count.used = 0 /\ Approved = {}
      BY <1>1, <3>1 DEF Alone, NothingYet, Approved
    <3>3. Cardinality(Approved) = 0
      BY <3>2, FS_EmptySet
    <3>4. Sum
      BY <1>2, <3>2, <3>3 DEF Sum
    <3> QED
      BY <1>3, <1>4, <2>1, <2>2, <3>4
  <2> QED
    BY <2>3, <2>4
<1>11. CASE Consume(Server)
  <2>1. At("approved", <<"consume">>) /\ Stops /\ doing.snap = grant
    BY <1>1, <1>11, OtherMoves DEF Alone, Snapshots
  <2>2. grant' = grant /\ count'.used = count.used + 1 /\ count'.given = count.given
    BY <1>1, <1>11 DEF Consume, TypeOK
  <2>3. grant.version \in Approved /\ Approved' = Approved \ {grant.version}
    <3>1. grant.version \in Approved
      BY <1>1, <2>1 DEF Backed
    <3>2. approval' = [approval EXCEPT ![grant.version] = "none"]
      BY <1>11, <2>1 DEF Consume, doing
    <3> QED
      BY <1>1, <3>1, <3>2 DEF Approved, TypeOK
  <2>4. Cardinality(Approved') = Cardinality(Approved) - 1
    BY <2>3, ApprovedFinite, FS_RemoveElement
  <2>5. Sum => Sum'
    BY <1>2, <2>2, <2>4, ApprovedFinite DEF Sum
  <2> QED
    BY <1>3, <1>6, <2>1, <2>2, <2>5 DEF Exists
<1>12. ASSUME grant' = grant \/ ~Exists', approval' = approval, count' = count,
              doing.kind # "approved", doing'.kind \in {doing.kind, "none"}
       PROVE  Backed'
  <2>1. Approved' = Approved
    BY <1>5, <1>12
  <2> QED
    BY <1>3, <1>4, <1>6, <1>12, <2>1 DEF Exists
<1>13. CASE IssueCredential(Server) \/ RevokeCredentials(Server) \/ RevokeSessions(Server)
  BY <1>1, <1>12, <1>13, IssueMoves, CredentialsMoves, SessionsMoves
     DEF IssueCredential, RevokeCredentials, RevokeSessions
<1>14. CASE RemoveGrant(Server) \/ WriteSession(Server) \/ WriteDevice(Server)
  BY <1>1, <1>12, <1>14, OtherMoves DEF RemoveGrant, WriteSession, WriteDevice, Exists
<1> QED
  BY <1>7, <1>8, <1>9, <1>10, <1>11, <1>13, <1>14 DEF Write

LEMMA FreshStep ==
    ASSUME OneProcess, IInv, Begins \/ Write(Server) \/ Crash(Server) \/ Quiet
    PROVE  Fresh'
<1> USE DEF At, Goes, Stops, Creates
<1>1. Core /\ Shared /\ Alone /\ Fresh /\ TypeOK
  BY DEF IInv, Shared, Core
<1>2. Exists => grant \in Grant /\ grant.version \in 1..MaxVersion
  BY <1>1, ExistingIsGrant DEF Grant
<1>3. ASSUME grant' = grant, told'.approved = told.approved,
             \A v \in 1..MaxVersion : approval'[v] \in {approval[v], "none"},
             Restricts(doing'.kind) /\ Now(doing'.todo) # "grant" =>
                Restricts(doing.kind) /\ Now(doing.todo) # "grant"
      PROVE  Fresh'
  BY <1>1, <1>2, <1>3 DEF Fresh, Approved, Exists
<1>4. ~Restricts("none") /\ Now(<<>>) = "none"
  BY Heads DEF Restricts
<1>5. CASE Begins
  <2>1. PICK kind \in Kind, snap \in Grant \cup {NoGrant}, c \in Credential \cup {NoCredential} :
               Begun(kind, snap, c)
    BY <1>5 DEF Begins
  <2>2. doing'.kind = kind /\ doing'.todo = Program(kind) /\ UNCHANGED <<grant, approval, told>>
    BY <1>1, <2>1, BegunStep DEF Begun
  <2>3. Restricts(kind) => Now(Program(kind)) = "grant"
    BY Heads, Zenon DEF Restricts, Program
  <2> QED
    BY <1>3, <2>2, <2>3
<1>6. CASE Crash(Server)
  <2>1. Stops /\ UNCHANGED <<grant, approval, told>>
    BY <1>1, <1>6, CrashType DEF Crash
  <2> QED
    BY <1>3, <1>4, <2>1
<1>7. CASE Quiet
  <2>1. doing' = doing /\ grant' = grant
    BY <1>1, <1>7, QuietStep
  <2>2. Free(Server) => ~Restricts(doing.kind)
    BY <1>1, <1>4, WritingStep, Spots, Heads, DoingType DEF Core, Locals
  <2>3. CASE \E v \in 1..MaxVersion : Approve(v)
    <3>1. PICK v \in 1..MaxVersion : Approve(v)
      BY <2>3
    <3>2. told'.approved /\ ~Restricts(doing.kind)
      BY <1>1, <2>2, <3>1 DEF Approve, TypeOK
    <3>3. \A w \in 1..MaxVersion : approval[w] = "none" => approval'[w] = "none"
      BY <1>1, <3>1 DEF Approve, TypeOK
    <3> QED
      BY <1>1, <1>2, <2>1, <3>2, <3>3 DEF Fresh, Exists
  <2>4. ASSUME NEW c \in Credential, RequestApproval(Server, c)
        PROVE  Fresh'
    <3>1. /\ told' = told /\ ~Restricts(doing.kind) /\ Exists
          /\ approval' = [approval EXCEPT ![grant.version] = "pending"]
      BY <2>2, <2>4 DEF RequestApproval, MayAct
    <3>2. \A v \in 1..MaxVersion : v > grant.version => approval'[v] = "none"
      BY <1>1, <1>2, <3>1 DEF Fresh, TypeOK
    <3>3. approval'[grant.version] = "pending"
      BY <1>1, <1>2, <3>1 DEF TypeOK
    <3> QED
      BY <2>1, <3>1, <3>2, <3>3 DEF Fresh, Approved
  <2>5. CASE /\ told' = told /\ ~\E c \in Credential : RequestApproval(Server, c)
             /\ ~\E v \in 1..MaxVersion : Approve(v)
    <3>1. \A v \in 1..MaxVersion : approval'[v] \in {approval[v], "none"}
      <4>1. CASE \E v \in 1..MaxVersion : approval' = [approval EXCEPT ![v] = "none"]
        BY <1>1, <4>1 DEF TypeOK
      <4>2. CASE approval' = approval
        BY <4>2
      <4> QED
        BY <1>7, <2>5, <4>1, <4>2
           DEF Quiet, Deny, ApprovalExpires, RequestDevice, CloseDevice, Poll,
               LoseHandoff, Tick, EndIdleSession, Allow, Disconnect
    <3> QED
      BY <1>3, <2>1, <2>5, <3>1
  <2>6. told' = told \/ \E v \in 1..MaxVersion : Approve(v)
    BY <1>7 DEF Quiet, Deny, ApprovalExpires, RequestDevice, CloseDevice, Poll,
         LoseHandoff, Tick, EndIdleSession, Allow, RequestApproval, Disconnect
  <2> QED
    BY <2>3, <2>4, <2>5, <2>6
<1>8. CASE WriteGrant(Server)
  <2>1. /\ grant' = doing.snap /\ approval' = approval /\ told' = ToldAfter(Server)
        /\ Now(doing.todo) = "grant" /\ doing.kind # "none" /\ doing.snap \in Grant
        /\ doing'.kind \in {doing.kind, "none"}
    BY <1>1, <1>8, GrantMoves DEF WriteGrant
  <2>2. told'.approved = (told.approved /\ ~Restricts(doing.kind))
    BY <1>1, <2>1, ToldStep
  <2>3. grant'.version \in 1..MaxVersion
    BY <2>1 DEF Grant
  <2>4. ASSUME \A v \in 1..MaxVersion : v >= grant'.version => approval[v] = "none"
        PROVE  Fresh'
    BY <2>1, <2>3, <2>4 DEF Fresh, Approved
  <2>5. CASE ~Exists
    <3>1. \A v \in 1..MaxVersion : approval[v] = "none"
      BY <1>1, <2>1, <2>5 DEF Alone, Snapshots, NothingYet
    <3> QED
      BY <2>4, <3>1
  <2>6. CASE Exists /\ doing.kind \in Bumps
    <3>1. grant'.version = grant.version + 1
      BY <1>1, <2>1, <2>6 DEF Alone, Snapshots, MadeOf
    <3>2. \A v \in 1..MaxVersion : v > grant.version => approval[v] = "none"
      BY <1>1, <2>6 DEF Fresh
    <3> QED
      BY <1>2, <2>4, <2>6, <3>1, <3>2
  <2>7. CASE Exists /\ doing.kind \notin Bumps
    <3>1. grant'.version = grant.version
      BY <1>1, <2>1, <2>7 DEF Alone, Snapshots, MadeOf
    <3>2. ~Restricts(doing.kind) /\ ~Restricts(doing'.kind)
      BY <1>4, <2>1, <2>7 DEF Bumps, Restricts
    <3> QED
      BY <1>1, <2>1, <2>2, <2>7, <3>1, <3>2 DEF Fresh, Approved
  <2> QED
    BY <2>5, <2>6, <2>7
<1>9. CASE IssueCredential(Server)
  <2>1. UNCHANGED <<grant, approval, told>> /\ doing'.kind \in {"create", "device", "rotate"}
    BY <1>1, <1>9, IssueMoves DEF IssueCredential
  <2>2. ~Restricts(doing'.kind)
    BY <2>1 DEF Restricts
  <2> QED
    BY <1>3, <2>1, <2>2
<1>10. CASE RevokeSessions(Server) \/ RevokeCredentials(Server) \/ RemoveGrant(Server)
  <2>1. /\ approval' = approval /\ told' = ToldAfter(Server)
        /\ Now(doing.todo) # "grant" /\ doing'.kind \in {doing.kind, "none"}
        /\ grant' = grant \/ ~Exists'
    <3>1. Now(doing.todo) \in {"sessions", "credentials", "remove"}
      BY <1>1, <1>10, WritingStep DEF RevokeSessions, RevokeCredentials, RemoveGrant
    <3>2. doing'.kind \in {doing.kind, "none"}
      BY <1>1, <1>10, SessionsMoves, CredentialsMoves, OtherMoves
    <3> QED
      BY <1>10, <3>1, <3>2 DEF RevokeSessions, RevokeCredentials, RemoveGrant, Exists
  <2>2. told'.approved = (told.approved /\ ~Restricts(doing.kind))
    BY <1>1, <2>1, ToldStep
  <2>3. CASE ~Exists'
    BY <2>3 DEF Fresh
  <2>4. CASE grant' = grant
    <3>1. Exists' <=> Exists
      BY <2>4 DEF Exists
    <3> QED
      BY <1>1, <1>4, <2>1, <2>2, <2>4, <3>1 DEF Fresh, Approved
  <2> QED
    BY <2>1, <2>3, <2>4
<1>11. CASE WriteSession(Server) \/ WriteDevice(Server)
  <2>1. UNCHANGED <<grant, approval, told>> /\ doing'.kind \in {"authenticate", "none"}
    BY <1>1, <1>11, OtherMoves DEF WriteSession, WriteDevice
  <2>2. ~Restricts(doing'.kind)
    BY <2>1 DEF Restricts
  <2> QED
    BY <1>3, <2>1, <2>2
<1>12. CASE Consume(Server)
  <2>1. grant' = grant /\ told' = told /\ Stops
    BY <1>1, <1>12, OtherMoves DEF Consume
  <2>2. \A v \in 1..MaxVersion : approval'[v] \in {approval[v], "none"}
    BY <1>1, <1>12 DEF Consume, TypeOK
  <2> QED
    BY <1>3, <1>4, <2>1, <2>2
<1> QED
  BY <1>5, <1>6, <1>7, <1>8, <1>9, <1>10, <1>11, <1>12 DEF Write

LEMMA Inductive == ASSUME OneProcess, IInv, [Next]_vars PROVE IInv'
<1>1. CASE UNCHANGED vars
  <2>1. Shared'
    BY <1>1, SharedInductive DEF IInv
  <2> QED
    BY <1>1, <2>1 DEF vars, IInv, Alone, Snapshots, NothingYet, Stopped, Backed, Fresh, At, Approved,
                      Exists, doing
<1>2. CASE Next
  <2>1. Begins \/ Write(Server) \/ Crash(Server) \/ Quiet
    BY <1>2, AloneCases DEF IInv, Shared, Core
  <2>2. Shared'
    BY <1>2, SharedInductive DEF IInv
  <2>3. Alone'
    BY <2>1, BeginsAlone, WriteAlone, CrashAlone, QuietAlone DEF Begins
  <2> QED
    BY <2>1, <2>2, <2>3, StoppedStep, BackedStep, FreshStep DEF IInv
<1> QED
  BY <1>1, <1>2

LEMMA Initially == ASSUME Init PROVE IInv
<1>1. Shared
  BY SharedInitially
<1>2. doing = Idle
  BY DEF Init, doing
<1>3. doing.kind = "none" /\ doing.todo = <<>>
  BY <1>2 DEF Idle
<1>4. Approved = {} /\ ~Exists
  BY DEF Init, Approved, Exists
<1>5. Alone
  BY <1>3, <1>4 DEF Init, Alone, Snapshots, NothingYet, At, Creates
<1>6. Stopped /\ Backed /\ Fresh
  BY <1>3, <1>4 DEF Init, Stopped, Backed, Fresh, At
<1> QED
  BY <1>1, <1>5, <1>6 DEF IInv

LEMMA Invariance == OneProcess => (Spec => []IInv)
<1> SUFFICES ASSUME OneProcess PROVE Spec => []IInv
  OBVIOUS
<1>1. Init => IInv
  BY Initially
<1>2. IInv /\ [Next]_vars => IInv'
  BY Inductive
<1> QED
  BY <1>1, <1>2, PTL DEF Spec

(* Stopping a grant ends its sessions, and none is opened before it is      *)
(* resumed.                                                                *)
THEOREM SessionsEndedAlways == OneProcess => (Spec => []SessionsEnded)
<1>1. IInv => SessionsEnded
  BY DEF IInv, Stopped, SessionsEnded
<1> QED
  BY <1>1, Invariance, PTL

(* No more operations pass than approvals were given.                      *)
THEOREM ApprovalUsedOnceAlways == OneProcess => (Spec => []ApprovalUsedOnce)
<1>1. IInv => ApprovalUsedOnce
  <2> SUFFICES ASSUME IInv, Exists, grant.asks PROVE count.used <= count.given
    BY DEF ApprovalUsedOnce
  <2>1. count.used + Cardinality(Approved) <= count.given
    BY DEF IInv, Backed
  <2>2. count.used \in Nat /\ count.given \in Nat
    BY DEF IInv, Shared, Core, TypeOK
  <2> QED
    BY <2>1, <2>2, ApprovedFinite
<1> QED
  BY <1>1, Invariance, PTL

(* What a step that authorizes an operation is.                            *)
LEMMA AuthorizedStep ==
    ASSUME OneProcess, IInv, Next, Authorized
    PROVE  \/ \E c \in Credential : Allow(Server, c)
           \/ Consume(Server)
<1>1. count \in [given : 0..MaxUses, used : 0..MaxUses, handed : 0..MaxUses]
  BY DEF IInv, Shared, Core, TypeOK
<1>2. count'.used # count.used
  BY <1>1 DEF Authorized
<1>3. CASE Begins
  BY <1>2, <1>3 DEF Begins, Begun
<1>4. CASE Write(Server)
  BY <1>2, <1>4 DEF Write, WriteGrant, IssueCredential, RevokeCredentials, RevokeSessions,
                    RemoveGrant, WriteSession, WriteDevice
<1>5. CASE Crash(Server)
  BY <1>2, <1>5 DEF Crash
<1>6. CASE Quiet
  <2>1. ASSUME count' = [count EXCEPT !.given = @ + 1] \/ count' = [count EXCEPT !.handed = @ + 1]
        PROVE  FALSE
    BY <1>1, <1>2, <2>1
  <2> QED
    BY <1>2, <1>6, <2>1
       DEF Quiet, Approve, Deny, ApprovalExpires, RequestDevice, CloseDevice, Poll, LoseHandoff,
           Tick, EndIdleSession, RequestApproval, Disconnect
<1> QED
  BY <1>3, <1>4, <1>5, <1>6, AloneCases DEF IInv, Shared, Core

(* Between the answer of a pause, revoke or delete and a later resume       *)
(* nothing is authorized.                                                  *)
THEOREM StopTakesEffectAlways == OneProcess => (Spec => StopTakesEffect)
<1> SUFFICES ASSUME OneProcess PROVE Spec => StopTakesEffect
  OBVIOUS
<1>1. IInv /\ [Next]_vars => [Authorized => ~told.stopped]_vars
  <2> SUFFICES ASSUME IInv, Next, Authorized PROVE ~told.stopped
    OBVIOUS
  <2>1. CASE \E c \in Credential : Allow(Server, c)
    BY <2>1 DEF Allow, MayAct, IInv, Stopped
  <2>2. CASE Consume(Server)
    <3>1. doing.kind = "approved"
      BY <2>2, OtherMoves DEF IInv, Shared, At
    <3> QED
      BY <3>1 DEF IInv, Stopped
  <2> QED
    BY <2>1, <2>2, AuthorizedStep
<1> QED
  BY <1>1, Invariance, PTL DEF Spec, StopTakesEffect

(* No operation passes on an approval that is older than the last change    *)
(* that narrows the grant.                                                 *)
THEOREM ApprovalIsFreshAlways == OneProcess => (Spec => ApprovalIsFresh)
<1> SUFFICES ASSUME OneProcess PROVE Spec => ApprovalIsFresh
  OBVIOUS
<1>1. IInv /\ [Next]_vars => [Authorized /\ grant.asks => told.approved]_vars
  <2> SUFFICES ASSUME IInv, Next, Authorized, grant.asks PROVE told.approved
    OBVIOUS
  <2>1. CASE \E c \in Credential : Allow(Server, c)
    BY <2>1 DEF Allow
  <2>2. CASE Consume(Server)
    <3>1. At("approved", <<"consume">>) /\ Now(doing.todo) = "consume"
      BY <2>2, OtherMoves, Heads DEF IInv, Shared, At
    <3>2. Exists
      BY <3>1 DEF IInv, Alone, Snapshots, At
    <3> QED
      BY <3>1, <3>2 DEF IInv, Backed, Fresh, At
  <2> QED
    BY <2>1, <2>2, AuthorizedStep
<1> QED
  BY <1>1, Invariance, PTL DEF Spec, ApprovalIsFresh

=============================================================================

----------------------------- MODULE PDFPreview -----------------------------
(***************************************************************************)
(* PDF previews: the lease that a view creates, renews and releases           *)
(* (web/src/diffshub/gitna/PDFPreview.tsx), and the grants of the server       *)
(* (internal/server/pdf_previews.go).                                          *)
(*                                                                         *)
(* Requests and answers overtake each other.  Client and server run on one     *)
(* machine and read one clock; a timer fires when it is due or later.  The      *)
(* file, its name and the two origins are left out.                           *)
(***************************************************************************)
EXTENDS Naturals, Sequences, FiniteSets, SequencesExt

CONSTANTS
  Views,          \* previews that may be open
  LeaseTime,      \* pdfLeaseDuration, in intervals of a renewal
  MaxGrants,      \* maxPDFPreviews
  MaxTime,        \* bound on the clock
  MaxPreviewActs, \* bound on what the user does
  MaxPreviewLosses \* bound on requests and answers that are lost

ASSUME PreviewAssumption == LeaseTime \in Nat /\ MaxGrants \in Nat

NoLease == 0

VARIABLES
  now,
  grants,    \* the grants of the server, and the last token
  views,     \* each view's effect and what it shows
  messages,  \* requests and answers on their way
  previewActs

previewVars == <<now, grants, views, messages, previewActs>>

Blank == [attempt |-> 0, active |-> FALSE, token |-> NoLease, until |-> 0, renewAt |-> 0,
          shown |-> NoLease, error |-> FALSE]
Message(kind, v, n, token) ==
  [kind |-> kind, view |-> v, attempt |-> n, token |-> token, ok |-> FALSE, expires |-> 0]

Send(new, old) == messages' = (messages \ old) \union new
Ours(m) == views[m.view].active /\ views[m.view].attempt = m.attempt

(***************************************************************************)
(* The server                                                              *)
(***************************************************************************)

Live == {t \in DOMAIN grants.expires : now < grants.expires[t]}
Only(tokens) == [t \in tokens |-> grants.expires[t]]
Grant(tokens, t) == [u \in tokens \union {t} |->
                       IF u = t THEN now + LeaseTime ELSE grants.expires[u]]

Answer(m, ok, token) ==
  Send({[m EXCEPT !.kind = IF @ = "create" THEN "created" ELSE "renewed", !.ok = ok, !.token = token,
                  !.expires = now + LeaseTime]}, {m})

\* POST: expired grants make room first.
Create(m) ==
  /\ m.kind = "create"
  /\ IF Cardinality(Live) < MaxGrants
     THEN LET t == grants.last + 1
          IN  grants' = [last |-> t, expires |-> Grant(Live, t)] /\ Answer(m, TRUE, t)
     ELSE grants' = [grants EXCEPT !.expires = Only(Live)] /\ Answer(m, FALSE, NoLease)

\* PUT: only what has not expired is renewed.
Renew(m) ==
  /\ m.kind = "renew"
  /\ IF m.token \in Live
     THEN grants' = [grants EXCEPT !.expires = Grant(Live, m.token)] /\ Answer(m, TRUE, m.token)
     ELSE grants' = [grants EXCEPT !.expires = Only(Live)] /\ Answer(m, FALSE, m.token)

\* DELETE
Revoke(m) ==
  /\ m.kind = "release"
  /\ grants' = [grants EXCEPT !.expires = Only(DOMAIN @ \ {m.token})]
  /\ Send({}, {m})

ServePreview == (\E m \in messages : Create(m) \/ Renew(m) \/ Revoke(m)) /\ UNCHANGED <<now, views, previewActs>>

GrantExpires ==
  /\ Live # DOMAIN grants.expires /\ grants' = [grants EXCEPT !.expires = Only(Live)]
  /\ UNCHANGED <<now, views, messages, previewActs>>

(***************************************************************************)
(* A view                                                                  *)
(***************************************************************************)

Released(v) ==
  IF views[v].token = NoLease THEN {} ELSE {Message("release", v, 0, views[v].token)}
Stopped(x) == [x EXCEPT !.active = FALSE, !.token = NoLease]

Act == previewActs.acts < MaxPreviewActs /\ previewActs' = [previewActs EXCEPT !.acts = @ + 1]

\* The effect: the last one is stopped, a lease is asked for.
MountPreview(v) ==
  /\ Act
  /\ LET n == views[v].attempt + 1
     IN  /\ views' = [views EXCEPT ![v] = [Blank EXCEPT !.attempt = n, !.active = TRUE]]
         /\ Send({Message("create", v, n, NoLease)} \union Released(v), {})
  /\ UNCHANGED <<now, grants>>

\* The tab of the workbench is closed, or the page is hidden.
Close(v) ==
  /\ Act /\ views[v].active
  /\ views' = [views EXCEPT ![v] = [Stopped(@) EXCEPT !.shown = NoLease]]
  /\ Send(Released(v), {})
  /\ UNCHANGED <<now, grants>>

\* A view that was closed meanwhile gives the lease back.
CreatedLate(m) ==
  /\ m.kind = "created" /\ ~Ours(m)
  /\ Send(IF m.ok THEN {Message("release", m.view, 0, m.token)} ELSE {}, {m})
  /\ UNCHANGED <<now, grants, views, previewActs>>

Created(m) ==
  /\ m.kind = "created" /\ Ours(m)
  /\ views' = [views EXCEPT ![m.view] =
                 IF m.ok THEN [@ EXCEPT !.token = m.token, !.shown = m.token, !.until = m.expires,
                                        !.renewAt = now + 1]
                 ELSE [@ EXCEPT !.error = TRUE]]
  /\ Send({}, {m}) /\ UNCHANGED <<now, grants, previewActs>>

RenewalDue(v) ==
  /\ views[v].token # NoLease /\ now >= views[v].renewAt
  /\ views' = [views EXCEPT ![v].renewAt = now + 1]
  /\ Send({Message("renew", v, views[v].attempt, views[v].token)}, {})
  /\ UNCHANGED <<now, grants, previewActs>>

Expired(v) == [Stopped(views[v]) EXCEPT !.shown = NoLease, !.error = TRUE]

\* The lease is extended as far as the server says, or it has gone.
Renewed(m) ==
  /\ m.kind = "renewed"
  /\ IF ~Ours(m) THEN Send({}, {m}) /\ UNCHANGED views
     ELSE IF m.ok
          THEN Send({}, {m}) /\ views' = [views EXCEPT ![m.view].until = m.expires]
          ELSE Send(Released(m.view), {m}) /\ views' = [views EXCEPT ![m.view] = Expired(m.view)]
  /\ UNCHANGED <<now, grants, previewActs>>

ExpiryDue(v) ==
  /\ views[v].token # NoLease /\ now >= views[v].until
  /\ views' = [views EXCEPT ![v] = Expired(v)]
  /\ Send(Released(v), {})
  /\ UNCHANGED <<now, grants, previewActs>>

\* A request or an answer is lost, or too late for the client's deadline.
Lose(m) ==
  /\ previewActs.losses < MaxPreviewLosses
  /\ previewActs' = [previewActs EXCEPT !.losses = @ + 1]
  /\ views' = [views EXCEPT ![m.view] =
                 IF m.kind \in {"create", "created"} /\ Ours(m) THEN [@ EXCEPT !.error = TRUE] ELSE @]
  /\ Send({}, {m}) /\ UNCHANGED <<now, grants>>

(***************************************************************************)
(* The specification                                                       *)
(***************************************************************************)

Tick == now < MaxTime /\ now' = now + 1 /\ UNCHANGED <<grants, views, messages, previewActs>>

PreviewInit ==
  /\ now = 0
  /\ grants = [last |-> 0, expires |-> <<>>]
  /\ views = [v \in Views |-> Blank]
  /\ messages = {}
  /\ previewActs = [acts |-> 0, losses |-> 0]

PreviewNext ==
  \/ Tick \/ ServePreview \/ GrantExpires
  \/ \E v \in Views : MountPreview(v) \/ Close(v) \/ RenewalDue(v) \/ ExpiryDue(v)
  \/ \E m \in messages : CreatedLate(m) \/ Created(m) \/ Renewed(m) \/ Lose(m)

(***************************************************************************)
(* What must hold                                                          *)
(***************************************************************************)

\* A preview on screen is one the server still serves, until the moment the view
\* knows of; and when nothing was lost and nothing is on its way, the server keeps
\* no grant that no view holds: a place is taken only by what can be seen.
PreviewsAreGranted ==
  /\ \A v \in Views : views[v].shown # NoLease /\ now < views[v].until =>
       views[v].shown \in Live /\ views[v].until <= grants.expires[views[v].shown]
  /\ messages = {} /\ previewActs.losses = 0 => Live \subseteq {views[v].token : v \in Views}

=============================================================================

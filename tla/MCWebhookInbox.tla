--------------------------- MODULE MCWebhookInbox ---------------------------
(* Feeds and instances of WebhookInbox for TLC.                              *)
EXTENDS WebhookInbox

Event(type, status) == [type |-> type, status |-> status, valid |-> TRUE]

\* An appointment that is booked and shows up.
Showed == <<Event("AppointmentCreate", "new"), Event("AppointmentUpdate", "showed")>>

\* One that is updated twice.
Rescheduled == <<Event("AppointmentCreate", "new"), Event("AppointmentUpdate", "confirmed"),
                 Event("AppointmentUpdate", "noshow")>>

\* A no-show, which has no stage in the funnel, and a contact the handler ignores; the
\* creation comes from the backfill.
Mixed == <<Event("AppointmentUpdate", "noshow"), Event("ContactCreate", "new")>>

\* Stages a workspace has added to its preset; "no_sale" is not one of them.
Slugs == {"scheduled", "showed", "canceled_by_customer", "completed"}
=============================================================================

------------------------------ MODULE Connections ------------------------------
(***************************************************************************)
(* A tenant's ERP connections: the forms that write them (accounting/      *)
(* views.py erp_connection_create and _edit, the admin), the health check  *)
(* that writes its own four columns on the same rows (_test_connection),   *)
(* and the two reads of the active connection when a bill is posted        *)
(* (connector_for_tenant, then APDepartment._active_connection).           *)
(*                                                                         *)
(* conPc[t] says what a request or command does next:                      *)
(*   "idle"    nothing                                                     *)
(*   "form"    a copy of row held[t] is read; the form is applied to it    *)
(*   "testing" the copy's configuration is to be probed over the network   *)
(*   "probed"  the answer is there; the four columns are to be saved       *)
(*   "built"   the connector is built from row held[t]                     *)
(* A form saves the whole row from its copy.                               *)
(***************************************************************************)
EXTENDS Naturals, FiniteSets

CONSTANTS ConThreads, Connections,
          NoConnection,
          Rank,            \* connection -> position by name
          Urls, NoUrl,
          Keys, NoKey,
          Forms            \* what people enter

ASSUME ConnectionsAssumption == /\ Rank \in [Connections -> Nat]
                                /\ NoConnection \notin Connections
                                /\ NoUrl \notin Urls /\ NoKey \notin Keys

Vendors == {"odoo", "sage", "manual"}
OdooCaps == {"CAP.01", "CAP.02", "CAP.03", "CAP.17", "CAP.22"}
Healths == {"ok", "degraded", "down", "unconfigured"}

(* ERPConnection. *)
Row == [vendor : Vendors, url : Urls \cup {NoUrl}, key : Keys \cup {NoKey},
        primary : BOOLEAN, active : BOOLEAN, health : Healths,
        caps : SUBSET OdooCaps]
Form == [vendor : Vendors, url : Urls \cup {NoUrl}, key : Keys \cup {NoKey},
         primary : BOOLEAN]
ASSUME FormsAssumption == Forms \subseteq Form

VARIABLES conRow,       \* connection -> its row
          exists,       \* connections that have a row
          conPc, held, copy,
          answer,       \* what the probe answered
          lookedAt,     \* the configuration the pending answer is about
          probed,       \* connection -> configuration its health is about (history)
          lastKey,      \* connection -> last key somebody entered (history)
          overlapped,   \* connections two threads held at once (history)
          crossed,      \* connections a form saved while another form's copy
                        \*   was out (history)
          untested,     \* connections saved and not tested since (history)
          reconfigured, \* threads that read twice around a save (history)
          lastPost      \* what the last post wrote to and named (history)

conRows == <<conRow, exists>>
conLocals == <<conPc, held, copy, answer, lookedAt>>
conHistory == <<probed, lastKey, overlapped, crossed, untested, reconfigured, lastPost>>
conVars == <<conRows, conLocals, conHistory>>

Blank == [vendor |-> "manual", url |-> NoUrl, key |-> NoKey, primary |-> FALSE,
          active |-> TRUE, health |-> "unconfigured", caps |-> {}]
ConfigOf(r) == [vendor |-> r.vendor, url |-> r.url, key |-> r.key]
NoAnswer == [health |-> "unconfigured", caps |-> {}]

ConInit == /\ conRow = [c \in Connections |-> Blank]
           /\ exists = {}
           /\ conPc = [t \in ConThreads |-> "idle"]
           /\ held = [t \in ConThreads |-> NoConnection]
           /\ copy = [t \in ConThreads |-> Blank]
           /\ answer = [t \in ConThreads |-> NoAnswer]
           /\ lookedAt = [t \in ConThreads |-> ConfigOf(Blank)]
           /\ probed = [c \in Connections |-> ConfigOf(Blank)]
           /\ lastKey = [c \in Connections |-> NoKey]
           /\ overlapped = {} /\ crossed = {} /\ untested = {} /\ reconfigured = {}
           /\ lastPost = [wrote |-> NoConnection, named |-> NoConnection, settled |-> TRUE]

-----------------------------------------------------------------------------
(* Forms. *)

Holders(c) == {t \in ConThreads : conPc[t] # "idle" /\ held[t] = c}

(* A request or the health check command reads the row. *)
ReadRow(t, c, next) ==
    /\ conPc[t] = "idle"
    /\ c \in exists
    /\ conPc' = [conPc EXCEPT ![t] = next]
    /\ held' = [held EXCEPT ![t] = c]
    /\ copy' = [copy EXCEPT ![t] = conRow[c]]
    /\ overlapped' = IF Holders(c) # {} THEN overlapped \cup {c} ELSE overlapped
    /\ UNCHANGED <<conRows, answer, lookedAt, probed, lastKey, crossed, untested,
                   reconfigured, lastPost>>

OpenForm(t, c) == ReadRow(t, c, "form")
CheckHealth(t, c) == ReadRow(t, c, "testing")

(* apply_to, then set_api_key unless the field was left blank. *)
Applied(r, f) ==
    LET plain == [r EXCEPT !.vendor = f.vendor, !.url = f.url, !.primary = f.primary]
    IN IF f.key = NoKey THEN plain ELSE [plain EXCEPT !.key = f.key]

Entered(c, f) == lastKey' = IF f.key = NoKey THEN lastKey ELSE [lastKey EXCEPT ![c] = f.key]

(* A connector was built and the bill not yet posted through it. *)
Building == {u \in ConThreads : conPc[u] = "built"}

OtherForms(t, c) == {u \in ConThreads \ {t} : conPc[u] = "form" /\ held[u] = c}

(* The form's result is saved whole; the copy goes on to be tested.        *)
SaveWhole(t, c, r) ==
    /\ conRow' = [conRow EXCEPT ![c] = r]
    /\ exists' = exists \cup {c}
    /\ copy' = [copy EXCEPT ![t] = r]
    /\ crossed' = IF OtherForms(t, c) # {} THEN crossed \cup {c} ELSE crossed
    /\ reconfigured' = reconfigured \cup Building

AfterSaveUntested == "idle"
AfterSave == "testing"

SubmitForm(t, f) ==
    /\ conPc[t] = "form"
    /\ SaveWhole(t, held[t], Applied(copy[t], f))
    /\ Entered(held[t], f)
    /\ conPc' = [conPc EXCEPT ![t] = AfterSave]
    /\ UNCHANGED <<held, answer, lookedAt, probed, overlapped, untested,
                   lastPost>>

CreateConnection(t, c, f) ==
    /\ conPc[t] = "idle"
    /\ c \notin exists
    /\ SaveWhole(t, c, Applied(Blank, f))
    /\ Entered(c, f)
    /\ conPc' = [conPc EXCEPT ![t] = AfterSave]
    /\ held' = [held EXCEPT ![t] = c]
    /\ UNCHANGED <<answer, lookedAt, probed, overlapped, untested, lastPost>>

ConLeave(t) == /\ conPc' = [conPc EXCEPT ![t] = "idle"]
               /\ held' = [held EXCEPT ![t] = NoConnection]
               /\ answer' = [answer EXCEPT ![t] = NoAnswer]
               /\ lookedAt' = [lookedAt EXCEPT ![t] = ConfigOf(Blank)]

(* The admin's page: vendor, configuration and flags; no key, no test.  It *)
(* edits a row, saved whole, or adds one.                                  *)
OfAdmin(r, f, a) == [r EXCEPT !.vendor = f.vendor, !.url = f.url, !.primary = f.primary,
                              !.active = a]

SubmitAdmin(t, f, a) ==
    /\ conPc[t] = "form"
    /\ conRow' = [conRow EXCEPT ![held[t]] = OfAdmin(copy[t], f, a)]
    /\ untested' = untested \cup {held[t]}
    /\ reconfigured' = reconfigured \cup Building
    /\ copy' = [copy EXCEPT ![t] = Blank]
    /\ ConLeave(t)
    /\ UNCHANGED <<exists, probed, lastKey, overlapped, crossed, lastPost>>

AddInAdmin(c, f, a) ==
    /\ c \notin exists
    /\ conRow' = [conRow EXCEPT ![c] = OfAdmin(Blank, f, a)]
    /\ exists' = exists \cup {c}
    /\ untested' = untested \cup {c}
    /\ reconfigured' = reconfigured \cup Building
    /\ UNCHANGED <<conLocals, probed, lastKey, overlapped, crossed, lastPost>>

-----------------------------------------------------------------------------
(* _test_connection: build_connector(connection).health_check(). *)

(* What the probe may answer, the ERP's state and the secret's validity    *)
(* being what they are at that moment: an ERP that does not answer is      *)
(* down, one that refuses the key is degraded; a secret that no longer     *)
(* decrypts is no key, and a row without a secret may name a variable of   *)
(* the environment that holds one.  Without a URL nothing is asked.  The   *)
(* null connector of a manual connection is never configured.  Without a   *)
(* connector for the vendor the factory raises: down, and the capabilities *)
(* on the copy stay what they were.                                        *)
Answers(r) ==
    CASE r.vendor = "manual" -> {[health |-> "unconfigured", caps |-> {}]}
      [] r.vendor = "sage" -> {[health |-> "down", caps |-> r.caps]}
      [] r.vendor = "odoo" -> [caps : {OdooCaps},
                               health : IF r.url = NoUrl THEN {"unconfigured"}
                                                         ELSE {"down", "degraded", "ok"}]

ProbeErp(t) == /\ conPc[t] = "testing"
               /\ \E ans \in Answers(copy[t]) : answer' = [answer EXCEPT ![t] = ans]
               /\ lookedAt' = [lookedAt EXCEPT ![t] = ConfigOf(copy[t])]
               /\ conPc' = [conPc EXCEPT ![t] = "probed"]
               /\ UNCHANGED <<conRows, held, copy, conHistory>>

(* save(update_fields=[health, capabilities, ...]). *)
Stamped(r, ans) == [r EXCEPT !.health = ans.health, !.caps = ans.caps]

SaveHealth(t) ==
    LET c == held[t] IN
    /\ conPc[t] = "probed"
    /\ conRow' = [conRow EXCEPT ![c] = Stamped(@, answer[t])]
    /\ probed' = [probed EXCEPT ![c] = lookedAt[t]]
    /\ untested' = untested \ {c}
    /\ copy' = [copy EXCEPT ![t] = Blank]
    /\ ConLeave(t)
    /\ UNCHANGED <<exists, lastKey, overlapped, crossed, reconfigured, lastPost>>

-----------------------------------------------------------------------------
(* Posting a bill: two reads of "the" connection. *)

Candidates == {c \in exists : conRow[c].active /\ conRow[c].vendor # "manual"}
PrimaryFirst(c, d) == \/ conRow[c].primary /\ ~conRow[d].primary
                      \/ conRow[c].primary = conRow[d].primary /\ Rank[c] < Rank[d]

(* .order_by("-is_primary", "name").first(); of two primaries of one name  *)
(* always the same.                                                        *)
ActiveConnection == IF Candidates = {} THEN NoConnection
                    ELSE CHOOSE c \in Candidates : \A d \in Candidates : ~PrimaryFirst(d, c)

(* connector_for_tenant; a vendor without a connector raises.              *)
BuildConnector(t) ==
    /\ conPc[t] = "idle"
    /\ ActiveConnection # NoConnection => conRow[ActiveConnection].vendor = "odoo"
    /\ held' = [held EXCEPT ![t] = ActiveConnection]
    /\ conPc' = [conPc EXCEPT ![t] = "built"]
    /\ reconfigured' = reconfigured \ {t}
    /\ UNCHANGED <<conRows, copy, answer, lookedAt, probed, lastKey,
                   overlapped, crossed, untested, lastPost>>

NamedIsPrimary == IF \E c \in Candidates : conRow[c].primary THEN ActiveConnection
                                                            ELSE NoConnection
Named == ActiveConnection

(* The saga's row names the connection of the second read, its function    *)
(* writes through the connector of the first.                              *)
PostThrough(t) ==
    /\ conPc[t] = "built"
    /\ lastPost' = [wrote |-> held[t], named |-> Named, settled |-> t \notin reconfigured]
    /\ ConLeave(t)
    /\ UNCHANGED <<conRows, copy, probed, lastKey, overlapped, crossed, untested,
                   reconfigured>>

-----------------------------------------------------------------------------
(* A request dies. *)
ConDies(t) == /\ conPc[t] # "idle"
              /\ conPc[t] \in {"testing", "probed"} => untested' = untested \cup {held[t]}
              /\ conPc[t] \notin {"testing", "probed"} => UNCHANGED untested
              /\ copy' = [copy EXCEPT ![t] = Blank]
              /\ ConLeave(t)
              /\ UNCHANGED <<conRows, probed, lastKey, overlapped, crossed,
                             reconfigured, lastPost>>

ConNext ==
    \/ \E t \in ConThreads :
          \/ \E c \in Connections : \/ OpenForm(t, c)
                                    \/ CheckHealth(t, c)
                                    \/ \E f \in Forms : CreateConnection(t, c, f)
          \/ \E f \in Forms : \/ SubmitForm(t, f)
                              \/ \E a \in BOOLEAN : SubmitAdmin(t, f, a)
          \/ ProbeErp(t) \/ SaveHealth(t)
          \/ BuildConnector(t) \/ PostThrough(t)
          \/ ConDies(t)
    \/ \E c \in Connections, f \in Forms, a \in BOOLEAN : AddInAdmin(c, f, a)

ConSpec == ConInit /\ [][ConNext]_conVars

-----------------------------------------------------------------------------
(* Properties. *)

(* "The connection is tested on save": at rest, the health and the         *)
(* capabilities shown are about the configuration in the row: only an Odoo *)
(* connection with a URL is ever ok, and it lists what its connector can   *)
(* do, a manual one is unconfigured, a vendor without a connector is down, *)
(* whatever the row was before.  Out of reach of this: a row two requests  *)
(* worked on at once (the slower probe, or the other form's whole-row      *)
(* save, wins), and one not tested since the admin saved it or since its   *)
(* test died.                                                              *)
HealthIsOfThisConfig ==
    \A c \in exists \ (overlapped \cup untested) :
        Holders(c) = {} =>
            /\ probed[c] = ConfigOf(conRow[c])
            /\ conRow[c].health = "ok" => /\ conRow[c].vendor = "odoo" /\ conRow[c].url # NoUrl
                                          /\ conRow[c].caps = OdooCaps
            /\ conRow[c].vendor = "manual" => conRow[c].health = "unconfigured"
            /\ conRow[c].vendor = "sage" => conRow[c].health = "down"

(* "A blank API key keeps the stored one": the stored key is the last one  *)
(* anybody entered, whatever forms and health checks ran since, the health *)
(* check's save among them, which may come at any moment of a form; unless *)
(* a form was saved while another form's copy of the row was out.          *)
KeyIsTheLastEntered ==
    \A c \in exists \ crossed : conRow[c].key = lastKey[c]

(* The audit row of a post names the connection whose ERP was written,     *)
(* although each is looked up on its own, unless a connection was saved    *)
(* between the two reads.                                                  *)
AuditNamesTheErp == lastPost.settled => lastPost.named = lastPost.wrote

(* The row is what was saved into it last: the key somebody entered, and   *)
(* a health that was found with this very configuration.                   *)
ConnectionIsAsSaved == HealthIsOfThisConfig /\ KeyIsTheLastEntered
=============================================================================

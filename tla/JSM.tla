--------------------------------- MODULE JSM ---------------------------------
(***************************************************************************)
(* internal/webhook/jsm: what the JSM provider makes of a verified body.   *)
(* A body is a record of what decoding can find in it; texts are members   *)
(* of small sets, with "" where the key is absent or empty.                *)
(***************************************************************************)
EXTENDS Naturals, Sequences

CONSTANTS
    Keys,           \* issue keys
    Lower,          \* Keys -> the key in lower case
    Values,         \* values of custom fields, trimmed
    Padded,         \* Values -> the same value with white space around it
    TriggerStatus,  \* cfg.TriggerStatus
    OtherStatus     \* any other status of a ticket

\* cfg.FieldProviderGroupID, cfg.FieldRole and cfg.FieldProject, in the order
\* in which Handle reads them.
FieldOrder == <<"providerGroupID", "role", "project">>
Fields == {FieldOrder[i] : i \in 1..3}

(***************************************************************************)
(* A body: is it JSON, is there an issue, and what is in it.  An issue is  *)
(* mistyped when it, its key, its fields or its status has the wrong JSON  *)
(* type.  A custom field is absent, null, no string, blank, or a string.   *)
(***************************************************************************)
Strings == Values \cup {Padded[v] : v \in Values}
FieldForms == {"absent", "null", "number", "blank"} \cup Strings

Bodies == [json : {"empty", "broken", "object"},
           issue : {"absent", "null", "mistyped", "object"},
           key : Keys \cup {""},
           status : {"", TriggerStatus, OtherStatus},
           fields : [Fields -> FieldForms]]

(***************************************************************************)
(* payload.go: Decode, "ok" or the sentinel error it wraps.                *)
(***************************************************************************)
Decode(body) ==
    IF body.json # "object" THEN "ErrInvalidJSON"
    ELSE IF body.issue \in {"absent", "null"} THEN "ErrMissingIssue"
    ELSE IF body.issue = "mistyped" THEN "ErrInvalidJSON"
    ELSE IF body.key = "" THEN "ErrMissingIssueKey"
    ELSE IF body.status = "" THEN "ErrMissingStatus"
    ELSE "ok"

(***************************************************************************)
(* extract.go: the error for one custom field, and its trimmed value.      *)
(***************************************************************************)
Trim(s) == CHOOSE v \in Values : s \in {v, Padded[v]}

ExtractErr(body, f) ==
    LET raw == body.fields[f]
    IN  IF raw \in {"absent", "null"} THEN "ErrFieldMissing"
        ELSE IF raw = "number" THEN "ErrFieldType"
        ELSE IF raw = "blank" THEN "ErrFieldEmpty"
        ELSE "ok"

ExtractString(body, f) == Trim(body.fields[f])

(***************************************************************************)
(* provider.go: labels and classes of errors.                              *)
(***************************************************************************)
ParseReasons == {"invalid_json", "missing_field", "empty_field", "wrong_type"}

decodeReason(e) ==
    IF e \in {"ErrMissingIssue", "ErrMissingIssueKey", "ErrMissingStatus"}
    THEN "missing_field" ELSE "invalid_json"

extractReason(e) ==
    IF e = "ErrFieldEmpty" THEN "empty_field"
    ELSE IF e = "ErrFieldType" THEN "wrong_type" ELSE "missing_field"

classifyExtractErr(e) ==
    IF e = "ErrFieldType" THEN "ErrUnprocessable" ELSE "ErrBadRequest"

(***************************************************************************)
(* cr.go: the custom resource of a ticket.                                 *)
(***************************************************************************)
CRName(key) == <<"jsm", Lower[key]>>

\* BuildDescription puts the issue key into the description.
BuildSpec(body) == [mapping |-> [f \in Fields |-> ExtractString(body, f)],
                    description |-> body.key]

(***************************************************************************)
(* Handle: an action or an error for the dispatcher, and the counter it    *)
(* increments on the way, if any.                                          *)
(***************************************************************************)
Refuse(e, reason) == [error |-> e, action |-> "none", name |-> <<>>, spec |-> <<>>,
                      annotations |-> <<>>, counted |-> reason]

Undecided == Refuse("nil", "none")

Noop == [error |-> "nil", action |-> "noop", name |-> <<>>, spec |-> <<>>,
         annotations |-> <<>>, counted |-> "noop"]

Apply(body) == [error |-> "nil", action |-> "apply", name |-> CRName(body.key),
                spec |-> BuildSpec(body), annotations |-> [issueKey |-> body.key],
                counted |-> "none"]

\* The first field, in Handle's order, that cannot be extracted; 0 if none.
FirstBadField(body) ==
    LET bad == {i \in 1..3 : ExtractErr(body, FieldOrder[i]) # "ok"}
    IN  IF bad = {} THEN 0 ELSE CHOOSE i \in bad : \A j \in bad : i <= j

\* What Handle does with a ticket that is in the trigger status.
HandleTriggered(body) ==
    LET i == FirstBadField(body)
        e == ExtractErr(body, FieldOrder[i])
    IN  IF i = 0 THEN Apply(body)
        ELSE Refuse(classifyExtractErr(e), extractReason(e))

Handle(body) ==
    IF Decode(body) # "ok" THEN Refuse("ErrBadRequest", decodeReason(Decode(body)))
    ELSE IF body.status # TriggerStatus THEN Noop
    ELSE HandleTriggered(body)

(***************************************************************************)
(* response.go: the status word of the JSON body.                          *)
(***************************************************************************)
Build(kind) ==
    IF kind = "Noop" THEN "noop"
    ELSE IF kind = "Ready" THEN "success" ELSE "failure"

=============================================================================

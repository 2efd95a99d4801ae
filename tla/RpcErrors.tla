----------------------------- MODULE RpcErrors -----------------------------
(***************************************************************************)
(* ConduitError.from_rpc_error (src/src/conduit/errors.py): the            *)
(* translation of a failed RPC.  An exception is a record of what the      *)
(* translation can tell apart: whether it is a grpc.Call, its status code, *)
(* whether it has details text and a str(), what its                       *)
(* grpc-status-details-bin trailer holds, and the details of the           *)
(* google.rpc.Status in there; and of who made it, which the translation   *)
(* does not see.                                                           *)
(***************************************************************************)
EXTENDS Naturals, Sequences, FiniteSetsExt

CONSTANTS MaxDetails   \* bound on the details of one status

ASSUME RpcAssumption == MaxDetails \in Nat

\* The gRPC codes that have a dotted code of their own, and two that have not.
Fallback == [UNAVAILABLE |-> "transport.unavailable",
             DEADLINE_EXCEEDED |-> "transport.deadline_exceeded",
             CANCELLED |-> "transport.cancelled",
             NOT_FOUND |-> "common.not_found",
             INVALID_ARGUMENT |-> "common.invalid_argument",
             ALREADY_EXISTS |-> "common.already_exists",
             FAILED_PRECONDITION |-> "common.failed_precondition"]
Codes == DOMAIN Fallback \cup {"UNKNOWN", "INTERNAL"}

\* What one detail is: no ErrorInfo, an ErrorInfo of another domain, one of
\* Conduit with or without a reason, or an ErrorInfo whose bytes do not parse.
Details == {"other", "foreign", "conduit", "noreason", "undecodable"}
Trailers == {"none", "status", "disagrees", "undecodable"}

\* Who ended the call: a handler of an engine with structured errors; nobody at
\* the engine, so that gRPC made up the status itself; or anything else, such as an
\* older engine, a proxy, or a stub that is not gRPC's.
Senders == {"handler", "nobody", "other"}

\* What gRPC says of an engine that is unreachable, too late or hung up on.
Unreached == {"UNAVAILABLE", "DEADLINE_EXCEEDED", "CANCELLED"}

\* What each of them can send.  A handler says what it likes in code and text, but
\* it has Conduit's ErrorInfo among the details of its status.
CanSend(e) ==
  \/ /\ e.by = "handler"
     /\ e.call /\ e.str # "" /\ e.trailer = "status"
     /\ \E k \in DOMAIN e.details : e.details[k] \in {"conduit", "noreason"}
     /\ \A k \in DOMAIN e.details : e.details[k] # "undecodable"
  \/ /\ e.by = "nobody"
     /\ e.call /\ e.str # "" /\ e.trailer = "none" /\ e.code \in Unreached
  \/ e.by = "other"

Exceptions ==
  {e \in [by : Senders, call : BOOLEAN, code : Codes, text : {"details", ""},
          str : {"str", ""}, trailer : Trailers,
          details : UNION {[1..n -> Details] : n \in 0..MaxDetails}] : CanSend(e)}

VARIABLES exc, out   \* the exception caught, and what from_rpc_error made of it
vars == <<exc, out>>

Pending == [raises |-> "nothing yet", code |-> "", grpc |-> "", text |-> ""]
DecodeError == [Pending EXCEPT !.raises = "DecodeError"]
Error(code, grpc, text) == [raises |-> "", code |-> code, grpc |-> grpc, text |-> text]

Outputs == [raises : {"nothing yet", "DecodeError", ""},
            code : {"", "reason", "internal.unknown"} \cup {Fallback[c] : c \in DOMAIN Fallback},
            grpc : Codes \cup {""}, text : {"", "details", "str"}]

TypeOK == exc \in Exceptions /\ out \in Outputs

-----------------------------------------------------------------------------
\* Mutant: the code is left None for what is no Call.
GrpcCodeOrNone(e) == IF e.call THEN e.code ELSE "None"

\* exc.code(); an RpcError that is no Call has none.
GrpcCode(e) == IF e.call THEN e.code ELSE "UNKNOWN"

\* Mutant: details() as they are, empty or not.
RawMessage(e) == IF e.call THEN e.text ELSE e.str

\* exc.details(), or str(exc) when there are none; that of a bare RpcError() is "".
Message(e) == IF e.call /\ e.text # "" THEN e.text ELSE e.str

\* Mutant: the table is indexed, not looked up.
CodeOfKnown(code) == IF code \in DOMAIN Fallback THEN Fallback[code] ELSE ""

\* _code_from_status
CodeFromStatus(code) == IF code \in DOMAIN Fallback THEN Fallback[code] ELSE "internal.unknown"

\* rpc_status.from_call gives a Status; or None, for no trailer and, by way of
\* its ValueError, for one that disagrees with the call's code or text.
HasStatus(e) == e.call /\ e.trailer = "status"

\* Mutant: only the first detail is looked at.
DecisiveAtOnce(e) ==
  {k \in DOMAIN e.details \cap {1} : e.details[k] \in {"conduit", "noreason", "undecodable"}}

\* The details at which the loop over status.details stops.
Decisive(e) == {k \in DOMAIN e.details : e.details[k] \in {"conduit", "noreason", "undecodable"}}

\* Mutant: the last Conduit detail wins.
LastDecisive(e) == Max(Decisive(e))

FirstDecisive(e) == Min(Decisive(e))

\* from_rpc_error, as a function of the exception.
FromRpcError(e) ==
  IF e.call /\ e.trailer = "undecodable" THEN DecodeError
  ELSE IF HasStatus(e) /\ Decisive(e) # {}
  THEN CASE e.details[FirstDecisive(e)] = "undecodable" -> DecodeError
         [] e.details[FirstDecisive(e)] = "noreason" ->
              Error("internal.unknown", GrpcCode(e), Message(e))
         [] OTHER -> Error("reason", GrpcCode(e), Message(e))
  ELSE Error(CodeFromStatus(GrpcCode(e)), GrpcCode(e), Message(e))

\* The client catches some RpcError and translates it.
Init == exc \in Exceptions /\ out = Pending

Translate ==
  /\ out = Pending
  /\ out' = FromRpcError(exc)
  /\ UNCHANGED exc

Next == Translate
Spec == Init /\ [][Next]_vars

-----------------------------------------------------------------------------
Translated == out.raises = ""

\* A translated error always carries a dotted code and the gRPC status category,
\* even of an RpcError that is no Call; and a message whenever the exception has
\* anything to say, in its details or in its str().
AlwaysActionable ==
  Translated =>
    /\ out.code # "" /\ out.grpc \in Codes
    /\ out.text = "" => exc.str = "" /\ (exc.call => exc.text = "")

\* The server's own reason is passed on, whatever the status code and however
\* many foreign details come before it, and only when Conduit gave one.
ReasonIsConduits ==
  Translated => (out.code = "reason" <=>
    /\ HasStatus(exc)
    /\ \E k \in DOMAIN exc.details :
         /\ exc.details[k] = "conduit"
         /\ \A j \in 1..(k - 1) : exc.details[j] \in {"other", "foreign"})

\* Run.status: an unreachable engine is "distinguishable ... by ConduitError.code
\* (transport.* vs. a Conduit-domain reason)".  Nobody there gives transport.*;
\* an answer of a structured handler never does, whatever its status code.  (What
\* an older engine's plain UNAVAILABLE gives is transport.* too.)
UnreachableToldApart ==
  Translated =>
    /\ exc.by = "nobody" => out.code \in {Fallback[c] : c \in Unreached}
    /\ exc.by = "handler" => out.code \notin {Fallback[c] : c \in Unreached}

\* "A populated ConduitError, never raising itself."
NeverRaises == out.raises # "DecodeError"
=============================================================================

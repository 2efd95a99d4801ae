-------------------------- MODULE RpcErrors_proofs --------------------------
(* Theorems about RpcErrors, for statuses with any number of details. *)
EXTENDS RpcErrors, FiniteSetTheorems, TLAPS

\* The loop over the details stops at the first decisive one.
LEMMA Earliest ==
  ASSUME NEW n \in Nat, NEW S \in SUBSET (1..n), S # {}
  PROVE  Min(S) \in S /\ \A j \in S : Min(S) <= j
<1> DEFINE Below(x) == {j \in S : j < x}
           Starts == {Below(x) : x \in S}
<1>0. S \subseteq Int
  OBVIOUS
<1>1. IsFiniteSet(S)
  <2>1. IsFiniteSet(1..n)
    BY FS_Interval
  <2>2. QED
    BY <2>1, FS_Subset
<1>2. Starts \subseteq FiniteSubsetsOf(S) /\ Starts # {}
  <2>1. FiniteSubsetsOf(S) = SUBSET S
    BY <1>1, FS_FiniteSubsetsOfFinite
  <2>2. \A x \in S : Below(x) \in SUBSET S
    OBVIOUS
  <2>3. Starts \subseteq SUBSET S
    BY <2>2
  <2>4. PICK x \in S : TRUE
    OBVIOUS
  <2>5. Below(x) \in Starts
    OBVIOUS
  <2>6. QED
    BY <2>1, <2>3, <2>5
<1>3. PICK B \in Starts : \A C \in Starts : ~(<<C, B>> \in StrictSubsetOrdering(S))
  <2>1. IsWellFoundedOn(StrictSubsetOrdering(S), FiniteSubsetsOf(S))
    BY FS_StrictSubsetOrderingWellFounded
  <2>2. QED
    BY <1>2, <2>1, WFMin
<1>4. PICK x \in S : B = Below(x)
  OBVIOUS
<1>5. \A y \in S : x <= y
  <2>1. SUFFICES ASSUME NEW y \in S, y < x PROVE FALSE
    BY <1>0
  <2>2. Below(y) \subseteq Below(x) /\ y \in Below(x) /\ y \notin Below(y)
    <3>1. \A j \in S : j < y => j < x
      BY <1>0, <2>1
    <3>2. ~(y < y)
      BY <1>0
    <3>3. QED
      BY <2>1, <3>1, <3>2
  <2>3. Below(x) \in SUBSET S /\ Below(y) \in SUBSET S
    OBVIOUS
  <2>4. <<Below(y), Below(x)>> \in StrictSubsetOrdering(S)
    BY <2>2, <2>3, Zenon DEF StrictSubsetOrdering
  <2>5. QED
    BY <1>3, <1>4, <2>4
<1>6. QED
  BY <1>5 DEF Min

\* The exception is one of those of the model, and out is what was made of it.
IInv == exc \in Exceptions /\ out \in {Pending, FromRpcError(exc)}

\* An exception's details are a finite sequence.
LEMMA DetailsOf ==
  ASSUME NEW e \in Exceptions
  PROVE  /\ e.call \in BOOLEAN /\ e.code \in Codes /\ e.text \in {"details", ""}
         /\ e.str \in {"str", ""} /\ e.trailer \in Trailers
         /\ \E n \in Nat : e.details \in [1..n -> Details]
<1>1. e.details \in UNION {[1..n -> Details] : n \in 0..MaxDetails}
  BY DEF Exceptions
<1>2. PICK n \in 0..MaxDetails : e.details \in [1..n -> Details]
  BY <1>1
<1>3. /\ e.call \in BOOLEAN /\ e.code \in Codes /\ e.text \in {"details", ""}
      /\ e.str \in {"str", ""} /\ e.trailer \in Trailers
  BY DEF Exceptions
<1>4. n \in Nat
  BY RpcAssumption
<1>5. QED
  BY <1>2, <1>3, <1>4

\* Where the loop stops, and that it passed over foreign details only.
LEMMA Stops ==
  ASSUME NEW e \in Exceptions, Decisive(e) # {}
  PROVE  LET k == FirstDecisive(e) IN
         /\ k \in DOMAIN e.details
         /\ e.details[k] \in {"conduit", "noreason", "undecodable"}
         /\ \A j \in 1..(k - 1) : e.details[j] \in {"other", "foreign"}
<1>1. PICK n \in Nat : e.details \in [1..n -> Details]
  BY DetailsOf
<1>2. Decisive(e) \in SUBSET (1..n)
  BY <1>1 DEF Decisive
<1>3. FirstDecisive(e) \in Decisive(e) /\ \A j \in Decisive(e) : FirstDecisive(e) <= j
  BY <1>2, Earliest DEF FirstDecisive
<1>4. ASSUME NEW j \in 1..(FirstDecisive(e) - 1) PROVE e.details[j] \in {"other", "foreign"}
  <2>1. j \in 1..n /\ j \notin Decisive(e)
    BY <1>2, <1>3
  <2>2. QED
    BY <1>1, <2>1 DEF Decisive, Details
<1>5. QED
  BY <1>3, <1>4 DEF Decisive

\* The translation is made once, of the exception that was caught.
LEMMA Invariance == Spec => []IInv
<1>1. Init => IInv
  BY DEF Init, IInv
<1>2. IInv /\ [Next]_vars => IInv'
  BY DEF IInv, Next, Translate, vars
<1>3. QED
  BY <1>1, <1>2, PTL DEF Spec

\* The table maps its codes to dotted ones, three of them to transport.*.
LEMMA Table ==
  /\ DOMAIN Fallback = {"UNAVAILABLE", "DEADLINE_EXCEEDED", "CANCELLED", "NOT_FOUND",
                        "INVALID_ARGUMENT", "ALREADY_EXISTS", "FAILED_PRECONDITION"}
  /\ \A c \in DOMAIN Fallback : Fallback[c] \notin {"", "reason", "internal.unknown"}
  /\ Fallback["UNAVAILABLE"] = "transport.unavailable"
  /\ Fallback["DEADLINE_EXCEEDED"] = "transport.deadline_exceeded"
  /\ Fallback["CANCELLED"] = "transport.cancelled"
<1>1. DOMAIN Fallback = {"UNAVAILABLE", "DEADLINE_EXCEEDED", "CANCELLED", "NOT_FOUND",
                        "INVALID_ARGUMENT", "ALREADY_EXISTS", "FAILED_PRECONDITION"}
  BY DEF Fallback
<1>2. /\ Fallback["UNAVAILABLE"] = "transport.unavailable"
      /\ Fallback["DEADLINE_EXCEEDED"] = "transport.deadline_exceeded"
      /\ Fallback["CANCELLED"] = "transport.cancelled"
      /\ Fallback["NOT_FOUND"] = "common.not_found"
      /\ Fallback["INVALID_ARGUMENT"] = "common.invalid_argument"
      /\ Fallback["ALREADY_EXISTS"] = "common.already_exists"
      /\ Fallback["FAILED_PRECONDITION"] = "common.failed_precondition"
  BY DEF Fallback
<1>3. QED
  BY <1>1, <1>2

\* What tells an error that is out from one that is not.
LEMMA Raises == Pending.raises = "nothing yet" /\ DecodeError.raises = "DecodeError"
BY DEF Pending, DecodeError

\* The fields of an error.
LEMMA Fields ==
  ASSUME NEW code, NEW grpc, NEW text
  PROVE  /\ Error(code, grpc, text).code = code
         /\ Error(code, grpc, text).grpc = grpc
         /\ Error(code, grpc, text).text = text
BY DEF Error

\* The ways from_rpc_error can end.
LEMMA Outcome ==
  ASSUME NEW e \in Exceptions
  PROVE  \/ FromRpcError(e) = DecodeError
         \/ /\ HasStatus(e) /\ Decisive(e) # {}
            /\ e.details[FirstDecisive(e)] = "noreason"
            /\ FromRpcError(e) = Error("internal.unknown", GrpcCode(e), Message(e))
         \/ /\ HasStatus(e) /\ Decisive(e) # {}
            /\ e.details[FirstDecisive(e)] = "conduit"
            /\ FromRpcError(e) = Error("reason", GrpcCode(e), Message(e))
         \/ /\ ~HasStatus(e) \/ Decisive(e) = {}
            /\ FromRpcError(e) = Error(CodeFromStatus(GrpcCode(e)), GrpcCode(e), Message(e))
<1>1. CASE HasStatus(e) /\ Decisive(e) # {}
  BY <1>1, Stops DEF FromRpcError
<1>2. CASE ~HasStatus(e) \/ Decisive(e) = {}
  BY <1>2 DEF FromRpcError
<1>3. QED
  BY <1>1, <1>2

\* The code of an error, by what decided it.
LEMMA CodeOf ==
  ASSUME NEW e \in Exceptions, FromRpcError(e) # DecodeError
  PROVE  \/ HasStatus(e) /\ Decisive(e) # {} /\ FromRpcError(e).code = "internal.unknown"
         \/ /\ HasStatus(e) /\ Decisive(e) # {} /\ FromRpcError(e).code = "reason"
            /\ e.details[FirstDecisive(e)] = "conduit"
         \/ /\ ~HasStatus(e) \/ Decisive(e) = {}
            /\ FromRpcError(e).code = CodeFromStatus(GrpcCode(e))
<1>1. CASE FromRpcError(e) = Error("internal.unknown", GrpcCode(e), Message(e))
           /\ HasStatus(e) /\ Decisive(e) # {}
  BY <1>1, Fields
<1>2. CASE FromRpcError(e) = Error("reason", GrpcCode(e), Message(e))
           /\ HasStatus(e) /\ Decisive(e) # {} /\ e.details[FirstDecisive(e)] = "conduit"
  BY <1>2, Fields
<1>3. CASE FromRpcError(e) = Error(CodeFromStatus(GrpcCode(e)), GrpcCode(e), Message(e))
           /\ (~HasStatus(e) \/ Decisive(e) = {})
  BY <1>3, Fields
<1>4. QED
  BY <1>1, <1>2, <1>3, Outcome

\* Type correctness of the translation.
THEOREM TypeCorrect == Spec => []TypeOK
<1>1. ASSUME IInv PROVE TypeOK
  <2>1. exc \in Exceptions /\ Pending \in Outputs
    BY <1>1 DEF IInv, Pending, Outputs
  <2>2. DecodeError \in Outputs
    BY <2>1 DEF DecodeError, Outputs
  <2>3. GrpcCode(exc) \in Codes /\ Message(exc) \in {"", "details", "str"}
    BY <2>1, DetailsOf DEF GrpcCode, Message, Codes
  <2>4. CodeFromStatus(GrpcCode(exc)) \in {"internal.unknown"} \cup {Fallback[c] : c \in DOMAIN Fallback}
    BY DEF CodeFromStatus
  <2>5. ASSUME NEW code \in {"reason", "internal.unknown"} \cup {Fallback[c] : c \in DOMAIN Fallback}
        PROVE  Error(code, GrpcCode(exc), Message(exc)) \in Outputs
    BY <2>3, <2>5 DEF Error, Outputs
  <2>6. QED
    BY <1>1, <2>1, <2>2, <2>4, <2>5, Outcome DEF IInv, TypeOK
<1>2. QED
  BY Invariance, <1>1, PTL

\* The client's error always carries a code and a gRPC category, and a message
\* unless the exception had neither details nor a str(), if the translation itself
\* does not raise.
THEOREM Actionable == Spec => []AlwaysActionable
<1> DEFINE Wordless == exc.str = "" /\ (exc.call => exc.text = "")
<1>1. ASSUME IInv, Translated
      PROVE  out.code # "" /\ out.grpc \in Codes /\ (out.text = "" => Wordless)
  <2>1. out = FromRpcError(exc) /\ out # DecodeError
    BY <1>1, Raises DEF IInv, Translated
  <2>2. PICK code \in {"reason", "internal.unknown", CodeFromStatus(GrpcCode(exc))} :
          out = Error(code, GrpcCode(exc), Message(exc))
    BY <1>1, <2>1, Outcome DEF IInv
  <2>3. GrpcCode(exc) \in Codes /\ (Message(exc) = "" => Wordless)
    BY <1>1, DetailsOf DEF IInv, GrpcCode, Message, Codes
  <2>4. CodeFromStatus(GrpcCode(exc)) # ""
    BY Table DEF CodeFromStatus
  <2>5. out.code = code /\ out.grpc = GrpcCode(exc) /\ out.text = Message(exc)
    BY <2>2, Fields
  <2>6. QED
    BY <2>3, <2>4, <2>5
<1>2. QED
  BY Invariance, <1>1, PTL DEF AlwaysActionable

\* For any number of details, in any order and of any domain: the reason is
\* Conduit's own, passed on whenever Conduit's comes first among its own details.
THEOREM ReasonPassedOn == Spec => []ReasonIsConduits
<1> DEFINE First == \E k \in DOMAIN exc.details :
              /\ exc.details[k] = "conduit"
              /\ \A j \in 1..(k - 1) : exc.details[j] \in {"other", "foreign"}
<1>1. ASSUME IInv, Translated PROVE out.code = "reason" <=> HasStatus(exc) /\ First
  <2>0. exc \in Exceptions /\ out = FromRpcError(exc) /\ out # DecodeError
    BY <1>1, Raises DEF IInv, Translated
  <2>1. PICK n \in Nat : exc.details \in [1..n -> Details]
    BY <2>0, DetailsOf
  <2>2. ASSUME HasStatus(exc), First PROVE out.code = "reason"
    <3>1. PICK k \in 1..n : /\ exc.details[k] = "conduit"
                            /\ \A j \in 1..(k - 1) : exc.details[j] \in {"other", "foreign"}
      BY <2>1, <2>2
    <3>2. k \in Decisive(exc)
      BY <2>1, <3>1 DEF Decisive
    <3>3. Decisive(exc) \in SUBSET (1..n)
      BY <2>1 DEF Decisive
    <3>4. FirstDecisive(exc) \in Decisive(exc) /\ FirstDecisive(exc) <= k
      BY <3>2, <3>3, Earliest DEF FirstDecisive
    <3>5. FirstDecisive(exc) = k
      BY <3>1, <3>3, <3>4 DEF Decisive
    <3>6. out = Error("reason", GrpcCode(exc), Message(exc))
      BY <2>0, <2>2, <3>1, <3>2, <3>5, Outcome
    <3>7. QED
      BY <3>6 DEF Error
  <2>3. ASSUME out.code = "reason" PROVE HasStatus(exc) /\ First
    <3>1. CodeFromStatus(GrpcCode(exc)) # "reason"
      BY Table DEF CodeFromStatus
    <3>2. HasStatus(exc) /\ Decisive(exc) # {} /\ exc.details[FirstDecisive(exc)] = "conduit"
      BY <2>0, <2>3, <3>1, CodeOf
    <3>3. QED
      BY <2>0, <3>2, Stops
  <2>4. QED
    BY <2>2, <2>3
<1>2. QED
  BY Invariance, <1>1, PTL DEF ReasonIsConduits

\* However many details there are and whatever their order: a caller of status()
\* who looks at the code alone never takes an answer of a structured handler for an
\* unreachable engine, nor an unreachable engine for an answer.
THEOREM UnreachableTold == Spec => []UnreachableToldApart
<1> DEFINE Transport == {Fallback[c] : c \in Unreached}
<1>1. ASSUME IInv, Translated
      PROVE  /\ exc.by = "nobody" => out.code \in Transport
             /\ exc.by = "handler" => out.code \notin Transport
  <2>0. /\ exc \in Exceptions /\ CanSend(exc)
        /\ out = FromRpcError(exc) /\ FromRpcError(exc) # DecodeError
    BY <1>1, Raises DEF IInv, Translated, Exceptions
  <2>1. ASSUME exc.by = "nobody" PROVE out.code \in Transport
    <3>1. exc.call /\ ~HasStatus(exc) /\ exc.code \in Unreached
      BY <2>0, <2>1 DEF CanSend, HasStatus
    <3>2. out.code = CodeFromStatus(exc.code)
      BY <2>0, <3>1, CodeOf DEF GrpcCode
    <3>3. QED
      BY <3>1, <3>2, Table DEF CodeFromStatus, Unreached
  <2>2. ASSUME exc.by = "handler" PROVE out.code \notin Transport
    <3>1. HasStatus(exc) /\ \E k \in DOMAIN exc.details : exc.details[k] \in {"conduit", "noreason"}
      BY <2>0, <2>2 DEF CanSend, HasStatus
    <3>2. Decisive(exc) # {}
      BY <3>1 DEF Decisive
    <3>3. out.code \in {"reason", "internal.unknown"}
      BY <2>0, <3>1, <3>2, CodeOf
    <3>4. QED
      BY <3>3, Table DEF Unreached
  <2>3. QED
    BY <2>1, <2>2
<1>2. QED
  BY Invariance, <1>1, PTL DEF UnreachableToldApart

\* The one way in which from_rpc_error raises: the trailer, or the first detail
\* that is not somebody else's, has bytes that do not parse.  Bytes like that
\* behind a detail of Conduit's do no harm.
THEOREM RaisesOnlyUnparsed ==
  Spec => [](out.raises = "DecodeError" =>
    /\ exc.call
    /\ \/ exc.trailer = "undecodable"
       \/ /\ exc.trailer = "status"
          /\ \E k \in DOMAIN exc.details :
               /\ exc.details[k] = "undecodable"
               /\ \A j \in 1..(k - 1) : exc.details[j] \in {"other", "foreign"})
<1> DEFINE Unparsed ==
      /\ exc.call
      /\ \/ exc.trailer = "undecodable"
         \/ /\ exc.trailer = "status"
            /\ \E k \in DOMAIN exc.details :
                 /\ exc.details[k] = "undecodable"
                 /\ \A j \in 1..(k - 1) : exc.details[j] \in {"other", "foreign"}
<1>1. ASSUME IInv, out.raises = "DecodeError" PROVE Unparsed
  <2>1. exc \in Exceptions /\ out = FromRpcError(exc)
    BY <1>1, Raises DEF IInv
  <2>2. \A code, grpc, text : Error(code, grpc, text).raises # "DecodeError"
    BY DEF Error
  <2>3. CASE exc.call /\ exc.trailer = "undecodable"
    BY <2>3
  <2>4. CASE HasStatus(exc) /\ Decisive(exc) # {} /\ exc.details[FirstDecisive(exc)] = "undecodable"
    BY <2>1, <2>4, Stops DEF HasStatus
  <2>5. CASE ~(exc.call /\ exc.trailer = "undecodable") /\ (~HasStatus(exc) \/ Decisive(exc) = {})
    BY <1>1, <2>1, <2>2, <2>5 DEF FromRpcError
  <2>6. CASE ~(exc.call /\ exc.trailer = "undecodable") /\ HasStatus(exc) /\ Decisive(exc) # {}
             /\ exc.details[FirstDecisive(exc)] # "undecodable"
    <3>1. exc.details[FirstDecisive(exc)] \in {"conduit", "noreason"}
      BY <2>1, <2>6, Stops
    <3>2. FromRpcError(exc) \in {Error("internal.unknown", GrpcCode(exc), Message(exc)),
                                 Error("reason", GrpcCode(exc), Message(exc))}
      BY <2>6, <3>1 DEF FromRpcError
    <3>3. QED
      BY <1>1, <2>1, <2>2, <3>2
  <2>7. QED
    BY <2>3, <2>4, <2>5, <2>6
<1>2. QED
  BY Invariance, <1>1, PTL
=============================================================================

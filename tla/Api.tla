-------------------------------- MODULE Api --------------------------------
(***************************************************************************)
(* The control-plane API as the client sees it: the services whose stubs   *)
(* Client.__init__ binds to its channel, and the path each method's        *)
(* requests carry (src/src/conduit/_grpc/api/v1/api_pb2_grpc.py).          *)
(***************************************************************************)

PipelineService ==
  {"ListPipelines", "CreatePipeline", "GetPipeline", "UpdatePipeline", "DeletePipeline",
   "StartPipeline", "StopPipeline", "GetDLQ", "UpdateDLQ",
   "ExportPipeline", "ImportPipeline", "PlanPipeline", "ApplyPipeline"}

ConnectorService ==
  {"ListConnectors", "InspectConnector", "GetConnector", "CreateConnector",
   "ValidateConnector", "UpdateConnector", "DeleteConnector", "ListConnectorPlugins"}

ProcessorService ==
  {"ListProcessors", "InspectProcessorIn", "InspectProcessorOut", "GetProcessor",
   "CreateProcessor", "UpdateProcessor", "DeleteProcessor", "ListProcessorPlugins"}

InformationService == {"GetInfo"}

Methods == PipelineService \cup ConnectorService \cup ProcessorService \cup InformationService

\* What a channel binds with unary_stream and Client._call cannot drive.
Streams == {"InspectConnector", "InspectProcessorIn", "InspectProcessorOut"}

Unary == Methods \ Streams

\* A request goes to the service whose stub it was made with.
Path(method) ==
  CASE method \in PipelineService -> <<"PipelineService", method>>
    [] method \in ConnectorService -> <<"ConnectorService", method>>
    [] method \in ProcessorService -> <<"ProcessorService", method>>
    [] method \in InformationService -> <<"InformationService", method>>

Paths == {Path(method) : method \in Unary}
=============================================================================

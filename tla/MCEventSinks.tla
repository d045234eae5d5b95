---------------------------- MODULE MCEventSinks ----------------------------
(***************************************************************************)
(* An instance of EventSinks: two requests and channels of one.  Of the    *)
(* events of a request to Ollama it leaves out awaiting_model, which goes  *)
(* the way of the prompt to a server that is verbose.                      *)
(***************************************************************************)
EXTENDS EventSinks

EventsOfARequest ==
    <<"request_started", "prompt", "telemetry", "result">>
=============================================================================

------------------------------- MODULE CtrlService -------------------------------
(***************************************************************************)
(* The tables of the control service (control/ctrl_service.h): macros run  *)
(* over one list of methods give an enumeration, names, request types, the *)
(* client's calls and the server's methods and handlers, all by position.  *)
(***************************************************************************)
EXTENDS Preprocessor

CTRL_METHOD_SEQ == <<"LoadServer", "Barrier", "PushKV", "ClearKV", "PullKV">>

kCtrlMethodNum == SeqSize(CTRL_METHOD_SEQ)

\* Positions count from 0, as in C++.
At(table, i) == table[i + 1]

\* enum class CtrlMethod, g_method_name and CtrlRequestTuple.
CtrlMethod == ForEach([method \in Range(CTRL_METHOD_SEQ) |-> << <<"k", method>> >>], CTRL_METHOD_SEQ)
g_method_name == ForEach([method \in Range(CTRL_METHOD_SEQ) |-> << <<"/comm_network.CtrlService/", method>> >>], CTRL_METHOD_SEQ)

\* Mutant: void in front of the requests instead of behind them.
CtrlRequestTupleVoidFirst ==
  << <<"void">> >> \o ForEach([method \in Range(CTRL_METHOD_SEQ) |-> << <<method, "Request">> >>], CTRL_METHOD_SEQ)

CtrlRequestTuple == ForEach([method \in Range(CTRL_METHOD_SEQ) |-> << <<method, "Request">> >>], CTRL_METHOD_SEQ)
                    \o << <<"void">> >>

\* The value of an enumerator.
Value(method) == CHOOSE i \in 0 .. Len(CtrlMethod) - 1 : At(CtrlMethod, i) = <<"k", method>>

GetMethodName(i) == At(g_method_name, i)

\* Stub::rpcmethods_: one for each index.
rpcmethods == [i \in 1 .. kCtrlMethodNum |-> GetMethodName(At(IndexSequence[kCtrlMethodNum], i - 1))]

\* What a client that calls method puts on the wire.
CallMethod(method) == [name |-> At(rpcmethods, Value(method)),
                       request |-> At(CtrlRequestTuple, Value(method))]

\* AsyncService(): methods registered in the order of the enumeration.
AsyncService == [i \in 1 .. kCtrlMethodNum |-> GetMethodName(i - 1)]

\* CtrlServer::Init: the handler of method goes where its argument's type says.
handlers == [i \in 0 .. kCtrlMethodNum - 1 |-> CHOOSE method \in Range(CTRL_METHOD_SEQ) : Value(method) = i]

\* EnqueueRequests(): the calls the server has posted, one for each index;
\* each handler posts its own again.
EnqueueRequests ==
  {[name |-> At(AsyncService, i), request |-> At(CtrlRequestTuple, i), handler |-> handlers[i]] :
     i \in Range(IndexSequence[kCtrlMethodNum])}

\* Whoever calls method sends the request of that method, and the server has
\* posted exactly one call under that name, which takes this request and runs
\* the handler of that method.
Understood(method) ==
  LET sent == CallMethod(method) IN
    /\ sent.request = <<method, "Request">>
    /\ {call \in EnqueueRequests : call.name = sent.name}
         = {[name |-> sent.name, request |-> sent.request, handler |-> method]}
================================================================================

-------------------------------- MODULE CApi --------------------------------
(***************************************************************************)
(* The C API (client/src/c_wcf): pointers to C++ objects that the           *)
(* application is given and gives back, and the global lists that tell which *)
(* pointers are valid.  Every function looks a pointer up in the list for    *)
(* its type, in the list for char or the one for wchar_t.                     *)
(*                                                                         *)
(* The objects are promises, handles of calls, results and views; the calls   *)
(* are of one function of the client itself, which a callback or a            *)
(* FuncListener answers.  Addresses are used again once they are free, so that *)
(* a pointer the application has kept may become one of something else.        *)
(***************************************************************************)
EXTENDS Naturals, FiniteSets, Sequences

CONSTANTS
    Thread,     \* of the application
    Address,    \* of heap objects
    Call        \* the calls that are made

Width == {"char", "wchar_t"}
Answers == {"response", "rejection", "notFound"}

VARIABLES
    wcli_list,      \* addresses of clients
    func_result_list, \* {[at, call]}: promises
    fetched_handles,  \* {[w, at, call]}: fetched_handles and fetched_handles_w
    func_val_list,    \* {[w, at, call, answer]}
    view_list,        \* {[w, at]}
    heap,           \* the addresses that are not free
    func,           \* what answers the function: "none", "callback" or "listener"
    func_listener_handlers, \* calls for the listener
    calling,        \* calls whose callback has not got its handle yet
    answer,         \* PromiseData of every call: its answer, "none" or "unused"
    waiting,        \* [Thread -> the promise it waits for, as a set of at most one]
    given,          \* observer: what the application has been given and not given back
    dropped,        \* history: calls that were in the queue of a client that was closed
    raced           \* history: a promise was deleted while a thread waited for it

lists == <<wcli_list, func_result_list, fetched_handles, func_val_list, view_list, heap>>
funcs == <<func, func_listener_handlers, calling>>
history == <<dropped, raced>>
cApiVars == <<lists, funcs, answer, waiting, given, history>>

CApiInit ==
    /\ wcli_list = {} /\ func_result_list = {} /\ fetched_handles = {}
    /\ func_val_list = {} /\ view_list = {} /\ heap = {}
    /\ func = "none" /\ func_listener_handlers = <<>> /\ calling = {}
    /\ answer = [c \in Call |-> "unused"]
    /\ waiting = [t \in Thread |-> {}]
    /\ given = {} /\ dropped = {} /\ raced = FALSE

\* operator new, and what the application is given.
New(a) == a \notin heap /\ heap' = heap \cup {a}
Pointer(kind, a) == [kind |-> kind, at |-> a]
Gives(r) == given' = given \cup {r}
Takes(r) == given' = given \ {r}

Idle(t) == waiting[t] = {}
Promise(a, c) == [at |-> a, call |-> c]
OnPromise(p) == \E t \in Thread : p \in waiting[t]

---------------------------------------------------------------------------
(* Clients (getWcli): every operation below returns WCF_BAD_WCLI without one.  One client *)
(* at a time is made; the operations of a client that has been closed do nothing.          *)

wcfInit(a) ==
    /\ wcli_list = {}
    /\ New(a)
    /\ wcli_list' = {a}
    /\ Gives(Pointer("client", a))
    /\ UNCHANGED <<func_result_list, fetched_handles, func_val_list, view_list, funcs, answer,
                   waiting, history>>

\* The client's functions and queues go with it.  A callback that has been called goes on.
wcfClose(a) ==
    /\ a \in wcli_list
    /\ wcli_list' = wcli_list \ {a} /\ heap' = heap \ {a}
    /\ func' = "none" /\ func_listener_handlers' = <<>>
    /\ dropped' = dropped \cup {func_listener_handlers[i] : i \in DOMAIN func_listener_handlers}
    /\ Takes(Pointer("client", a))
    /\ UNCHANGED <<func_result_list, fetched_handles, func_val_list, view_list, calling, answer,
                   waiting, raced>>

\* wcfFuncSet and wcfFuncSetAsync, or wcfFuncListen.
wcfFuncSet ==
    /\ wcli_list # {}
    /\ func' \in {"callback", "listener"} \ {func}
    /\ UNCHANGED <<lists, func_listener_handlers, calling, answer, waiting, given, history>>

\* wcfViewGet: an array of components, if there is data and it is not empty.
wcfViewGet(w, a) ==
    /\ wcli_list # {}
    /\ New(a)
    /\ view_list' = view_list \cup {[w |-> w, at |-> a]}
    /\ Gives(Pointer("view", a))
    /\ UNCHANGED <<wcli_list, func_result_list, fetched_handles, func_val_list, funcs, answer,
                   waiting, history>>

---------------------------------------------------------------------------
(* The callee's side *)

\* A call goes to what answers the function: FuncInfo::run, the lambda of FuncListener.
\* With a wrong number of arguments it is answered at once (assertArgsNum).
Start(c) ==
    /\ answer[c] = "unused"
    /\ \/ /\ func = "none" /\ answer' = [answer EXCEPT ![c] = "notFound"]
          /\ UNCHANGED <<calling, func_listener_handlers>>
       \/ /\ func # "none" /\ answer' = [answer EXCEPT ![c] = "rejection"]
          /\ UNCHANGED <<calling, func_listener_handlers>>
       \/ /\ func = "callback" /\ answer' = [answer EXCEPT ![c] = "none"]
          /\ calling' = calling \cup {c}
          /\ UNCHANGED func_listener_handlers
       \/ /\ func = "listener" /\ answer' = [answer EXCEPT ![c] = "none"]
          /\ func_listener_handlers' = Append(func_listener_handlers, c)
          /\ UNCHANGED calling
    /\ UNCHANGED func

\* createHandle, of a CallHandle that the callback or fetchCall has been given.
createHandle(w, a, c) ==
    /\ New(a)
    /\ fetched_handles' = fetched_handles \cup {[w |-> w, at |-> a, call |-> c]}
    /\ Gives(Pointer("handle", a))

\* The callback of set(), which runs before runAsync returns, or the one of setAsync().
callback(w, a) ==
    /\ \E c \in calling : /\ createHandle(w, a, c)
                          /\ calling' = calling \ {c}
    /\ UNCHANGED <<wcli_list, func_result_list, func_val_list, view_list, func,
                   func_listener_handlers, answer, waiting, history>>

\* WCF_NOT_CALLED with an empty queue.
wcfFuncFetchCall(w, a) ==
    /\ wcli_list # {} /\ func_listener_handlers # <<>>
    /\ createHandle(w, a, Head(func_listener_handlers))
    /\ func_listener_handlers' = Tail(func_listener_handlers)
    /\ UNCHANGED <<wcli_list, func_result_list, func_val_list, view_list, func, calling, answer,
                   waiting, history>>

\* wcfFuncRespond and wcfFuncReject; WCF_BAD_HANDLE for everything but a handle of this width.
wcfFuncRespond(w, a) ==
    /\ \E h \in fetched_handles :
        /\ h.w = w /\ h.at = a
        /\ \E x \in {"response", "rejection"} : answer' = [answer EXCEPT ![h.call] = x]
        /\ fetched_handles' = fetched_handles \ {h}
    /\ heap' = heap \ {a}
    /\ Takes(Pointer("handle", a))
    /\ UNCHANGED <<wcli_list, func_result_list, func_val_list, view_list, funcs, waiting, history>>

---------------------------------------------------------------------------
(* The caller's side *)

wcfFuncRunAsync(c, a) ==
    /\ wcli_list # {}
    /\ Start(c)
    /\ New(a)
    /\ func_result_list' = func_result_list \cup {Promise(a, c)}
    /\ Gives(Pointer("promise", a))
    /\ UNCHANGED <<wcli_list, fetched_handles, func_val_list, view_list, waiting, history>>

\* wcfFuncRun waits for a promise of its own, which is in no list.
wcfFuncRun(t, c) ==
    /\ Idle(t) /\ wcli_list # {}
    /\ Start(c)
    /\ waiting' = [waiting EXCEPT ![t] = {Promise("stack", c)}]
    /\ UNCHANGED <<lists, given, history>>

\* resultToCVal
Value(w, a, c) == [w |-> w, at |-> a, call |-> c, answer |-> answer[c]]

\* wcfFuncRun returns.
ReturnRun(t, w, a) ==
    \E p \in waiting[t] :
        /\ p.at = "stack" /\ answer[p.call] \in Answers
        /\ New(a)
        /\ func_val_list' = func_val_list \cup {Value(w, a, p.call)}
        /\ Gives(Pointer("value", a))
        /\ waiting' = [waiting EXCEPT ![t] = {}]
        /\ UNCHANGED <<wcli_list, func_result_list, fetched_handles, view_list, funcs, answer,
                       history>>

\* A defect that the properties exclude: the promise stays in its list.
TakeResultKept(p, w, a) ==
    /\ a \notin heap /\ heap' = (heap \cup {a}) \ {p.at}
    /\ func_val_list' = func_val_list \cup {Value(w, a, p.call)}
    /\ given' = (given \ {Pointer("promise", p.at)}) \cup {Pointer("value", a)}
    /\ UNCHANGED func_result_list

\* The result of a promise that has been answered is put into a new value, then the
\* promise is erased and deleted.
TakeResult(p, w, a) ==
    /\ a \notin heap /\ heap' = (heap \cup {a}) \ {p.at}
    /\ func_val_list' = func_val_list \cup {Value(w, a, p.call)}
    /\ func_result_list' = func_result_list \ {p}
    /\ given' = (given \ {Pointer("promise", p.at)}) \cup {Pointer("value", a)}

\* wcfFuncGetResult: WCF_NOT_RETURNED if the call has not been answered.
wcfFuncGetResult(t, p, w, a) ==
    /\ Idle(t) /\ p \in func_result_list
    /\ answer[p.call] \in Answers
    /\ TakeResult(p, w, a)
    /\ raced' = (raced \/ OnPromise(p))
    /\ UNCHANGED <<wcli_list, fetched_handles, view_list, funcs, answer, waiting, dropped>>

\* wcfFuncWaitResult looks the promise up, waits, and uses what it has found before.
wcfFuncWaitResult(t, p) ==
    /\ Idle(t) /\ p \in func_result_list
    /\ waiting' = [waiting EXCEPT ![t] = {p}]
    /\ UNCHANGED <<lists, funcs, answer, given, history>>
ReturnWait(t, w, a) ==
    \E p \in waiting[t] :
        /\ p.at # "stack" /\ answer[p.call] \in Answers
        /\ TakeResult(p, w, a)
        /\ waiting' = [waiting EXCEPT ![t] = {}]
        /\ raced' = (raced \/ \E u \in Thread \ {t} : p \in waiting[u])
        /\ UNCHANGED <<wcli_list, fetched_handles, view_list, funcs, answer, dropped>>

\* wcfDestroy of a result, a view or a promise; WCF_BAD_HANDLE for clients and handles, and
\* for what is in no list.
wcfDestroy(a) ==
    /\ \/ /\ \E v \in func_val_list : v.at = a /\ func_val_list' = func_val_list \ {v}
          /\ Takes(Pointer("value", a))
          /\ UNCHANGED <<view_list, func_result_list, raced>>
       \/ /\ \E v \in view_list : v.at = a /\ view_list' = view_list \ {v}
          /\ Takes(Pointer("view", a))
          /\ UNCHANGED <<func_val_list, func_result_list, raced>>
       \/ /\ \E p \in func_result_list :
               /\ p.at = a /\ func_result_list' = func_result_list \ {p}
               /\ raced' = (raced \/ OnPromise(p))
          /\ Takes(Pointer("promise", a))
          /\ UNCHANGED <<func_val_list, view_list>>
    /\ heap' = heap \ {a}
    /\ UNCHANGED <<wcli_list, fetched_handles, funcs, answer, waiting, dropped>>

---------------------------------------------------------------------------
\* What a program that uses freed memory does is not followed.
CApiNext ==
    /\ ~raced
    /\ \/ \E a \in Address : wcfInit(a) \/ wcfClose(a) \/ wcfDestroy(a)
       \/ wcfFuncSet
       \/ \E w \in Width, a \in Address : \/ wcfViewGet(w, a) \/ callback(w, a)
                                          \/ wcfFuncFetchCall(w, a) \/ wcfFuncRespond(w, a)
       \/ \E c \in Call, a \in Address : wcfFuncRunAsync(c, a)
       \/ \E t \in Thread, c \in Call : wcfFuncRun(t, c)
       \/ \E t \in Thread, w \in Width, a \in Address :
            \/ ReturnRun(t, w, a) \/ ReturnWait(t, w, a)
            \/ \E p \in func_result_list : wcfFuncGetResult(t, p, w, a)
       \/ \E t \in Thread, p \in func_result_list : wcfFuncWaitResult(t, p)

CApiSpec == CApiInit /\ [][CApiNext]_cApiVars

---------------------------------------------------------------------------
\* What the lists say there is, and where.
Listed ==
    {Pointer("client", a) : a \in wcli_list}
    \cup {Pointer("promise", p.at) : p \in func_result_list}
    \cup {Pointer("handle", h.at) : h \in fetched_handles}
    \cup {Pointer("value", v.at) : v \in func_val_list}
    \cup {Pointer("view", v.at) : v \in view_list}
Entries == Cardinality(wcli_list) + Cardinality(func_result_list)
           + Cardinality(fetched_handles) + Cardinality(func_val_list)
           + Cardinality(view_list)

\* As long as no two threads use the same promise at once: every object is in exactly one
\* list, at an address that is not free, and the application has a pointer to it.  So
\* nothing is deleted twice, used after it was deleted or left behind, and no function takes
\* a pointer for one of another kind, although addresses are used again.
PointersValid ==
    ~raced => /\ Listed = given
              /\ Entries = Cardinality(heap)
              /\ heap = {r.at : r \in given}

\* How often a call is waiting to be answered: by a callback, in the queue, by a handle.
Waits(c) == Cardinality({c} \cap calling)
            + Cardinality({i \in DOMAIN func_listener_handlers :
                            func_listener_handlers[i] = c})
            + Cardinality({h \in fetched_handles : h.call = c})

\* A call can be answered once: if it has been, there is nothing left that would answer it
\* again, and until then there is, unless its client was closed.  A result is the answer of
\* its call.
AnsweredOnce ==
    /\ \A c \in Call : Waits(c) = IF answer[c] = "none" /\ c \notin dropped THEN 1 ELSE 0
    /\ \A v \in func_val_list : v.answer = answer[v.call]

\* What the C interface hands out is valid and answered at most once, however addresses are
\* used again: the two above.
HandlesKept == PointersValid /\ AnsweredOnce

---------------------------------------------------------------------------
(* The inductive strengthening of the properties.                          *)

CApiTypeOK ==
    /\ wcli_list \subseteq Address /\ view_list \subseteq [w : Width, at : Address]
    /\ func_result_list \subseteq [at : Address, call : Call]
    /\ fetched_handles \subseteq [w : Width, at : Address, call : Call]
    /\ func_val_list \subseteq [w : Width, at : Address, call : Call, answer : Answers]
    /\ func \in {"none", "callback", "listener"}
    /\ func_listener_handlers \in Seq(Call) /\ calling \subseteq Call
    /\ answer \in [Call -> Answers \cup {"none", "unused"}]
    /\ waiting \in [Thread -> SUBSET [at : Address \cup {"stack"}, call : Call]]
    /\ dropped \subseteq Call /\ raced \in BOOLEAN

\* The entries of all lists: each is at an address of its own, and what is allocated and
\* what the application has been given are exactly these.
Tagged(kind, list) == {<<kind, x>> : x \in list}
Clients == {[at |-> a] : a \in wcli_list}
Objects ==
    Tagged("client", Clients)
    \cup Tagged("promise", func_result_list) \cup Tagged("handle", fetched_handles)
    \cup Tagged("value", func_val_list) \cup Tagged("view", view_list)
Kept(objs, pointers, addresses) ==
    /\ IsFiniteSet(objs)
    /\ \A x, y \in objs : x[2].at = y[2].at => x = y
    /\ pointers = {Pointer(x[1], x[2].at) : x \in objs}
    /\ addresses = {x[2].at : x \in objs}
WaitedForKept ==
    \A t \in Thread : \A p \in waiting[t] : p.at # "stack" => p \in func_result_list
PointersKept == Kept(Objects, given, heap) /\ WaitedForKept

\* Where a call waits to be answered: at one of three places, and once there.
InQueue(c) == \E i \in DOMAIN func_listener_handlers : func_listener_handlers[i] = c
InHandles(c) == \E h \in fetched_handles : h.call = c
OnePlace(c) ==
    /\ ~(c \in calling /\ InQueue(c)) /\ ~(c \in calling /\ InHandles(c))
    /\ ~(InQueue(c) /\ InHandles(c))
    /\ \A i, j \in DOMAIN func_listener_handlers :
          func_listener_handlers[i] = c /\ func_listener_handlers[j] = c => i = j
    /\ \A g, h \in fetched_handles : g.call = c /\ h.call = c => g = h
CallsWait ==
    /\ \A c \in Call : /\ OnePlace(c)
                       /\ c \in calling \/ InQueue(c) \/ InHandles(c)
                             <=> answer[c] = "none" /\ c \notin dropped
                       /\ c \in dropped => answer[c] = "none"
    /\ \A v \in func_val_list : v.answer = answer[v.call]

CApiInv == CApiTypeOK /\ CallsWait /\ (~raced => PointersKept)
=============================================================================

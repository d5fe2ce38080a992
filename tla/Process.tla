------------------------------- MODULE Process -------------------------------
(***************************************************************************)
(* The program (cmd/main.go): it puts the TLS options of its two servers   *)
(* together, builds the manager, adds what the manager runs and starts it. *)
(* Any call may fail, and ends the process; the kubelet starts it again    *)
(* with the same flags.                                                    *)
(*                                                                         *)
(* The TLS options are Go slices: a slice names an array and a length, and *)
(* append writes to the array itself while there is room after the length. *)
(* Two slices that begin as one then share what either of them appends.    *)
(***************************************************************************)
EXTENDS Naturals, Sequences

CONSTANTS
    FlagSets,   \* command lines: [http2 : BOOLEAN, certs : SUBSET Servers, elect : BOOLEAN]
    MaxExits    \* bound on the times the process ends

VARIABLES
    pc,        \* the next step of main, or what the manager does
    flags,     \* the command line
    arrays,    \* the arrays behind slices, as long as their capacity
    slices,    \* tlsOpts and the options of the servers
    watchers,  \* certificate watchers that were made
    runnables, \* those that the manager runs
    exits

mainVars == <<arrays, slices, watchers, runnables>>
processVars == <<pc, flags, mainVars, exits>>

Servers == {"webhook", "metrics"}

ASSUME ProcessAssumption ==
    /\ FlagSets \subseteq [http2 : BOOLEAN, certs : SUBSET Servers, elect : BOOLEAN]
    /\ MaxExits \in Nat

\* An option is the function disableHTTP2, or sets the certificate of a watcher.
Options == {"disableHTTP2"} \cup Servers

Nil == [array |-> 0, len |-> 0]

ProcessInit ==
    /\ flags \in FlagSets
    /\ pc = "flags" /\ exits = 0
    /\ arrays = <<>> /\ slices = [s \in {"tls"} \cup Servers |-> Nil]
    /\ watchers = {} /\ runnables = {}

Step(from, to) == pc = from /\ pc' = to /\ UNCHANGED <<flags, exits>>

Contents(s) == IF s.array = 0 THEN <<>> ELSE SubSeq(arrays[s.array], 1, s.len)

Capacity(s) == IF s.array = 0 THEN 0 ELSE Len(arrays[s.array])

\* The capacity of the array that append moves n elements to (runtime.growslice).
GrowSlice(old, n) == IF n > 2 * old THEN n ELSE 2 * old

\* slices[to] = append(slices[from], option)
AppendTo(to, from, option) ==
    LET s == slices[from]
        n == s.len + 1
        moved == [i \in 1 .. GrowSlice(Capacity(s), n) |->
                    IF i <= s.len THEN Contents(s)[i] ELSE IF i = n THEN option ELSE "nil"]
    IN  IF n <= Capacity(s)
        THEN /\ arrays' = [arrays EXCEPT ![s.array] = [@ EXCEPT ![n] = option]]
             /\ slices' = [slices EXCEPT ![to] = [array |-> s.array, len |-> n]]
        ELSE /\ arrays' = Append(arrays, moved)
             /\ slices' = [slices EXCEPT ![to] = [array |-> Len(arrays) + 1, len |-> n]]

ParseFlags ==
    /\ Step("flags", "webhookServer")
    /\ IF flags.http2 THEN UNCHANGED <<arrays, slices>>
       ELSE AppendTo("tls", "tls", "disableHTTP2")
    /\ UNCHANGED <<watchers, runnables>>

\* The options of a server start as tlsOpts; its watcher is made if there is a path.
ServerOptions(server) ==
    IF server \in flags.certs
    THEN AppendTo(server, "tls", server) /\ watchers' = watchers \cup {server}
    ELSE /\ slices' = [slices EXCEPT ![server] = slices["tls"]]
         /\ UNCHANGED <<arrays, watchers>>

NewWebhookServer ==
    Step("webhookServer", "metricsServer") /\ ServerOptions("webhook") /\ UNCHANGED runnables

\* Faulty variant of NewMetricsServer: the options start as those of the webhook server.
NewMetricsServerOnWebhook ==
    /\ Step("metricsServer", "manager")
    /\ IF "metrics" \in flags.certs
       THEN AppendTo("metrics", "webhook", "metrics") /\ watchers' = watchers \cup {"metrics"}
       ELSE /\ slices' = [slices EXCEPT !["metrics"] = slices["webhook"]]
            /\ UNCHANGED <<arrays, watchers>>
    /\ UNCHANGED runnables

NewMetricsServer ==
    Step("metricsServer", "manager") /\ ServerOptions("metrics") /\ UNCHANGED runnables

NewManager == Step("manager", "controller") /\ UNCHANGED mainVars

SetupController == Step("controller", "webhook") /\ UNCHANGED mainVars

SetupWebhook == Step("webhook", "metricsWatcher") /\ UNCHANGED mainVars

AddWatcher(server) ==
    /\ runnables' = IF server \in watchers THEN runnables \cup {server} ELSE runnables
    /\ UNCHANGED <<arrays, slices, watchers>>

AddMetricsWatcher == Step("metricsWatcher", "webhookWatcher") /\ AddWatcher("metrics")

AddWebhookWatcher == Step("webhookWatcher", "checks") /\ AddWatcher("webhook")

AddChecks == Step("checks", "start") /\ UNCHANGED mainVars

\* Webhooks are served at once, controllers wait to be elected.
Start == Step("start", IF flags.elect THEN "serving" ELSE "leading") /\ UNCHANGED mainVars

Elected == Step("serving", "leading") /\ UNCHANGED mainVars

SetUp ==
    \/ ParseFlags \/ NewWebhookServer \/ NewMetricsServer \/ NewManager \/ SetupController
    \/ SetupWebhook \/ AddMetricsWatcher \/ AddWebhookWatcher \/ AddChecks \/ Start

\* A call fails, the manager returns or the lease is lost: nothing of the memory is left.
Exit ==
    /\ pc \notin {"flags", "exited"} /\ exits < MaxExits
    /\ pc' = "exited" /\ exits' = exits + 1
    /\ arrays' = <<>> /\ slices' = [s \in {"tls"} \cup Servers |-> Nil]
    /\ watchers' = {} /\ runnables' = {}
    /\ UNCHANGED flags

Restart == Step("exited", "flags") /\ UNCHANGED mainVars

Serving == pc \in {"serving", "leading"}

\* The option that is applied last sets the certificate.
Certificate(server) ==
    LET c == Contents(slices[server])
        sets == {i \in 1 .. slices[server].len : c[i] \in Servers}
    IN  IF sets = {} THEN "generated" ELSE c[CHOOSE i \in sets : \A j \in sets : j <= i]

\* A server that serves uses the certificate its own flag names, from a watcher that
\* the manager runs, or a generated one without the flag, and takes HTTP/2 only if
\* asked to, although the options of both are appended to one slice (cmd/main.go).
ServersUseOwnOptions ==
    Serving => \A server \in Servers :
        /\ Certificate(server) = IF server \in flags.certs THEN server ELSE "generated"
        /\ server \in flags.certs => server \in runnables
        /\ flags.http2 <=> \A i \in 1 .. slices[server].len :
                               Contents(slices[server])[i] # "disableHTTP2"

=============================================================================

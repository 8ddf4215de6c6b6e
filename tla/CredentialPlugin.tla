-------------------------- MODULE CredentialPlugin --------------------------
(***************************************************************************)
(* One process of an exec credential plugin of this repository:            *)
(* credentialplugin.Run with the providers secretreader and                *)
(* kubeconfig-secretreader.  A client starts it with KUBERNETES_EXEC_INFO  *)
(* and a pipe for its standard output, and may give up on it.  Meanwhile   *)
(* the Secrets on the hub change.  What goes to standard error is left out *)
(***************************************************************************)
EXTENDS Integers, Sequences

CONSTANTS
    Starts,      \* how the process may be started: [plugin, env, info, hub]
    Namespaces,  \* namespaces of the hub
    Contents,    \* what the Secret may be replaced by
    MaxChanges,  \* bound on the changes of the Secrets asked for
    None

\* A plugin is what Provider.Name() returns; it may be "".
\* An environment: [inCluster, kubeconfig, contextNamespace, podNamespace].
\* kubeconfig is "none" if there is no such file, "home" if there is only the
\* default one, "missing" if $KUBECONFIG is not the path of one file (it may be
\* a list of paths), and "ok" otherwise.
\* An ExecInfo: [form, server, config]; form is "unset", "malformed", "v1beta1"
\* or "v1".  A config: [form, name, key, namespace, context], of which the
\* secretreader uses the name; form is "absent", "malformed" or "ok".
\* The data of a Secret: a function from keys to values [form, ...], whose form
\* is "empty", "text", or "kubeconfig", which has extensions, current, contexts
\* and users; extensions says that there are some at its top level.
\* A user: [token, certData, keyData, certPath, keyPath].  "" is what is absent.

ASSUME PluginAssumption ==
    /\ MaxChanges \in Nat /\ "default" \in Namespaces
    /\ None \notin {0, 1, 2}
    /\ \A s \in Starts : s.env.contextNamespace \in Namespaces \cup {""}

VARIABLES
    plugin, env, info,  \* what the process is started with; fixed
    hub,      \* hub[n]: None, or the data of the Secret asked for, in namespace n
    pc,       \* where the process is
    code,     \* its exit code, -1 if a signal ended it, None before that
    status,   \* the ExecCredentialStatus to print, None before
    buffer,   \* the buffered output
    out,      \* what has gone to standard output
    closed,   \* the client has closed its end of the pipe
    changes,  \* history: the number of changes of the hub
    seen,     \* history: what hub has been while GetToken looked
    refused   \* history: the API server has failed to answer

started == <<plugin, env, info>>
outside == <<hub, closed, changes, seen>>
process == <<pc, code, status, buffer, out, refused>>
vars == <<started, outside, process>>

-----------------------------------------------------------------------------
(* Where the process looks.                                                *)

\* NewDefault: the client is for the cluster it runs in if it runs in one.  The
\* default kubeconfig makes a namespace, but not a client.
\* Mutant: only a kubeconfig is tried.
MutNoInCluster == env.kubeconfig = "ok"

HasClient == env.inCluster \/ env.kubeconfig = "ok"

\* A $KUBECONFIG that cannot be loaded is an error of cc.Namespace().
inferNamespace(e) ==
    IF e.kubeconfig = "missing" THEN "default"
    ELSE IF e.kubeconfig \in {"ok", "home"} /\ e.contextNamespace # "" THEN e.contextNamespace
    ELSE IF e.inCluster THEN e.podNamespace ELSE "default"

Config == info.config

\* The namespace that the Secret is read from.
Namespace ==
    IF plugin = "kubeconfig-secretreader" /\ Config.namespace # ""
    THEN Config.namespace ELSE inferNamespace(env)

\* What readExecInfo accepts.
ReadExecInfo ==
    /\ info.form = "v1"
    /\ info.server \notin {"", " ", "null"}

\* What GetToken asks of the configuration before it reads the Secret.
ValidConfig ==
    /\ Config.form = "ok"
    /\ Config.name # ""
    /\ plugin = "kubeconfig-secretreader" => Config.key # ""

Key == IF plugin = "secretreader" THEN "token" ELSE Config.key

-----------------------------------------------------------------------------
(* What GetToken makes of the value it finds: one status, or an error and  *)
(* no status.                                                              *)

Credential(token, cert, key) == [token |-> token, cert |-> cert, key |-> key]

HasCert(user) == user.certData # "" \/ user.certPath # ""
HasKey(user)  == user.keyData # "" \/ user.keyPath # ""

\* Mutant: a certificate without a key is taken for a credential.
MutPaired(user) == HasCert(user) \/ ~HasKey(user)

Paired(user) == HasCert(user) = HasKey(user)

Inline(user) ==
    (HasCert(user) => user.certData # "") /\ (HasKey(user) => user.keyData # "")

UserStatus(user) ==
    IF ~Paired(user) \/ ~Inline(user) THEN {}
    ELSE IF user.token = "" /\ user.certData = "" THEN {}
    ELSE {Credential(user.token, user.certData, user.keyData)}

ContextName(kubeconfig) ==
    IF Config.context # "" THEN Config.context ELSE kubeconfig.current

KubeconfigStatus(kubeconfig) ==
    LET context == ContextName(kubeconfig)
    IN  IF \/ kubeconfig.extensions
           \/ context = "" \/ context \notin DOMAIN kubeconfig.contexts
           \/ kubeconfig.contexts[context] \notin DOMAIN kubeconfig.users
        THEN {}
        ELSE UserStatus(kubeconfig.users[kubeconfig.contexts[context]])

\* data[key] that is absent or empty is an error.
SecretStatus(data) ==
    IF data = None \/ Key \notin DOMAIN data \/ data[Key].form = "empty" THEN {}
    ELSE IF plugin = "secretreader" THEN {Credential(data[Key], "", "")}
    ELSE IF data[Key].form # "kubeconfig" THEN {}
    ELSE KubeconfigStatus(data[Key])

-----------------------------------------------------------------------------

Init ==
    /\ \E s \in Starts :
         plugin = s.plugin /\ env = s.env /\ info = s.info /\ hub = s.hub
    /\ pc = "main" /\ code = None /\ status = None
    /\ buffer = << >> /\ out = << >> /\ closed = FALSE
    /\ changes = 0 /\ seen = {} /\ refused = FALSE

Exit(c) == pc' = "exited" /\ code' = c

Continue(l) == pc' = l /\ UNCHANGED code

Fail == Exit(1)

\* main: without a client it panics, which is exit code 2.  Run: a provider
\* without a name is refused, and so is an ExecCredential that it cannot use.
NewDefault ==
    /\ pc = "main"
    /\ IF HasClient THEN Continue("run") ELSE Exit(2)
    /\ UNCHANGED <<started, outside, status, buffer, out, refused>>

Run ==
    /\ pc = "run"
    /\ IF plugin # "" /\ ReadExecInfo /\ ValidConfig THEN Continue("get") ELSE Fail
    /\ seen' = IF pc' = "get" THEN {hub} ELSE {}
    /\ UNCHANGED <<started, hub, closed, changes, status, buffer, out, refused>>

GetToken ==
    /\ pc = "get"
    /\ \/ /\ status' \in SecretStatus(hub[Namespace])
          /\ Continue("write") /\ UNCHANGED refused
       \/ /\ SecretStatus(hub[Namespace]) = {}
          /\ Fail /\ UNCHANGED <<status, refused>>
       \/ /\ refused' = TRUE  \* the API server cannot be reached
          /\ Fail /\ UNCHANGED status
    /\ UNCHANGED <<started, outside, buffer, out>>

\* A write to the pipe.  After the client has closed it, the write ends the
\* process (SIGPIPE), with a part of the data written or none.
Emit(data, next) ==
    \/ ~closed /\ out' = out \o data /\ next
    \/ /\ closed
       /\ out' \in {out, Append(out, "part")}
       /\ Exit(-1) /\ buffer' = << >>

\* bufio's Write: what exceeds its buffer goes out at once.
Write ==
    /\ pc = "write"
    /\ \/ Emit(<<"credential">>, Continue("newline") /\ UNCHANGED buffer)
       \/ buffer' = <<"credential">> /\ Continue("newline") /\ UNCHANGED out
    /\ UNCHANGED <<started, outside, status, refused>>

WriteByte ==
    /\ pc = "newline" /\ Continue("flush")
    /\ buffer' = Append(buffer, "newline")
    /\ UNCHANGED <<started, outside, status, out, refused>>

Flushed == buffer

Flush ==
    /\ pc = "flush"
    /\ Emit(Flushed, Exit(0) /\ buffer' = << >>)
    /\ UNCHANGED <<started, outside, status, refused>>

-----------------------------------------------------------------------------
(* The outside world.                                                      *)

\* A Secret that may be asked for is created, replaced or deleted.
ChangeSecret ==
    /\ pc \in {"get", "write", "newline", "flush"} /\ changes < MaxChanges
    /\ changes' = changes + 1
    /\ \E n \in Namespaces, data \in Contents \cup {None} :
          /\ data # hub[n]
          /\ hub' = [hub EXCEPT ![n] = data]
    /\ seen' = IF pc = "get" THEN seen \cup {hub'} ELSE seen
    /\ UNCHANGED <<started, process, closed>>

\* The client gives up: it reads no more, and may kill the process.
GiveUp ==
    /\ pc # "exited" /\ ~closed
    /\ closed' = TRUE
    /\ UNCHANGED <<started, process, hub, changes, seen>>

Killed ==
    /\ pc # "exited" /\ closed
    /\ Exit(-1)
    /\ UNCHANGED <<started, outside, status, buffer, out, refused>>

Next ==
    \/ NewDefault \/ Run \/ GetToken \/ Write \/ WriteByte \/ Flush
    \/ ChangeSecret \/ GiveUp \/ Killed

Spec == Init /\ [][Next]_vars

-----------------------------------------------------------------------------

\* What the plugins' documentation says that the data of a Secret holds: the
\* token and the inline key pair of the user of the chosen context; at least one
\* of them, a pair that is whole, and no file.  "" chooses no context.
Held(data) ==
    IF data = None \/ Key \notin DOMAIN data \/ data[Key].form = "empty" THEN {}
    ELSE IF plugin = "secretreader" THEN {Credential(data[Key], "", "")}
    ELSE IF data[Key].form # "kubeconfig" \/ data[Key].extensions THEN {}
    ELSE LET k == data[Key]
             contexts == {c \in DOMAIN k.contexts \ {""} :
                             c = Config.context \/ (Config.context = "" /\ c = k.current)}
             users == {k.users[u] : u \in {k.contexts[c] : c \in contexts} \cap DOMAIN k.users}
         IN  {Credential(u.token, u.certData, u.keyData) : u \in {v \in users :
                 \/ v.certData # "" /\ v.keyData # ""
                 \/ /\ v.token # ""
                    /\ {v.certData, v.keyData, v.certPath, v.keyPath} = {""}}}

\* What nothing promises an answer to: no cluster to ask, a provider without a
\* name, or a request that lacks what the plugin says is required.
BadStart ==
    \/ ~env.inCluster /\ env.kubeconfig # "ok"
    \/ plugin = "" \/ info.form # "v1" \/ info.server \in {"", " ", "null"}
    \/ info.config.form # "ok" \/ info.config.name = ""
    \/ plugin = "kubeconfig-secretreader" /\ info.config.key = ""

\* Only kubeconfig-secretreader can be told the namespace.
NamespaceGiven == plugin = "kubeconfig-secretreader" /\ info.config.namespace # ""

\* The namespace that the documentation names: the one that is given, or that of
\* the kubeconfig's context, or that of the Pod, or else "default".
DocumentedNamespace ==
    CASE NamespaceGiven -> info.config.namespace
      [] ~NamespaceGiven /\ env.kubeconfig \in {"ok", "home"} /\ env.contextNamespace # "" ->
            env.contextNamespace
      [] OTHER -> IF env.inCluster THEN env.podNamespace ELSE "default"

\* The one case in which the code reads another namespace, "default": in a Pod,
\* with a kubeconfig that cannot be loaded.
Misread == ~NamespaceGiven /\ env.inCluster /\ env.kubeconfig = "missing"

PromisedNamespace == IF Misread THEN "default" ELSE DocumentedNamespace

\* There was a moment at which namespace n of the hub held no credential, or
\* there is another reason to fail.
Justified(n) == BadStart \/ refused \/ \E h \in seen : Held(h[n]) = {}

\* Exit code 0: the one thing printed is a credential that the Secret held
\* between the start of GetToken and its answer, complete and on a line.  The
\* Secret is the one in the namespace that the documentation names, up to Misread.
ExitZeroIsCredential ==
    code = 0 => /\ out = <<"credential", "newline">>
                /\ \E h \in seen : status \in Held(h[PromisedNamespace])

\* Another exit code comes with nothing on standard output, and only because
\* the process was started wrongly, the API server did not answer, or there was
\* a moment at which the documented Secret, up to Misread, held no credential.
FailureIsJustified ==
    code \in {1, 2} => out = << >> /\ Justified(PromisedNamespace)

\* The documentation without the exception: a plugin that is started well and
\* gets its answers fails only if the documented namespace lacked a credential.
DocumentedSecretIsRead == code \in {1, 2} => Justified(DocumentedNamespace)
=============================================================================

------------------------- MODULE MCCredentialPlugin -------------------------
(* Instances of CredentialPlugin for TLC.                                  *)
EXTENDS CredentialPlugin, TLC

CONSTANT none

Reader == "secretreader"
KubeconfigReader == "kubeconfig-secretreader"

Environment(inCluster, file, ns) ==
    [inCluster |-> inCluster, kubeconfig |-> file, contextNamespace |-> ns, podNamespace |-> "pod"]

AllEnvironments ==
    {Environment(b, f, "") : b \in BOOLEAN, f \in {"none", "missing", "ok"}} \cup
    {Environment(b, f, "ctx") : b \in BOOLEAN, f \in {"ok", "home"}}

Config0(name, key, ns, context) ==
    [form |-> "ok", name |-> name, key |-> key, namespace |-> ns, context |-> context]
NoConfig(form) == [Config0("", "", "", "") EXCEPT !.form = form]

Info(form, server, config) == [form |-> form, server |-> server, config |-> config]
Good(config) == Info("v1", "https", config)

\* Everything that KUBERNETES_EXEC_INFO may lack.
AllInfos ==
    {Info(f, "https", NoConfig("absent")) : f \in {"unset", "malformed", "v1beta1"}} \cup
    {Info("v1", s, Config0("s", "k", "", "")) : s \in {"", " ", "null", "https"}} \cup
    {Good(NoConfig(f)) : f \in {"absent", "malformed"}} \cup
    {Good(Config0("", "k", "", "")), Good(Config0("s", "", "", "")),
     Good(Config0("s", "k", "other", ""))}

Text(t) == [form |-> "text", text |-> t]
Empty   == [form |-> "empty"]

User(token, cert, key, certPath, keyPath) ==
    [token |-> token, certData |-> cert, keyData |-> key, certPath |-> certPath, keyPath |-> keyPath]

Kubeconfig(extensions, current, contexts, users) ==
    [form |-> "kubeconfig", extensions |-> extensions, current |-> current,
     contexts |-> contexts, users |-> users]

AllUsers == {User(t, c, k, cp, kp) : t \in {"", "t"}, c \in {"", "c"}, k \in {"", "k"},
                                     cp \in {"", "file"}, kp \in {"", "file"}}

\* Kubeconfigs of two contexts, of which one names a user that may not exist.
AllKubeconfigs ==
    {Kubeconfig(e, cur, "c1" :> "u1" @@ "c2" :> "u2", users) :
        e \in BOOLEAN, cur \in {"", "c1", "c2"},
        users \in {"u1" :> u : u \in AllUsers} \cup
                  {"u1" :> User("t1", "", "", "", "") @@ "u2" :> u : u \in AllUsers}}

\* A context may have no name.
NoName == {Kubeconfig(FALSE, cur, "" :> "u1", "u1" :> User("t", "", "", "", "")) :
              cur \in {"", "c1"}}

AllContents ==
    {"k" :> v : v \in AllKubeconfigs \cup NoName \cup {Text("x"), Empty}} \cup {"other" :> Text("x")}
ContextInfos == {Good(Config0("s", "k", "", c)) : c \in {"", "c1", "c2", "c3"}}

\* Both readers, while the Secret changes and the client gives up.
TokenKubeconfig(t) ==
    Kubeconfig(FALSE, "c1", "c1" :> "u1", "u1" :> User(t, "", "", "", ""))
FewContents ==
    {"k" :> TokenKubeconfig(t) @@ "token" :> Text(t) : t \in {"t1", "t2"}}

OneToken == "k" :> TokenKubeconfig("t1") @@ "token" :> Text("t1")

AllNamespaces == {"default", "pod", "ctx", "other"}
Everywhere(data) == [n \in AllNamespaces |-> data]

\* The Secret is in all namespaces or in one.
Hubs == {Everywhere(OneToken)} \cup
        {[Everywhere(None) EXCEPT ![n] = OneToken] : n \in AllNamespaces}

\* Each plugin however it is started, and the kubeconfig-secretreader with any
\* kubeconfig.
AllStarts ==
    [plugin : {"", Reader, KubeconfigReader}, env : AllEnvironments, info : AllInfos, hub : Hubs]
    \cup [plugin : {KubeconfigReader}, env : {Environment(FALSE, "ok", "")},
          info : ContextInfos, hub : {Everywhere(data) : data \in AllContents}]
=============================================================================

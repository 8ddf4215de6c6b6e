----------------------- MODULE CredentialPluginProofs -----------------------
(***************************************************************************)
(* Proofs about the process of a credential plugin, however it is started, *)
(* whatever the Secrets hold and whenever they change, and whenever the    *)
(* client gives up: what it prints, and why it fails.                      *)
(***************************************************************************)
EXTENDS CredentialPlugin, SequenceTheorems, TLAPS

-----------------------------------------------------------------------------
(* What GetToken makes of the data of a Secret.                            *)

\* A user of a kubeconfig is a credential exactly if its certificate and its
\* key go together and are inline, and it has them or a token.
LEMMA UserStatusCases ==
    ASSUME NEW u
    PROVE  UserStatus(u) =
              IF \/ u.certData # "" /\ u.keyData # ""
                 \/ /\ u.token # ""
                    /\ {u.certData, u.keyData, u.certPath, u.keyPath} = {""}
              THEN {Credential(u.token, u.certData, u.keyData)} ELSE {}
  BY DEF UserStatus, Paired, Inline, HasCert, HasKey

\* GetToken returns the credential that the documentation says the data holds,
\* and no error if it holds one.
LEMMA StatusIsHeld ==
    ASSUME NEW data
    PROVE  /\ SecretStatus(data) \subseteq Held(data)
           /\ SecretStatus(data) = {} => Held(data) = {}
  <1>1. CASE data = None \/ Key \notin DOMAIN data \/ data[Key].form = "empty"
    BY <1>1 DEF SecretStatus, Held
  <1>2. CASE /\ ~(data = None \/ Key \notin DOMAIN data \/ data[Key].form = "empty")
             /\ plugin = "secretreader"
    BY <1>2 DEF SecretStatus, Held
  <1>3. CASE /\ ~(data = None \/ Key \notin DOMAIN data \/ data[Key].form = "empty")
             /\ plugin # "secretreader"
             /\ data[Key].form # "kubeconfig" \/ data[Key].extensions
    BY <1>3 DEF SecretStatus, KubeconfigStatus, Held
  <1>4. CASE /\ ~(data = None \/ Key \notin DOMAIN data \/ data[Key].form = "empty")
             /\ plugin # "secretreader"
             /\ ~(data[Key].form # "kubeconfig" \/ data[Key].extensions)
    <2> DEFINE k == data[Key]
               contexts == {c \in DOMAIN k.contexts \ {""} :
                               c = Config.context
                                  \/ (Config.context = "" /\ c = k.current)}
               users == {k.users[u] :
                            u \in {k.contexts[c] : c \in contexts} \cap DOMAIN k.users}
               Whole(v) == \/ v.certData # "" /\ v.keyData # ""
                           \/ /\ v.token # ""
                              /\ {v.certData, v.keyData, v.certPath, v.keyPath} = {""}
    <2>1. SecretStatus(data) = KubeconfigStatus(k)
      BY <1>4 DEF SecretStatus
    <2>2. Held(data) = {Credential(v.token, v.certData, v.keyData) :
                           v \in {v \in users : Whole(v)}}
      BY <1>4 DEF Held
    <2>3. contexts = {ContextName(k)} \cap (DOMAIN k.contexts \ {""})
      BY DEF ContextName
    <2>4. CASE /\ ContextName(k) # "" /\ ContextName(k) \in DOMAIN k.contexts
               /\ k.contexts[ContextName(k)] \in DOMAIN k.users
      <3>1. users = {k.users[k.contexts[ContextName(k)]]}
        BY <2>3, <2>4
      <3>2. KubeconfigStatus(k) = UserStatus(k.users[k.contexts[ContextName(k)]])
        BY <1>4, <2>4 DEF KubeconfigStatus
      <3> QED
        <4> DEFINE u == k.users[k.contexts[ContextName(k)]]
        <4>1. UserStatus(u) = IF Whole(u)
                              THEN {Credential(u.token, u.certData, u.keyData)} ELSE {}
          BY UserStatusCases
        <4>2. {v \in users : Whole(v)} = IF Whole(u) THEN {u} ELSE {}
          BY <3>1
        <4> HIDE DEF u, Whole, users
        <4>3. Held(data) = IF Whole(u)
                           THEN {Credential(u.token, u.certData, u.keyData)} ELSE {}
          BY <2>2, <4>2
        <4> QED
          BY <2>1, <3>2, <4>1, <4>3 DEF u
    <2>5. CASE ~(/\ ContextName(k) # "" /\ ContextName(k) \in DOMAIN k.contexts
                 /\ k.contexts[ContextName(k)] \in DOMAIN k.users)
      <3>1. users = {}
        BY <2>3, <2>5
      <3>2. KubeconfigStatus(k) = {}
        BY <2>5 DEF KubeconfigStatus
      <3> QED
        BY <2>1, <2>2, <3>1, <3>2
    <2> QED
      BY <2>4, <2>5
  <1> QED
    BY <1>1, <1>2, <1>3, <1>4

-----------------------------------------------------------------------------
(* The invariant.                                                          *)

\* The output at each place of the process: what is written and what is still
\* in the buffer is the credential and its newline, one after the other.
OutputInv ==
    /\ pc \in {"main", "run", "get", "write"} => out = << >> /\ buffer = << >>
    /\ pc = "newline" => \/ out = << >> /\ buffer = <<"credential">>
                         \/ out = <<"credential">> /\ buffer = << >>
    /\ pc = "flush" => \/ out = << >> /\ buffer = <<"credential", "newline">>
                       \/ out = <<"credential">> /\ buffer = <<"newline">>
    /\ code = 0 => out = <<"credential", "newline">>
    /\ code \in {1, 2} => out = << >>

\* What the process may fail for.
Excused == Justified(PromisedNamespace)

PluginInv ==
    /\ pc \in {"main", "run", "get", "write", "newline", "flush", "exited"}
    /\ pc # "exited" => code = None
    /\ OutputInv
    /\ pc = "get" => hub \in seen
    /\ pc \in {"write", "newline", "flush"} \/ code = 0 =>
          \E h \in seen : status \in Held(h[PromisedNamespace])
    /\ code \in {1, 2} => Excused

LEMMA NoneIsNoCode == None # 0 /\ None # 1 /\ None # 2 /\ -1 # 0 /\ -1 # 1 /\ -1 # 2
  <1>1. None # 0 /\ None # 1 /\ None # 2
    BY PluginAssumption, Zenon
  <1>2. -1 # 0 /\ -1 # 1 /\ -1 # 2
    OBVIOUS
  <1> QED
    BY <1>1, <1>2

\* Two data, one after the other.
LEMMA AppendTwo ==
    ASSUME NEW S, NEW a \in S, NEW b \in S
    PROVE  Append(<<a>>, b) = <<a, b>> /\ <<a>> \o <<b>> = <<a, b>>
  <1> DEFINE s == Append(<<a>>, b)
             t == <<a, b>>
  <1>1. <<a>> \in Seq(S) /\ Len(<<a>>) = 1
    OBVIOUS
  <1>2. t \in Seq(S) /\ Len(t) = 2 /\ t[1] = a /\ t[2] = b
    OBVIOUS
  <1>3. s \in Seq(S) /\ Len(s) = 2 /\ s[1] = a /\ s[2] = b
    BY <1>1, AppendProperties
  <1>4. <<a>> \o <<b>> = s
    BY <1>1, AppendIsConcat
  <1> HIDE DEF s, t
  <1>5. \A i \in 1..Len(s) : s[i] = t[i]
    BY <1>2, <1>3
  <1>6. s = t
    BY <1>2, <1>3, <1>5, SeqEqual
  <1> QED
    BY <1>4, <1>6 DEF s, t

\* What is written and what is in the buffer, joined.
LEMMA Joined ==
    /\ << >> \o <<"credential">> = <<"credential">>
    /\ << >> \o <<"credential", "newline">> = <<"credential", "newline">>
    /\ <<"credential">> \o <<"newline">> = <<"credential", "newline">>
    /\ Append(<<"credential">>, "newline") = <<"credential", "newline">>
    /\ Append(<< >>, "newline") = <<"newline">>
  <1>1. << >> \o <<"credential">> = <<"credential">>
    OBVIOUS
  <1>2. << >> \o <<"credential", "newline">> = <<"credential", "newline">>
    OBVIOUS
  <1>3. /\ <<"credential">> \o <<"newline">> = <<"credential", "newline">>
        /\ Append(<<"credential">>, "newline") = <<"credential", "newline">>
    <2> DEFINE S == {"credential", "newline"}
    <2>1. "credential" \in S /\ "newline" \in S
      OBVIOUS
    <2> HIDE DEF S
    <2> QED
      BY <2>1, AppendTwo
  <1>4. Append(<< >>, "newline") = <<"newline">>
    OBVIOUS
  <1> QED
    BY <1>1, <1>2, <1>3, <1>4

LEMMA PluginInit == Init => PluginInv
  BY NoneIsNoCode DEF Init, PluginInv, OutputInv

\* The namespace that the code infers is the one that the documentation names,
\* but for a Pod whose kubeconfig cannot be loaded.
LEMMA NamespaceIsPromised == Namespace = PromisedNamespace
  <1>1. CASE NamespaceGiven
    BY <1>1 DEF Namespace, PromisedNamespace, Misread, DocumentedNamespace,
                NamespaceGiven, Config
  <1>2. CASE ~NamespaceGiven
    <2>1. Namespace = inferNamespace(env)
      BY <1>2 DEF Namespace, NamespaceGiven, Config
    <2>2. CASE env.kubeconfig = "missing"
      BY <1>2, <2>1, <2>2 DEF inferNamespace, PromisedNamespace, Misread, DocumentedNamespace
    <2>3. CASE env.kubeconfig # "missing"
      BY <1>2, <2>1, <2>3 DEF inferNamespace, PromisedNamespace, Misread, DocumentedNamespace
    <2> QED
      BY <2>2, <2>3
  <1> QED
    BY <1>1, <1>2

\* What Run refuses is a request that nothing promises an answer to.
LEMMA RefusalIsBadStart ==
    ASSUME ~(plugin # "" /\ ReadExecInfo /\ ValidConfig)
    PROVE  BadStart
  BY DEF ReadExecInfo, ValidConfig, Config, BadStart

\* How the process was started does not change, and so neither does where it
\* looks nor what a Secret holds for it.
LEMMA StartedStays ==
    ASSUME UNCHANGED started
    PROVE  /\ PromisedNamespace' = PromisedNamespace
           /\ BadStart' = BadStart
           /\ \A data : Held(data)' = Held(data)
  <1>1. PromisedNamespace' = PromisedNamespace
    BY DEF started, PromisedNamespace, Misread, DocumentedNamespace, NamespaceGiven
  <1>2. BadStart' = BadStart
    BY DEF started, BadStart
  <1>3. \A data : Held(data)' = Held(data)
    BY DEF started, Held, Key, Config
  <1> QED
    BY <1>1, <1>2, <1>3

LEMMA PluginStep == PluginInv /\ [Next]_vars => PluginInv'
  <1> SUFFICES ASSUME PluginInv, [Next]_vars PROVE PluginInv'
    OBVIOUS
  <1>0. UNCHANGED started
    BY DEF Next, NewDefault, Run, GetToken, Write, WriteByte, Flush, ChangeSecret,
           GiveUp, Killed, vars
  <1>1. /\ PromisedNamespace' = PromisedNamespace
        /\ BadStart' = BadStart
        /\ \A data : Held(data)' = Held(data)
    BY <1>0, StartedStays
  <1>2. CASE NewDefault
    <2>1. CASE HasClient /\ Continue("run")
      BY <1>1, <1>2, <2>1, NoneIsNoCode
         DEF NewDefault, Continue, PluginInv, OutputInv, outside
    <2>2. CASE ~HasClient /\ Exit(2)
      <3>1. Excused'
        BY <1>1, <2>2 DEF HasClient, Excused, Justified, BadStart
      <3> QED
        BY <1>1, <1>2, <2>2, <3>1, NoneIsNoCode
           DEF NewDefault, Exit, PluginInv, OutputInv, outside
    <2> QED
      BY <1>2, <2>1, <2>2 DEF NewDefault
  <1>3. CASE Run
    <2>1. CASE plugin # "" /\ ReadExecInfo /\ ValidConfig /\ Continue("get")
      <3>1. hub' \in seen'
        BY <1>3, <2>1 DEF Run, Continue
      <3> QED
        BY <1>1, <1>3, <2>1, <3>1, NoneIsNoCode DEF Run, Continue, PluginInv, OutputInv
    <2>2. CASE ~(plugin # "" /\ ReadExecInfo /\ ValidConfig) /\ Fail
      <3>1. Excused'
        BY <1>1, <2>2, RefusalIsBadStart DEF Excused, Justified
      <3> QED
        <4>1. /\ pc = "run" /\ pc' = "exited" /\ code' = 1
              /\ UNCHANGED <<out, buffer>>
          BY <1>3, <2>2 DEF Run, Fail, Exit
        <4> QED
          BY <3>1, <4>1, NoneIsNoCode DEF PluginInv, OutputInv
    <2> QED
      BY <1>3, <2>1, <2>2 DEF Run
  <1>4. CASE GetToken
    <2>1. /\ pc = "get" /\ code = None /\ out = << >> /\ buffer = << >>
          /\ hub \in seen /\ seen' = seen /\ hub' = hub
          /\ out' = out /\ buffer' = buffer
      BY <1>4 DEF GetToken, PluginInv, OutputInv, outside
    <2>2. CASE /\ status' \in SecretStatus(hub[Namespace])
               /\ Continue("write")
      <3>1. \E h \in seen : status' \in Held(h[PromisedNamespace])
        BY <2>1, <2>2, StatusIsHeld, NamespaceIsPromised
      <3> QED
        BY <1>1, <2>1, <2>2, <3>1, NoneIsNoCode
           DEF Continue, PluginInv, OutputInv
    <2>3. CASE /\ SecretStatus(hub[Namespace]) = {} /\ Fail
      <3>1. \E h \in seen : Held(h[PromisedNamespace]) = {}
        BY <2>1, <2>3, StatusIsHeld, NamespaceIsPromised
      <3> QED
        <4>1. Excused'
          BY <1>1, <2>1, <3>1 DEF Excused, Justified
        <4> QED
          BY <2>1, <2>3, <4>1, NoneIsNoCode DEF Fail, Exit, PluginInv, OutputInv
    <2>4. CASE refused' = TRUE /\ Fail
      <3>1. Excused'
        BY <2>4 DEF Excused, Justified
      <3> QED
        BY <2>1, <2>4, <3>1, NoneIsNoCode DEF Fail, Exit, PluginInv, OutputInv
    <2> QED
      BY <1>4, <2>2, <2>3, <2>4 DEF GetToken
  <1>5. CASE Write
    BY <1>1, <1>5, Joined, NoneIsNoCode
       DEF Write, Emit, Continue, Exit, PluginInv, OutputInv, outside
  <1>6. CASE WriteByte
    BY <1>1, <1>6, Joined, NoneIsNoCode
       DEF WriteByte, Continue, PluginInv, OutputInv, outside
  <1>7. CASE Flush
    <2>1. /\ pc = "flush" /\ code = None /\ pc' = "exited" /\ buffer' = << >>
          /\ out \o buffer = <<"credential", "newline">>
      BY <1>7, Joined DEF Flush, Emit, Exit, PluginInv, OutputInv
    <2>2. CASE out' = out \o buffer /\ code' = 0
      BY <1>1, <1>7, <2>1, <2>2, NoneIsNoCode
         DEF Flush, PluginInv, OutputInv, outside
    <2>3. CASE code' = -1
      BY <2>1, <2>3, NoneIsNoCode DEF PluginInv, OutputInv
    <2> QED
      BY <1>7, <2>2, <2>3 DEF Flush, Flushed, Emit, Exit
  <1>8. CASE ChangeSecret
    <2>1. seen \subseteq seen' /\ (pc = "get" => hub' \in seen')
      BY <1>8 DEF ChangeSecret
    <2>2. UNCHANGED process
      BY <1>8 DEF ChangeSecret
    <2>3. Excused => Excused'
      BY <1>1, <2>1, <2>2 DEF Excused, Justified, process
    <2> QED
      BY <1>1, <2>1, <2>2, <2>3 DEF PluginInv, OutputInv, process
  <1>9. CASE GiveUp
    BY <1>0, <1>1, <1>9, NoneIsNoCode
       DEF GiveUp, PluginInv, OutputInv, Excused, Justified, process
  <1>10. CASE Killed
    BY <1>10, NoneIsNoCode DEF Killed, Exit, PluginInv, OutputInv
  <1>11. CASE UNCHANGED vars
    BY <1>0, <1>1, <1>11
       DEF vars, PluginInv, OutputInv, Excused, Justified, process, outside
  <1> QED
    BY <1>2, <1>3, <1>4, <1>5, <1>6, <1>7, <1>8, <1>9, <1>10, <1>11 DEF Next

LEMMA PluginAlways == Spec => []PluginInv
  BY PluginInit, PluginStep, PTL DEF Spec

\* A client that sees exit code 0 has read one whole credential and a newline,
\* and the Secret held that credential while GetToken looked: no other value of
\* a Secret that changes is ever printed, nor a part of one.
THEOREM ExitZeroMeansCredential == Spec => []ExitZeroIsCredential
  <1>1. PluginInv => ExitZeroIsCredential
    BY DEF PluginInv, OutputInv, ExitZeroIsCredential
  <1> QED
    BY <1>1, PluginAlways, PTL

\* The process fails on its own, with nothing printed, only if it was started
\* wrongly, the API server did not answer, or the Secret held no credential.  It
\* is the Secret that the documentation names, but for Misread.
THEOREM FailuresAreJustified == Spec => []FailureIsJustified
  <1>1. PluginInv => FailureIsJustified
    BY DEF PluginInv, OutputInv, Excused, FailureIsJustified
  <1> QED
    BY <1>1, PluginAlways, PTL
=============================================================================

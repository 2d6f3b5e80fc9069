----------------------------- MODULE MCWebhook -----------------------------
\* Instances of Webhook: the webhook's own service and one of a user, or one of a
\* namespace that the policy is to exclude.
EXTENDS Webhook, TLC

Server == <<"lightpath-system", "webhook-server">>
ServerAndApp == {Server, <<"default", "app">>}
ServerAndDns == {Server, <<"kube-system", "kube-dns">>}
DisabledNamespaces == {"lightpath-system"}

Object(labels, protocols) == [labels |-> labels, protocols |-> protocols]

\* Without labels and with one; mixed and without TCP; every way to choose.
AllObjects ==
  {Object(Empty, {"TCP"}), Object("app" :> "a", {"TCP", "UDP"}), Object(Empty, {"UDP"}),
   Object(ProxyName :> "other", {"TCP"}), Object(ProxyEnabled :> "disabled", {"TCP"}),
   Object(ProxyEnabled :> "enabled" @@ Headless :> "", {"TCP", "SCTP"})}

DnsObjects == {Object("app" :> "a", {"TCP", "UDP"})}
=============================================================================

CONSTANTS
  Keys <- ServerAndDns
  Disabled <- DisabledNamespaces
  Objects <- DnsObjects
  WebhookServer <- Server
  MaxFaults = 1
SPECIFICATION SafeSpec
INVARIANT PatchedAsCommented

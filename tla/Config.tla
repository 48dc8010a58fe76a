------------------------------- MODULE Config -------------------------------
(***************************************************************************)
(* The Config builder (config.rs): setters called in any order, any number *)
(* of times, and what Client::connect makes of the result: a data source   *)
(* string and a ClientContext.  The driver that gets them is external.     *)
(*                                                                         *)
(* Operators named Slip... are mistakes the properties must tell apart.    *)
(***************************************************************************)
EXTENDS Naturals, Sequences

CONSTANTS
  MaxCalls,   \* bound: setters called on one Config
  Hosts, Ports, Instances, Pipes, Names, Paths,  \* what they are called with
  Unset       \* None

VARIABLES
  config,     \* the Config
  calls,      \* the setters called so far
  link        \* what the driver is given, Unset before

configVars == <<config, calls, link>>

Auths == [method : {"sql"}, secret : Names] \cup [method : {"integrated"}, secret : {Unset}]
           \cup [method : {"token"}, secret : Names]
Transports == [kind : {"tcp", "shared"}, pipe : {Unset}]
                \cup [kind : {"pipe"}, pipe : Pipes \cup {Unset}]
Levels == {"Off", "On", "NotSupported", "Required", "Strict"}

\* What each setter takes.  Names stand for the texts that are handed on.
Domain == [host |-> Hosts, port |-> Ports, database |-> Names, auth |-> Auths,
  trust_cert |-> {TRUE}, server_certificate |-> Paths, host_name_in_certificate |-> Names,
  readonly |-> BOOLEAN, encryption |-> Levels, application_name |-> Names,
  instance_name |-> Instances, client_name |-> Names, unicode |-> BOOLEAN,
  multi_subnet_failover |-> BOOLEAN, transport |-> Transports,
  security_context_provider |-> Names]

\* Config::new
NoSecret == ""
Defaults == [host |-> "localhost", port |-> 1433, database |-> "master",
  auth |-> [method |-> "sql", secret |-> NoSecret],
  trust_cert |-> FALSE, server_certificate |-> Unset, host_name_in_certificate |-> Unset,
  readonly |-> FALSE, encryption |-> "On", application_name |-> Unset,
  instance_name |-> Unset, client_name |-> Unset, unicode |-> TRUE,
  multi_subnet_failover |-> FALSE, transport |-> [kind |-> "tcp", pipe |-> Unset],
  security_context_provider |-> Unset]

ConfigInit == config = Defaults /\ calls = <<>> /\ link = Unset

-----------------------------------------------------------------------------

\* A named instance takes the port back to its default.
SlipSet(field, value) ==
  config' = IF field = "instance_name" THEN [config EXCEPT ![field] = value, !.port = 1433]
            ELSE IF field = "transport" THEN [config EXCEPT ![field] = value, !.instance_name = Unset]
            ELSE [config EXCEPT ![field] = value]

\* Each setter replaces its field and leaves the others.
Set(field, value) == config' = [config EXCEPT ![field] = value]

Call(field, value) ==
  /\ link = Unset /\ Len(calls) < MaxCalls
  /\ Set(field, value)
  /\ calls' = Append(calls, <<field, value>>)
  /\ UNCHANGED link

\* datasource_string, by its parts: an instance takes the place of the port,
\* an explicit pipe that of everything, and only a pipe knows the names of
\* the local machine.
DatasourceString(c) ==
  LET explicit == c.transport.pipe # Unset
  IN [transport |-> c.transport.kind, pipe |-> c.transport.pipe,
      host |-> IF explicit THEN Unset
               ELSE IF c.transport.kind = "pipe" /\ c.host \in {".", "localhost"} THEN "." ELSE c.host,
      port |-> IF c.transport.kind = "tcp" /\ c.instance_name = Unset THEN c.port ELSE Unset,
      instance |-> IF explicit THEN Unset ELSE c.instance_name]

\* TDS has no "encryption off" of its own in the driver.
Mode(level) == IF level \in {"Off", "NotSupported"} THEN "PreferOff" ELSE level

\* to_client_context: the fields of the method in use and no others, and the
\* driver's defaults where nothing was set.
ToClientContext(c) ==
  [database |-> c.database,
   user |-> IF c.auth.method = "sql" THEN c.auth.secret ELSE Unset,
   access_token |-> IF c.auth.method = "token" THEN c.auth.secret ELSE Unset,
   method |-> c.auth.method,
   trust |-> c.trust_cert, certificate |-> c.server_certificate,
   host_name |-> c.host_name_in_certificate, mode |-> Mode(c.encryption),
   application |-> c.application_name, workstation |-> c.client_name,
   intent |-> IF c.readonly THEN "ReadOnly" ELSE "ReadWrite",
   failover |-> c.multi_subnet_failover, provider |-> c.security_context_provider]

\* Client::connect, up to create_client.
Connect ==
  /\ link = Unset
  /\ link' = [source |-> DatasourceString(config), context |-> ToClientContext(config)]
  /\ UNCHANGED <<config, calls>>

-----------------------------------------------------------------------------

\* The value of the last call of a setter, or the default.
LastSet(field) ==
  LET own == {i \in DOMAIN calls : calls[i][1] = field}
  IN IF own = {} THEN Defaults[field]
     ELSE calls[CHOOSE i \in own : \A j \in own : j <= i][2]

\* The settings handed on as they are, and under which name.
HandedOn == [database |-> "database", trust_cert |-> "trust",
  server_certificate |-> "certificate", host_name_in_certificate |-> "host_name",
  application_name |-> "application", client_name |-> "workstation",
  multi_subnet_failover |-> "failover", security_context_provider |-> "provider"]

\* Whatever the order of the setters, the driver is given what each was last
\* called with: no setter undoes another, the secret of one method never goes
\* along with another method, and the server is named in exactly one way, by
\* an explicit pipe, or by host and instance, or by host and port.
LinkAsSet ==
  link # Unset =>
    LET to == link.source  with == link.context
        auth == LastSet("auth")  transport == LastSet("transport")
        instance == LastSet("instance_name")
    IN /\ \A f \in DOMAIN HandedOn : with[HandedOn[f]] = LastSet(f)
       /\ with.method = auth.method
       /\ {with.user, with.access_token} \ {Unset} = {auth.secret} \ {Unset}
       /\ with.user # Unset => auth.method = "sql"
       /\ (with.mode = "PreferOff") <=> (LastSet("encryption") \in {"Off", "NotSupported"})
       /\ (with.intent = "ReadOnly") <=> LastSet("readonly")
       /\ to.transport = transport.kind /\ to.pipe = transport.pipe
       /\ IF to.pipe # Unset THEN to.host = Unset /\ to.port = Unset /\ to.instance = Unset
          ELSE /\ to.instance = instance
               /\ to.host \in {LastSet("host"), "."}
               /\ to.port = IF transport.kind = "tcp" /\ instance = Unset
                            THEN LastSet("port") ELSE Unset
=============================================================================

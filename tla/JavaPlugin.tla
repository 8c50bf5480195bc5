----------------------------- MODULE JavaPlugin -----------------------------
(***************************************************************************)
(* compiler/src/java_plugin/cpp/java_plugin.cpp: one run of the plugin on  *)
(* a .proto file.  It reads its options, opens three files for every       *)
(* service and has GenerateInterface, GenerateClient and GenerateServer    *)
(* print them; what they print of methods is in JavaGenerator.             *)
(*                                                                         *)
(* A name is a sequence of parts, so that a suffix shows: the client of    *)
(* Foo and a service FooClient have one name.  A package is a sequence of  *)
(* identifiers and dots.                                                   *)
(***************************************************************************)
EXTENDS Naturals, Sequences, Functions

CONSTANTS
  Packages,      \* the Java packages of .proto files; <<>> is the default one
  ServiceLists,  \* the services of a file: sequences of distinct names
  Parameters     \* what the plugin may be called with: sequences of options

VARIABLES
  outerClass,       \* the qualified Java name of the class of the file
  services,         \* its services
  parameter,        \* the options
  i,                \* the next option
  flavor,           \* NORMAL or LITE
  disable_version,  \* whether an option asked for that
  at,               \* the next service
  kind,             \* the next of its files
  opened,           \* what was opened and printed so far
  outcome           \* what protoc makes of it

vars == <<outerClass, services, parameter, i, flavor, disable_version, at, kind,
          opened, outcome>>

Kinds == <<"interface", "client", "server">>

(* compiler::java::ClassName(file), which is in protobuf.                  *)
ClassName(package) == (IF package = <<>> THEN <<>> ELSE package \o <<".">>)
                      \o <<"Outer">>

Start(package, list, options) ==
  /\ outerClass = ClassName(package) /\ services = list /\ parameter = options
  /\ i = 1 /\ flavor = "NORMAL" /\ disable_version = FALSE
  /\ at = 1 /\ kind = 1 /\ opened = <<>> /\ outcome = "running"

Init == \E package \in Packages, list \in ServiceLists, options \in Parameters :
          Start(package, list, options)
-----------------------------------------------------------------------------
(* The loop over the options; unknown ones are passed over.                *)
ParseOption ==
  /\ outcome = "running" /\ i <= Len(parameter)
  /\ flavor' = IF parameter[i] = "lite" THEN "LITE" ELSE flavor
  /\ disable_version' = (disable_version \/ parameter[i] = "noversion")
  /\ i' = i + 1
  /\ UNCHANGED <<outerClass, services, parameter, at, kind, opened, outcome>>

Dots(name) == {k \in DOMAIN name : name[k] = "."}

(* The class name up to its last dot.                                      *)
ServiceJavaPackage ==
  IF Dots(outerClass) = {} THEN <<>>
  ELSE LET last == CHOOSE k \in Dots(outerClass) :
                     \A j \in Dots(outerClass) : j <= k
       IN  SubSeq(outerClass, 1, last - 1)

JavaPackageToDir(package) ==
  [k \in DOMAIN package |-> IF package[k] = "." THEN "/" ELSE package[k]]
    \o IF package = <<>> THEN <<>> ELSE <<"/">>

ClientClassName(service) == service \o <<"Client">>
ServerClassName(service) == service \o <<"Server">>

(* What the three generators print around the methods: the package, the    *)
(* class, the interface it implements, whether it names the version of the *)
(* plugin.  The flavor is passed on and not used.                          *)
Generated(class, service) ==
  [package |-> ServiceJavaPackage, class |-> class, interface |-> service,
   version |-> ~disable_version]

GenerateInterface(service) == Generated(service, service)
GenerateClient(service)    == Generated(ClientClassName(service), service)
GenerateServer(service)    == Generated(ServerClassName(service), service)

Printed(service) == CASE Kinds[kind] = "interface" -> GenerateInterface(service)
                      [] Kinds[kind] = "client"    -> GenerateClient(service)
                      [] Kinds[kind] = "server"    -> GenerateServer(service)

FileName_Mutant(service) ==
  CASE Kinds[kind] = "interface" -> service
    [] Kinds[kind] = "client"    -> ClientClassName(service)
    [] Kinds[kind] = "server"    -> ClientClassName(service) \o <<"Server">>
FileName(service) ==
  CASE Kinds[kind] = "interface" -> service
    [] Kinds[kind] = "client"    -> ClientClassName(service)
    [] Kinds[kind] = "server"    -> ServerClassName(service)

(* Open a file, print it, go on to the next.                               *)
GenerateFile ==
  /\ outcome = "running" /\ i > Len(parameter) /\ at <= Len(services)
  /\ opened' = Append(opened,
       [path |-> JavaPackageToDir(ServiceJavaPackage)
                   \o FileName(services[at]) \o <<".java">>,
        text |-> Printed(services[at])])
  /\ IF kind < Len(Kinds)
       THEN kind' = kind + 1 /\ UNCHANGED at
       ELSE kind' = 1 /\ at' = at + 1
  /\ UNCHANGED <<outerClass, services, parameter, i, flavor, disable_version,
                 outcome>>

Paths == [k \in DOMAIN opened |-> opened[k].path]

(* protoc takes all the files, or none if one path was opened twice.       *)
Accepts == IsInjective(Paths)

Generate ==
  /\ outcome = "running" /\ i > Len(parameter) /\ at > Len(services)
  /\ outcome' = IF Accepts THEN "written" ELSE "rejected"
  /\ UNCHANGED <<outerClass, services, parameter, i, flavor, disable_version,
                 at, kind, opened>>

Next == ParseOption \/ GenerateFile \/ Generate

Spec == Init /\ [][Next]_vars
-----------------------------------------------------------------------------
(* Properties.                                                             *)

(* Where javac looks for a public class.                                   *)
Location(package, class) ==
  LET separated == IF package = <<>> THEN <<>> ELSE package \o <<".">>
  IN  [k \in DOMAIN separated |-> IF separated[k] = "." THEN "/" ELSE separated[k]]
        \o class \o <<".java">>

(* Every service gets its interface, client and server, where javac looks  *)
(* for them and with the interface that the other two implement: the paths *)
(* (java_plugin.cpp:49 to :67) and the declarations in the files           *)
(* (java_generator.cpp:1313, :1356 and :1403) are derived apart from each  *)
(* other.  A file is rejected only if the name of one of its services is   *)
(* that of another's client or server (java_generator.cpp:1427).           *)
EveryClassFound ==
  /\ outcome = "written" =>
       \A s \in Range(services) :
         \A class \in {s, s \o <<"Client">>, s \o <<"Server">>} :
           \E f \in Range(opened) :
             /\ f.text.class = class /\ f.text.interface = s
             /\ f.path = Location(f.text.package, class)
  /\ outcome = "rejected" =>
       \E a, b \in Range(services) :
         a \in {b \o <<"Client">>, b \o <<"Server">>}
=============================================================================

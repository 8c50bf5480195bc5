----------------------------- MODULE PluginRun -----------------------------
(***************************************************************************)
(* One run of the protoc plugin on a .proto file, from its comments and    *)
(* names to its Java files: JavaPlugin parses the options and goes over    *)
(* the services; before the first interface is done, DocComment has        *)
(* printed its comment (PrintInterface, WriteServiceDocComment) and        *)
(* Identifiers has derived the names and ids in it.                        *)
(*                                                                         *)
(* The comment and the name of one service are followed; those of the      *)
(* others are printed and derived the same way and go unseen.              *)
(***************************************************************************)
EXTENDS DocComment

CONSTANTS Words, Namespaces, Committed,
          Packages, ServiceLists, Parameters,
          Files  \* .proto files with one service's name and comment

VARIABLES word, loop, char, after_underscore, mixed, upper, hash, rv
VARIABLES outerClass, services, parameter, option, flavor, disable_version,
          service, kind, opened, outcome

nameVars == <<word, loop, char, after_underscore, mixed, upper, hash, rv>>
pluginVars == <<outerClass, services, parameter, option, flavor,
                disable_version, service, kind, opened, outcome>>

Names  == INSTANCE Identifiers WITH at <- loop, i <- char
Plugin == INSTANCE JavaPlugin WITH i <- option, at <- service

(* Names of services are unique in a file; an id is 32 bits.               *)
ASSUME PluginAssumption ==
  /\ \A name \in Words : name \in Seq(1 .. 127) /\ name # <<>>
  /\ \A f \in Files : /\ f.package \in Packages /\ f.services \in ServiceLists
                      /\ f.parameter \in Parameters /\ f.word \in Words
                      /\ {f.leading, f.trailing} \subseteq Comments
                      /\ {f.located, f.preTag} \subseteq BOOLEAN
  /\ \A list \in ServiceLists : \A a, b \in DOMAIN list :
       list[a] = list[b] => a = b
  /\ Namespaces \subseteq Names!Ids

RunInit ==
  \E f \in Files :
    /\ Start(GetCommentsForDescriptor(f.located, f.leading, f.trailing), f.preTag)
    /\ Names!Start(f.word)
    /\ Plugin!Start(f.package, f.services, f.parameter)
-----------------------------------------------------------------------------
OptionsParsed == option > Len(parameter)

ParseOptions == /\ ~OptionsParsed /\ Plugin!Next
                /\ UNCHANGED <<vars, nameVars>>

PrintDocComment == /\ OptionsParsed /\ services # <<>>
                   /\ Next
                   /\ UNCHANGED <<nameVars, pluginVars>>

DeriveNames == /\ OptionsParsed /\ services # <<>> /\ Closed
               /\ Names!Next
               /\ UNCHANGED <<vars, pluginVars>>

PrintFiles == /\ OptionsParsed /\ services # <<>> => (Closed /\ Names!Done)
              /\ Plugin!Next
              /\ UNCHANGED <<vars, nameVars>>

RunNext == ParseOptions \/ PrintDocComment \/ DeriveNames \/ PrintFiles

RunSpec == RunInit /\ [][RunNext]_<<vars, nameVars, pluginVars>>
-----------------------------------------------------------------------------
(* Properties of the parts, stated of the run.                             *)

(* No two names of methods collide unless they differ in nothing but case  *)
(* and underscores (java_generator.cpp:50 and :69).                        *)
NamesKeepLetters == Names!NamesKeepLetters

(* Generator and library derive one id from a name, the one that was       *)
(* committed (java_generator.cpp:40, Hashing.java:25).                     *)
SameHash == Names!SameHash

(* Two pairs of ids never have one key in the map (Hashing.java:57).       *)
KeysDiffer == Names!KeysDiffer

(* javac finds every class of every service, and a file is rejected only   *)
(* for services named like another's client or server (java_plugin.cpp:46  *)
(* to :68).                                                                *)
EveryClassFound == Plugin!EveryClassFound
=============================================================================

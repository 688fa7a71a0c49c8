-------------------------- MODULE MCRabbitHandler --------------------------
(* Instances of RabbitHandler for TLC.                                     *)
EXTENDS RabbitHandler

MCTopics == <<"/rx/dev/control", "/rx/dev/config">>
=============================================================================

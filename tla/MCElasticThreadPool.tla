------------------------ MODULE MCElasticThreadPool ------------------------
(* ElasticThreadPool with threads and tasks for TLC.                         *)
EXTENDS ElasticThreadPool

CONSTANTS h1, h2, h3, a, b, c, k1
=============================================================================

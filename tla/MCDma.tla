------------------------------- MODULE MCDma -------------------------------
(* The DMA controller on a short raster.                                    *)
EXTENDS Dma
=============================================================================

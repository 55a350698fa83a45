----------------------------- MODULE MCGpuDevice -----------------------------
EXTENDS GpuDevice

CONSTANTS NaN, Big
=============================================================================
